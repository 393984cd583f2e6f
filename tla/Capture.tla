------------------------------ MODULE Capture ------------------------------
(***************************************************************************)
(* What is counted and drawn from the RTP packets that arrive: the packet  *)
(* statistics of a session (internal/media/stats.go), the report of the    *)
(* PCAP analyzer on a capture of the same packets                          *)
(* (internal/pcap/analyzer.go), with the ED-137 header extension           *)
(* (internal/ed137/header_ext.go) and the G.711 voice both decode.         *)
(*                                                                         *)
(* Time is the index of a packet in the capture, and one sample stands for *)
(* the payload of a packet.  Jitter, byte counts and the packet table are  *)
(* left out; the loss rate follows from the counters.                      *)
(***************************************************************************)
EXTENDS Integers, Sequences, FiniteSets, G711

CONSTANTS
    Streams,      \* RTP streams in the capture
    FirstNumbers, \* first sequence numbers
    Modulus,      \* sequence numbers are modulo this (2^16 in the code)
    HugeGap,      \* a gap from here on is not loss (3000 in the code)
    Headers,      \* what senders put into header extensions
    NoExt,        \* a packet without one
    Voice,        \* what the packets of a stream say: payload type and sample
    MaxPackets, MaxFlight, MaxSip   \* bounds: sent per stream, under way, SIP messages

ASSUME CaptureAssumption ==
    /\ "SIP" \notin Streams /\ NoExt \notin Byte
    /\ Modulus \in Nat \ {0} /\ HugeGap \in Nat \ {0} /\ FirstNumbers \subseteq 0..Modulus - 1
    /\ Headers \subseteq [ptt : 0..7, squ : BOOLEAN, id : 0..255] \cup {NoExt}
    /\ {MaxPackets, MaxFlight, MaxSip} \subseteq Nat
    /\ Voice \in [1..MaxPackets -> [law : {"PCMA", "PCMU"}, sample : Int16]]

VARIABLES
    start,    \* first number of each stream
    said,     \* what each stream has sent, in order
    underway, \* packets on the network
    stats,    \* the statistics of each stream's receiver
    tape      \* the capture: packets as they arrived, and SIP messages

captureVars == <<start, said, underway, stats, tape>>

-----------------------------------------------------------------------------
(* The header extension: PTT type in three bits, squelch in one, PTT id in *)
(* four.                                                                   *)

EncodePayload(h) == (h.ptt % 8) * 32 + (IF h.squ THEN 16 ELSE 0) + (h.id % 16)

DecodePayload(byte) ==
    [ptt |-> (byte \div 32) % 8, squ |-> (byte \div 16) % 2 = 1, id |-> byte % 16]

-----------------------------------------------------------------------------
(* The statistics of a session.                                            *)

NewStreamStats == [received |-> 0, lost |-> 0, last |-> 0, has |-> FALSE]

\* Broken variant: the distance from the last number, not from the expected one.
Mut_Gap(st, seq) ==
    IF st.has /\ seq > st.last /\ seq - st.last < HugeGap THEN seq - st.last ELSE 0

\* The numbers skipped before a packet; the expected number is a uint16.
Gap(st, seq) ==
    LET expected == (st.last + 1) % Modulus
    IN IF st.has /\ seq > expected /\ seq - expected < HugeGap THEN seq - expected ELSE 0

RecordRxPacket(st, seq) ==
    [received |-> st.received + 1, lost |-> st.lost + Gap(st, seq),
     last |-> seq, has |-> TRUE]

-----------------------------------------------------------------------------
(* The analyzer: one pass over the capture.  A span is <<first, last>>,    *)
(* packets of the capture; it is drawn up to 50 ms after the last one.  An *)
(* open one ends with the capture.                                         *)

Span(type, span) == IF span = << >> THEN << >> ELSE << [type |-> type, span |-> span] >>

\* A span goes on, or begins, with packet i.
Extend(span, i) == IF span = << >> THEN <<i, i>> ELSE <<span[1], i>>

NewReport ==
    [sip |-> 0, rtp |-> NewStreamStats,
     ptt |-> << >>, squ |-> << >>, timeline |-> << >>, pcm |-> << >>]

DissectSip(r, i) ==
    [r EXCEPT !.sip = @ + 1, !.timeline = @ \o Span("SIP", <<i, i>>)]

DissectExt(r, i, h) ==
    [r EXCEPT
        !.ptt = IF h.ptt # 0 THEN Extend(@, i) ELSE << >>,
        !.squ = IF h.squ THEN Extend(@, i) ELSE << >>,
        !.timeline = @ \o (IF h.ptt # 0 THEN << >> ELSE Span("PTT", r.ptt))
                       \o (IF h.squ THEN << >> ELSE Span("SQU", r.squ))]

\* Broken variant: every payload is taken for A-law.
Mut_Decoded(p) == DecodeALaw(p.audio)

Decoded(p) == IF p.law = "PCMA" THEN DecodeALaw(p.audio) ELSE DecodeULaw(p.audio)

DissectRtp(r, i, p) ==
    LET counted == [r EXCEPT !.rtp = RecordRxPacket(@, p.seq), !.pcm = Append(@, Decoded(p))]
    IN IF p.ext = NoExt THEN counted ELSE DissectExt(counted, i, DecodePayload(p.ext))

Dissect(r, i, p) == IF p.from = "SIP" THEN DissectSip(r, i) ELSE DissectRtp(r, i, p)

\* The report after each packet of a capture.
Reports(packets) ==
    LET after[i \in 0..Len(packets)] ==
            IF i = 0 THEN NewReport ELSE Dissect(after[i - 1], i, packets[i])
    IN after

\* Broken variant: what is still on at the end is not drawn.
Mut_AnalyzePCAP(packets) == Reports(packets)[Len(packets)]

AnalyzePCAP(packets) ==
    LET r == Reports(packets)[Len(packets)]
    IN [r EXCEPT !.timeline = @ \o Span("PTT", r.ptt) \o Span("SQU", r.squ)]

-----------------------------------------------------------------------------
\* Broken variant: the number is not cut to its width.
Mut_Number(s) == start[s] + Len(said[s])

Number(s) == (start[s] + Len(said[s])) % Modulus

Encoded(v) == IF v.law = "PCMA" THEN EncodeALaw(v.sample) ELSE EncodeULaw(v.sample)

Packet(s, h) ==
    LET n == Len(said[s]) + 1
    IN [from |-> s, n |-> n, seq |-> Number(s),
        law |-> Voice[n].law, audio |-> Encoded(Voice[n]),
        ext |-> IF h = NoExt THEN NoExt ELSE EncodePayload(h)]

CaptureInit ==
    /\ start \in [Streams -> FirstNumbers]
    /\ said = [s \in Streams |-> << >>]
    /\ underway = {}
    /\ stats = [s \in Streams |-> NewStreamStats]
    /\ tape = << >>

Transmit(s) ==
    /\ Len(said[s]) < MaxPackets /\ Cardinality(underway) < MaxFlight
    /\ \E h \in Headers :
         /\ said' = [said EXCEPT ![s] = Append(@, h)]
         /\ underway' = underway \cup {Packet(s, h)}
    /\ UNCHANGED <<start, stats, tape>>

Vanish(p) ==
    /\ underway' = underway \ {p}
    /\ UNCHANGED <<start, said, stats, tape>>

Arrive(p) ==
    /\ underway' = underway \ {p}
    /\ stats' = [stats EXCEPT ![p.from] = RecordRxPacket(@, p.seq)]
    /\ tape' = Append(tape, p)
    /\ UNCHANGED <<start, said>>

Sip ==
    /\ AnalyzePCAP(tape).sip < MaxSip
    /\ tape' = Append(tape, [from |-> "SIP"])
    /\ UNCHANGED <<start, said, underway, stats>>

CaptureNext ==
    \/ \E s \in Streams : Transmit(s)
    \/ \E p \in underway : Vanish(p) \/ Arrive(p)
    \/ Sip

CaptureSpec == CaptureInit /\ [][CaptureNext]_captureVars

-----------------------------------------------------------------------------
Counters == [received : Nat, lost : Nat, last : 0..Modulus - 1, has : BOOLEAN]

CaptureTypeOK ==
    /\ start \in [Streams -> FirstNumbers]
    /\ said \in [Streams -> Seq(Headers)]
    /\ \A p \in underway :
         /\ p.from \in Streams /\ p.seq \in 0..Modulus - 1
         /\ p.ext \in Byte \cup {NoExt} /\ p.audio \in Byte
    /\ stats \in [Streams -> Counters]
    /\ AnalyzePCAP(tape).rtp \in Counters

\* Where in the capture the packets of a stream are.
Of(s) == {i \in DOMAIN tape : tape[i].from = s}

\* The packets of a stream, by their place in it, that are not there although one
\* before them was the first to arrive and one after them arrived too.
Missing(s) ==
    {n \in 1..Len(said[s]) :
        /\ \A i \in Of(s) : tape[i].n # n
        /\ \E i \in Of(s) : tape[i].n < n /\ \A j \in Of(s) : i <= j
        /\ \E i \in Of(s) : n < tape[i].n}

InOrder(s) == \A i, j \in Of(s) : i < j => tape[i].n < tape[j].n

\* What the code takes for a new start: the wrap of the number, a huge gap.
Steady(s) ==
    /\ \A i \in Of(s) : start[s] + tape[i].n <= Modulus
    /\ \A i, j \in Of(s) :
         i < j /\ (\A k \in Of(s) : k <= i \/ j <= k) => tape[j].n <= tape[i].n + HugeGap

\* Every packet that was lost on the way is counted, by the receiver and by the
\* analyzer of the capture, in whatever order the others arrive; and when they
\* arrive in order nothing else is.
LossCounted ==
    \A s \in Streams : Steady(s) =>
        \A lost \in {stats[s].lost, AnalyzePCAP(tape).rtp.lost} :
            /\ lost >= Cardinality(Missing(s))
            /\ InOrder(s) => lost = Cardinality(Missing(s))

-----------------------------------------------------------------------------
\* The packets of a stream that say anything, and those of them for which On holds.
Telling(s) ==
    {i \in DOMAIN tape : tape[i].from = s /\ said[s][tape[i].n] # NoExt}

\* The runs of X among Y: from a first to a last member with no other Y between.
Runs(X, Y) ==
    {r \in X \X X :
        /\ r[1] <= r[2]
        /\ \A y \in Y \ X : ~(r[1] < y /\ y < r[2])
        /\ \A x \in X : x < r[1] => \E y \in Y \ X : x < y /\ y < r[1]
        /\ \A x \in X : x > r[2] => \E y \in Y \ X : r[2] < y /\ y < x}

Keyed(s) == {i \in Telling(s) : said[s][tape[i].n].ptt # 0}
Carried(s) == {i \in Telling(s) : said[s][tape[i].n].squ}

Timeline == AnalyzePCAP(tape).timeline
Drawn(type) == {k \in DOMAIN Timeline : Timeline[k].type = type}
Spans(type) == {Timeline[k].span : k \in Drawn(type)}

\* The timeline of a capture of one stream, with any SIP messages in between, shows
\* exactly when the sender had the key down and when it had a carrier: one span for
\* each run of packets that said so, from its first to its last packet and in the
\* order of the packets, whatever was lost, and the last one also when the capture
\* ends first.  (The analyzer draws each span on for 50 ms after its last packet,
\* perhaps into the next; that tail is left out.)
SpansFaithful ==
    /\ Spans("PTT") = UNION {Runs(Keyed(s), Telling(s)) : s \in Streams}
    /\ Spans("SQU") = UNION {Runs(Carried(s), Telling(s)) : s \in Streams}
    /\ \A type \in {"PTT", "SQU"} : \A k, l \in Drawn(type) :
         k < l => Timeline[k].span[2] < Timeline[l].span[1]

-----------------------------------------------------------------------------
\* What comes back for a sample is near it, or near the loudest the mu-law knows.
Heard(v, sample) == IF v.law = "PCMA" THEN ANear(v.sample, sample)
                                      ELSE UNear(Clip(v.sample), sample)

\* Where in the capture the RTP packets are.
Voiced == {i \in DOMAIN tape : tape[i].from \in Streams}

\* The audio restored from a capture is what was said in the packets that are in it,
\* each in its place in the order they arrived, whatever was lost, whatever the
\* payload type changes to and whatever else is captured: no sample drifts by more
\* than companding costs, up to the loudest ones.
AudioKept ==
    LET pcm == AnalyzePCAP(tape).pcm
    IN /\ Len(pcm) = Cardinality(Voiced)
       /\ \A i \in Voiced :
            Heard(Voice[tape[i].n], pcm[Cardinality({j \in Voiced : j <= i})])

-----------------------------------------------------------------------------
(* Not so in the code.                                                     *)

\* Loss is counted across the wrap of the sequence number too.
LossAcrossWrap ==
    \A s \in Streams : InOrder(s) => stats[s].lost >= Cardinality(Missing(s))

\* "Packet loss detection": what arrives late is not lost.
LateIsNotLost ==
    \A s \in Streams : Steady(s) => stats[s].lost = Cardinality(Missing(s))

=============================================================================
