-------------------------- MODULE ConsoleHubProofs --------------------------
(***************************************************************************)
(* The communication log for any number of loggers, subscribers and        *)
(* entries: its types and that an entry is delivered once; and the console *)
(* on top of it for any number of browsers: its types and that no browser  *)
(* misses an entry.                                                        *)
(***************************************************************************)
EXTENDS ConsoleHub, SequenceTheorems, TLAPS

-----------------------------------------------------------------------------
(* Sequences.                                                              *)

\* What is in a sequence with one more element.
LEMMA AppendFacts ==
    ASSUME NEW S, NEW q \in Seq(S), NEW e \in S
    PROVE  /\ Append(q, e) \in Seq(S) /\ Len(Append(q, e)) = Len(q) + 1
           /\ \A i \in 1..Len(q) : Append(q, e)[i] = q[i]
           /\ Append(q, e)[Len(q) + 1] = e
           /\ ToSet(Append(q, e)) = ToSet(q) \cup {e}
<1>1. /\ Append(q, e) \in Seq(S) /\ Len(Append(q, e)) = Len(q) + 1
      /\ \A i \in 1..Len(q) : Append(q, e)[i] = q[i]
      /\ Append(q, e)[Len(q) + 1] = e
  BY AppendProperties
<1>2. DOMAIN q = 1..Len(q) /\ DOMAIN Append(q, e) = 1..Len(q) + 1 /\ Len(q) \in Nat
  BY <1>1, LenProperties
<1>3. ToSet(Append(q, e)) = ToSet(q) \cup {e}
  BY <1>1, <1>2 DEF ToSet
<1>4. QED
  BY <1>1, <1>3

\* What is in a sequence whose head is taken.
LEMMA TailFacts ==
    ASSUME NEW S, NEW q \in Seq(S), q # << >>
    PROVE  /\ Head(q) \in S /\ Tail(q) \in Seq(S) /\ Len(Tail(q)) = Len(q) - 1
           /\ Len(q) \in Nat \ {0}
           /\ \A i \in 1..Len(q) - 1 : Tail(q)[i] = q[i + 1]
           /\ ToSet(q) = ToSet(Tail(q)) \cup {Head(q)}
<1>1. /\ Head(q) \in S /\ Tail(q) \in Seq(S) /\ Len(Tail(q)) = Len(q) - 1
      /\ \A i \in 1..Len(q) - 1 : Tail(q)[i] = q[i + 1]
  BY HeadTailProperties
<1>2. Len(q) \in Nat \ {0} /\ Head(q) = q[1]
  BY EmptySeq
<1>3. DOMAIN q = 1..Len(q) /\ DOMAIN Tail(q) = 1..Len(q) - 1
  BY <1>1, LenProperties
<1>4. \A i \in 1..Len(q) : i = 1 \/ (i - 1 \in 1..Len(q) - 1 /\ Tail(q)[i - 1] = q[i])
  BY <1>1, <1>2
<1>5. \A i \in 1..Len(q) - 1 : i + 1 \in 1..Len(q) /\ Tail(q)[i] = q[i + 1]
  BY <1>1, <1>2
<1>6. ToSet(q) \subseteq ToSet(Tail(q)) \cup {Head(q)}
  <2>1. ASSUME NEW i \in 1..Len(q)
        PROVE  q[i] = Head(q) \/ q[i] \in ToSet(Tail(q))
    <3>1. CASE i = 1
      BY <1>2, <3>1
    <3>2. CASE i - 1 \in DOMAIN Tail(q) /\ Tail(q)[i - 1] = q[i]
      BY <3>2 DEF ToSet
    <3> QED BY <1>3, <1>4, <3>1, <3>2
  <2> QED BY <1>3, <2>1 DEF ToSet
<1>7. ToSet(Tail(q)) \cup {Head(q)} \subseteq ToSet(q)
  <2>1. Head(q) \in ToSet(q)
    BY <1>2, <1>3 DEF ToSet
  <2>2. \A i \in DOMAIN Tail(q) : Tail(q)[i] \in ToSet(q)
    BY <1>3, <1>5 DEF ToSet
  <2> QED BY <2>1, <2>2 DEF ToSet
<1>8. QED
  BY <1>1, <1>2, <1>6, <1>7

-----------------------------------------------------------------------------
(* The log: the inductive invariant.                                       *)

\* Nothing is on its way to a channel that nobody has made yet.
NotYet ==
    \A c \in Subs : state[c] = "none" => c \notin listeners /\ \A p \in Loggers : c \notin todo[p]

\* A logger that still has to send has an entry of its own, logged already.
OwnEntries ==
    /\ \A p \in Loggers : todo[p] # {} => entry[p] \in 1..last
    /\ \A p, q \in Loggers : todo[p] # {} /\ todo[q] # {} /\ entry[p] = entry[q] => p = q

\* What is waiting in a channel has been logged, once, is not to be sent to it again,
\* and there is room for it.
Queued ==
    \A c \in Subs :
      /\ Len(queue[c]) <= Capacity
      /\ \A i \in 1..Len(queue[c]) : queue[c][i] \in 1..last
      /\ \A i, j \in 1..Len(queue[c]) : queue[c][i] = queue[c][j] => i = j
      /\ \A p \in Loggers : c \in todo[p] =>
           \A i \in 1..Len(queue[c]) : queue[c][i] # entry[p]

\* The ring holds the newest entries, in order and without a gap.
Newest ==
    /\ Len(logs) <= last
    /\ \A i \in 1..Len(logs) : logs[i] = last - Len(logs) + i

LogInv == TypeOK /\ NotYet /\ OwnEntries /\ Queued /\ Newest

\* The types of the parts of the log that the proofs below use.
LEMMA LogTypes ==
    ASSUME TypeOK
    PROVE  /\ last \in Nat /\ MaxEntries \in Nat /\ Capacity \in Nat \ {0}
           /\ MaxLogs \in Nat \ {0} /\ Len(logs) \in Nat
           /\ last < MaxEntries => last + 1 \in 1..MaxEntries /\ last + 1 \in 0..MaxEntries
           /\ \A c \in Subs : /\ queue[c] \in Seq(1..MaxEntries) /\ Len(queue[c]) \in Nat
                              /\ DOMAIN queue[c] = 1..Len(queue[c])
<1>1. \A c \in Subs : queue[c] \in Seq(1..MaxEntries)
  BY DEF TypeOK
<1>2. \A c \in Subs : Len(queue[c]) \in Nat /\ DOMAIN queue[c] = 1..Len(queue[c])
  BY <1>1, LenProperties
<1>3. Len(logs) \in Nat
  BY LenProperties DEF TypeOK
<1>4. last \in Nat /\ MaxEntries \in Nat /\ Capacity \in Nat \ {0} /\ MaxLogs \in Nat \ {0}
      /\ (last < MaxEntries => last + 1 \in 1..MaxEntries /\ last + 1 \in 0..MaxEntries)
  BY LogHubAssumption DEF TypeOK, LogHubAssumption
<1>5. QED
  BY <1>1, <1>2, <1>3, <1>4

\* Cutting the ring to its size keeps the newest entries.
LEMMA RingFacts ==
    ASSUME TypeOK, Newest, last < MaxEntries,
           NEW new, new = Ring(Append(logs, last + 1))
    PROVE  /\ new \in Seq(1..MaxEntries)
           /\ Len(new) <= last + 1
           /\ \A i \in 1..Len(new) : new[i] = last + 1 - Len(new) + i
<1> DEFINE q == Append(logs, last + 1)
<1>1. /\ q \in Seq(1..MaxEntries) /\ Len(q) = Len(logs) + 1
      /\ \A i \in 1..Len(logs) : q[i] = logs[i]
      /\ q[Len(logs) + 1] = last + 1
  BY LogTypes, AppendFacts DEF TypeOK
<1> HIDE DEF q
<1>2. Len(logs) \in Nat /\ last \in Nat /\ MaxLogs \in Nat \ {0} /\ Len(logs) <= last
  BY LogTypes DEF Newest
<1>3. \A i \in 1..Len(q) : q[i] = last + 1 - Len(q) + i
  <2>1. \A i \in 1..Len(logs) : q[i] = last - Len(logs) + i
    BY <1>1 DEF Newest
  <2>2. \A i \in 1..Len(q) : i \in 1..Len(logs) \/ i = Len(logs) + 1
    BY <1>1, <1>2
  <2>3. QED
    BY <1>1, <1>2, <2>1, <2>2
<1>4. Len(q) \in Nat /\ Len(q) <= last + 1
  BY <1>1, <1>2
<1>5. CASE Len(q) <= MaxLogs
  <2>1. Ring(q) = q
    BY <1>2, <1>4, <1>5 DEF Ring
  <2>2. QED
    BY <1>1, <1>3, <1>4, <2>1 DEF q
<1>6. CASE Len(q) > MaxLogs
  <2> DEFINE m == Len(q) - MaxLogs + 1
  <2>1. Ring(q) = SubSeq(q, m, Len(q))
    BY <1>6 DEF Ring
  <2>2. m \in 1..Len(q) /\ m \in Int /\ Len(q) \in Int
    BY <1>2, <1>4, <1>6
  <2>3. \A i \in m..Len(q) : i \in 1..Len(q)
    BY <2>2
  <2>4. \A i \in m..Len(q) : q[i] \in 1..MaxEntries
    BY <1>1, <2>3, ElementOfSeq
  <2>5. Len(q) - m + 1 = MaxLogs /\ m <= Len(q)
    BY <1>2, <1>4, <2>2
  <2>6. \A i \in 1..MaxLogs : m + i - 1 \in 1..Len(q) /\ q[m + i - 1] = last + 1 - MaxLogs + i
    <3> SUFFICES ASSUME NEW i \in 1..MaxLogs
                 PROVE  m + i - 1 \in 1..Len(q) /\ q[m + i - 1] = last + 1 - MaxLogs + i
      OBVIOUS
    <3>1. m + i - 1 \in 1..Len(q)
      BY <1>2, <1>4, <1>6
    <3>2. q[m + i - 1] = last + 1 - Len(q) + (m + i - 1)
      BY <1>3, <3>1
    <3>3. QED
      BY <1>2, <1>4, <3>1, <3>2
  <2>7. MaxLogs <= last + 1
    BY <1>2, <1>4, <1>6
  <2> HIDE DEF m
  <2>8. /\ SubSeq(q, m, Len(q)) \in Seq(1..MaxEntries)
        /\ Len(SubSeq(q, m, Len(q))) = MaxLogs
        /\ \A i \in 1..MaxLogs : SubSeq(q, m, Len(q))[i] = q[m + i - 1]
    BY <2>2, <2>4, <2>5, SubSeqProperties
  <2>9. new = SubSeq(q, m, Len(q))
    BY <2>1 DEF q
  <2>10. QED
    BY <2>6, <2>7, <2>8, <2>9
<1>7. QED
  BY <1>2, <1>4, <1>5, <1>6

\* The invariant of the log holds at the beginning.
LEMMA LogInvInit == Init => LogInv
<1> SUFFICES ASSUME Init PROVE LogInv
  OBVIOUS
<1> USE DEF Init
<1>1. last \in 0..MaxEntries
  BY LogHubAssumption DEF LogHubAssumption
<1>2. TypeOK
  BY <1>1, EmptySeq DEF TypeOK
<1>3. Len(<< >>) = 0
  OBVIOUS
<1>4. Newest
  BY <1>3 DEF Newest
<1>5. \A c \in Subs : Len(queue[c]) = 0
  BY <1>3
<1>6. Queued
  BY <1>5, LogHubAssumption DEF Queued, LogHubAssumption
<1>7. NotYet /\ OwnEntries
  BY DEF NotYet, OwnEntries
<1>8. QED
  BY <1>2, <1>4, <1>6, <1>7 DEF LogInv

-----------------------------------------------------------------------------
(* The log: every step keeps the invariant.                                *)

\* The part of LogEvent under logsMu: the entry gets a number of its own.
LEMMA LogEventKeepsLog ==
    ASSUME LogInv, NEW p \in Loggers, LogEvent(p)
    PROVE  LogInv'
<1> USE DEF LogInv, LogEvent
<1>1. /\ last \in Nat /\ last' = last + 1 /\ last' \in 1..MaxEntries
      /\ last' \in 0..MaxEntries
  BY LogTypes
<1>2. logs' \in Seq(1..MaxEntries) /\ Newest'
  <2>1. /\ logs' \in Seq(1..MaxEntries) /\ Len(logs') <= last + 1
        /\ \A i \in 1..Len(logs') : logs'[i] = last + 1 - Len(logs') + i
    BY RingFacts
  <2>2. QED
    BY <1>1, <2>1 DEF Newest
<1>3. /\ entry' \in [Loggers -> 0..MaxEntries] /\ entry'[p] = last'
      /\ todo' \in [Loggers -> SUBSET Subs] /\ todo'[p] = listeners
      /\ \A q \in Loggers : q # p => entry'[q] = entry[q] /\ todo'[q] = todo[q]
  BY <1>1 DEF TypeOK
<1>4. TypeOK'
  BY <1>1, <1>2, <1>3 DEF TypeOK
<1>5. NotYet'
  BY <1>3 DEF NotYet
<1>6. OwnEntries'
  <2>1. \A q \in Loggers : q # p /\ todo'[q] # {} => entry'[q] \in 1..last
    BY <1>3 DEF OwnEntries
  <2>2. QED
    BY <1>1, <1>3, <2>1 DEF OwnEntries
<1>7. Queued'
  <2>1. \A c \in Subs : \A i \in 1..Len(queue[c]) :
          queue[c][i] \in 1..last' /\ queue[c][i] # last'
    BY <1>1 DEF Queued
  <2>2. QED
    BY <1>3, <2>1 DEF Queued
<1>8. QED
  BY <1>2, <1>4, <1>5, <1>6, <1>7

\* A send puts the entry into the channel, or drops it; the logger is done with the
\* subscriber, or with all of them when it panics.
LEMMA SendKeepsLog ==
    ASSUME LogInv, NEW p \in Loggers, Send(p)
    PROVE  LogInv'
<1> USE DEF LogInv
<1>1. UNCHANGED <<last, logs, listeners, state, entry, notice>>
  BY DEF Send
<1>2. PICK c \in todo[p] : Offer(p, c) \/ SendPanics(p, c)
  BY DEF Send
<1>3. c \in Subs /\ entry[p] \in 1..last
  BY <1>2 DEF TypeOK, OwnEntries
<1>4. /\ todo' \in [Loggers -> SUBSET Subs] /\ c \notin todo'[p]
      /\ \A q \in Loggers : todo'[q] \subseteq todo[q]
  BY <1>2 DEF Offer, Sent, SendPanics, TypeOK
<1>5. crashed' \in BOOLEAN
  BY <1>2 DEF Offer, SendPanics, TypeOK
<1>6. NotYet' /\ OwnEntries' /\ Newest'
  BY <1>1, <1>4 DEF NotYet, OwnEntries, Newest
<1>7. CASE UNCHANGED queue
  <2>1. TypeOK'
    BY <1>1, <1>4, <1>5, <1>7 DEF TypeOK
  <2>2. Queued'
    BY <1>1, <1>4, <1>7 DEF Queued
  <2>3. QED
    BY <1>6, <2>1, <2>2
<1>8. CASE Len(queue[c]) < Capacity /\ queue' = [queue EXCEPT ![c] = Append(@, entry[p])]
  <2>1. /\ last \in Nat /\ 1..last \subseteq 1..MaxEntries /\ entry[p] \in 1..MaxEntries
        /\ queue[c] \in Seq(1..MaxEntries) /\ Len(queue[c]) \in Nat /\ Capacity \in Nat
    BY <1>3, LogTypes DEF TypeOK
  <2>2. /\ queue' \in [Subs -> Seq(1..MaxEntries)]
        /\ Len(queue'[c]) = Len(queue[c]) + 1
        /\ \A i \in 1..Len(queue[c]) : queue'[c][i] = queue[c][i]
        /\ queue'[c][Len(queue[c]) + 1] = entry[p]
        /\ \A d \in Subs : d # c => queue'[d] = queue[d]
    BY <1>3, <1>8, <2>1, AppendFacts DEF TypeOK
  <2>3. TypeOK'
    BY <1>1, <1>4, <1>5, <2>2 DEF TypeOK
  <2>4. \A i \in 1..Len(queue'[c]) : i \in 1..Len(queue[c]) \/ i = Len(queue[c]) + 1
    BY <2>1, <2>2
  <2>5. \A i \in 1..Len(queue[c]) : queue[c][i] # entry[p] /\ queue[c][i] \in 1..last
    BY <1>2, <1>3 DEF Queued
  <2>6. \A q \in Loggers : c \in todo'[q] => entry[q] # entry[p]
    BY <1>2, <1>4 DEF OwnEntries
  <2>7. /\ Len(queue'[c]) <= Capacity
        /\ \A i \in 1..Len(queue'[c]) : queue'[c][i] \in 1..last'
    BY <1>1, <1>3, <1>8, <2>1, <2>2, <2>4, <2>5
  <2>8. \A i, j \in 1..Len(queue'[c]) : queue'[c][i] = queue'[c][j] => i = j
    BY <1>3, <2>2, <2>4, <2>5 DEF Queued
  <2>9. \A q \in Loggers : c \in todo'[q] =>
           \A i \in 1..Len(queue'[c]) : queue'[c][i] # entry'[q]
    BY <1>1, <1>3, <1>4, <2>2, <2>4, <2>6 DEF Queued
  <2>10. Queued'
    BY <1>1, <1>4, <2>2, <2>7, <2>8, <2>9 DEF Queued
  <2>11. QED
    BY <1>6, <2>3, <2>10
<1>9. QED
  BY <1>2, <1>7, <1>8 DEF Offer, SendPanics

\* The ring is emptied; channels and loggers go on.
LEMMA ClearLogsKeepsLog ==
    ASSUME LogInv, NEW p \in Loggers, ClearLogs(p)
    PROVE  LogInv'
<1> USE DEF LogInv, ClearLogs
<1>1. logs' \in Seq(1..MaxEntries) /\ Len(logs') = 0 /\ last \in Nat
  BY EmptySeq, LogTypes
<1>2. TypeOK'
  BY <1>1 DEF TypeOK
<1>3. Newest'
  BY <1>1 DEF Newest
<1>4. NotYet' /\ OwnEntries' /\ Queued'
  BY DEF NotYet, OwnEntries, Queued
<1>5. QED
  BY <1>2, <1>3, <1>4

\* A subscriber comes, or goes in two steps.
LEMMA SubscriptionKeepsLog ==
    ASSUME LogInv, NEW c \in Subs, SubscribeLogs(c) \/ Unsubscribe(c) \/ CloseChannel(c)
    PROVE  LogInv'
<1> USE DEF LogInv
<1>1. UNCHANGED <<last, logs, queue, entry, todo, notice, crashed>>
  BY DEF SubscribeLogs, Unsubscribe, CloseChannel
<1>2. /\ state' \in [Subs -> {"none", "open", "leaving", "closed"}] /\ state'[c] # "none"
      /\ \A d \in Subs : d # c => state'[d] = state[d]
  BY DEF SubscribeLogs, Unsubscribe, CloseChannel, TypeOK
<1>3. listeners' \subseteq Subs /\ \A d \in Subs : d # c => (d \in listeners' <=> d \in listeners)
  BY DEF SubscribeLogs, Unsubscribe, CloseChannel, TypeOK
<1>4. TypeOK'
  BY <1>1, <1>2, <1>3 DEF TypeOK
<1>5. NotYet'
  BY <1>1, <1>2, <1>3 DEF NotYet
<1>6. OwnEntries' /\ Queued' /\ Newest'
  BY <1>1 DEF OwnEntries, Queued, Newest
<1>7. QED
  BY <1>4, <1>5, <1>6

\* The forwarding goroutine takes the oldest entry out.
LEMMA ForwardKeepsLog ==
    ASSUME LogInv, NEW c \in Subs, Forward(c)
    PROVE  LogInv'
<1> USE DEF LogInv
<1>1. UNCHANGED <<last, logs, listeners, state, entry, todo, notice, crashed>>
      /\ queue[c] # << >> /\ queue' = [queue EXCEPT ![c] = Tail(@)]
  BY DEF Forward
<1>2. queue[c] \in Seq(1..MaxEntries) /\ Capacity \in Nat
  BY LogTypes
<1>3. /\ queue' \in [Subs -> Seq(1..MaxEntries)]
      /\ \A d \in Subs : d # c => queue'[d] = queue[d]
      /\ Len(queue'[c]) = Len(queue[c]) - 1 /\ Len(queue[c]) \in Nat \ {0}
      /\ \A i \in 1..Len(queue[c]) - 1 : queue'[c][i] = queue[c][i + 1]
  BY <1>1, <1>2, TailFacts DEF TypeOK
<1>4. TypeOK'
  BY <1>1, <1>3 DEF TypeOK
<1>5. \A i \in 1..Len(queue'[c]) : i + 1 \in 1..Len(queue[c]) /\ queue'[c][i] = queue[c][i + 1]
  BY <1>3
<1>6. \A i, j \in 1..Len(queue'[c]) : i + 1 = j + 1 => i = j
  BY <1>3
<1>7. Len(queue'[c]) <= Capacity
  BY <1>2, <1>3 DEF Queued
<1>8. \A i, j \in 1..Len(queue'[c]) : queue'[c][i] = queue'[c][j] => i = j
  BY <1>5, <1>6 DEF Queued
<1>9. /\ \A i \in 1..Len(queue'[c]) : queue'[c][i] \in 1..last
      /\ \A p \in Loggers : c \in todo[p] =>
           \A i \in 1..Len(queue'[c]) : queue'[c][i] # entry[p]
  BY <1>5 DEF Queued
<1>10. Queued'
  BY <1>1, <1>3, <1>7, <1>8, <1>9 DEF Queued
<1>11. QED
  BY <1>1, <1>4, <1>10 DEF NotYet, OwnEntries, Newest

\* The process ends: nothing in the log changes any more.
LEMMA CrashKeepsLog ==
    ASSUME LogInv, UNCHANGED <<last, logs, listeners, state, queue, entry, todo, notice>>,
           crashed' \in BOOLEAN
    PROVE  LogInv'
  BY DEF LogInv, TypeOK, NotYet, OwnEntries, Queued, Newest

\* Every step of the log.
LEMMA LogStep ==
    ASSUME LogInv, [Next]_vars
    PROVE  LogInv'
<1>1. CASE UNCHANGED vars
  BY <1>1, CrashKeepsLog DEF vars, LogInv, TypeOK
<1>2. QED
  BY <1>1, LogEventKeepsLog, SendKeepsLog, ClearLogsKeepsLog, SubscriptionKeepsLog,
     ForwardKeepsLog DEF Next

\* The invariant says that an entry is delivered once.
LEMMA LogInvDelivers == LogInv => DeliveredOnce
<1> SUFFICES ASSUME LogInv, NEW c \in Subs
             PROVE  /\ \A i, j \in DOMAIN queue[c] : queue[c][i] = queue[c][j] => i = j
                    /\ \A p \in Loggers, i \in DOMAIN queue[c] :
                         c \in todo[p] => queue[c][i] # entry[p]
                    /\ state[c] = "none" => \A p \in Loggers : c \notin todo[p]
  BY DEF DeliveredOnce
<1>1. DOMAIN queue[c] = 1..Len(queue[c])
  BY LogTypes DEF LogInv
<1>2. QED
  BY <1>1 DEF LogInv, Queued, NotYet

\* Type correctness of the log (logs and logListeners of service.go) in every run, for
\* any number of subscribers.
THEOREM LogTypeCorrect == Spec => []TypeOK
<1>1. LogInv => TypeOK
  BY DEF LogInv
<1>2. QED
  BY LogInvInit, LogStep, <1>1, PTL DEF Spec

\* A subscriber never gets an entry twice, and none from before it subscribed
\* (LogEvent and SubscribeLogs of service.go), for any number of subscribers.
THEOREM LogDeliversOnce == Spec => []DeliveredOnce
  BY LogInvInit, LogStep, LogInvDelivers, PTL DEF Spec

-----------------------------------------------------------------------------
(* The console: the inductive invariant.                                   *)

\* The web server is the only subscriber of the program, and is on the list as long
\* as it is subscribed.
OneSubscriber ==
    /\ \A c \in Subs : c # web => state[c] = "none"
    /\ state[web] = "open" => web \in listeners

\* Browsers come only when there is a subscription, and are on the list from then on
\* until they leave or the web server is closed.
Listed ==
    /\ state[web] = "none" => \A c \in Clients : conn[c] = "none"
    /\ \A c \in Clients : conn[c] \in {"registered", "replaying", "live"} /\ state[web] # "closed"
                         => c \in wsClients

HubInv == LogInv /\ HubTypeOK /\ OneSubscriber /\ Listed /\ NothingMissed

\* Where the entries a browser is owed may be.
Kept(c) == shown[c] \cup ToSet(replay[c]) \cup UnderWay \cup dropped

\* A step after which they are still somewhere keeps NothingMissed.
LEMMA StillKept ==
    ASSUME HubInv, last' = last,
           \A c \in Clients : Connected(c)' =>
             /\ Connected(c) /\ since'[c] = since[c]
             /\ \A e \in Kept(c) : e # 0 => e \in Kept(c)'
    PROVE  NothingMissed'
<1> SUFFICES ASSUME NEW c \in Clients, Connected(c)', NEW e \in since'[c]..last'
             PROVE  e \in Kept(c)'
  BY DEF NothingMissed, Kept
<1>1. since[c] \in 1..MaxEntries + 1 /\ MaxEntries \in Nat /\ last \in Nat
  BY LogTypes DEF HubInv, HubTypeOK
<1>2. e \in since[c]..last /\ e # 0
  BY <1>1
<1>3. e \in Kept(c)
  BY <1>2 DEF HubInv, NothingMissed, Kept
<1>4. QED
  BY <1>2, <1>3

\* What is under way is so because of the loggers, the channel and the hand that holds it.
LEMMA SameUnderWay ==
    ASSUME UNCHANGED <<entry, todo, queue, held>>
    PROVE  UnderWay' = UnderWay
  BY DEF UnderWay

\* Loggers send to nobody but the web server.
LEMMA SendsToWeb ==
    ASSUME HubInv
    PROVE  \A p \in Loggers : todo[p] \subseteq {web}
  BY DEF HubInv, LogInv, TypeOK, NotYet, OneSubscriber

\* The web server's channel is one of the log's.
LEMMA WebTypes ==
    ASSUME HubInv
    PROVE  /\ web \in Subs /\ queue[web] \in Seq(Entry) /\ TypeOK
           /\ Len(queue[web]) \in Nat /\ Len(queue[web]) <= Capacity
           /\ \A c \in Clients : replay[c] \in Seq(Entry)
           /\ last \in Nat /\ MaxEntries \in Nat
  BY LogTypes, ConsoleHubAssumption
  DEF HubInv, LogInv, TypeOK, HubTypeOK, Queued, Entry, ConsoleHubAssumption

\* A step of the log that leaves the browsers alone: their types.
LEMMA LogKeepsTypes ==
    ASSUME HubInv, LogInv', UNCHANGED <<consoles, held, dropped>>
    PROVE  HubTypeOK'
  BY DEF HubInv, HubTypeOK, LogInv, consoles

\* The invariant holds at the beginning.
LEMMA HubInvInit == HubInit => HubInv
<1> SUFFICES ASSUME HubInit PROVE HubInv
  OBVIOUS
<1> USE DEF HubInit
<1>1. LogInv
  BY LogInvInit
<1>2. 1 \in 1..MaxEntries + 1 /\ 0 \in 0..MaxEntries
  BY LogHubAssumption DEF LogHubAssumption
<1>3. << >> \in Seq(Entry)
  BY EmptySeq
<1>4. HubTypeOK
  BY <1>1, <1>2, <1>3 DEF HubTypeOK, LogInv
<1>5. OneSubscriber /\ Listed /\ NothingMissed
  BY ConsoleHubAssumption
  DEF Init, OneSubscriber, Listed, NothingMissed, Connected, ConsoleHubAssumption
<1>6. QED
  BY <1>1, <1>4, <1>5 DEF HubInv

-----------------------------------------------------------------------------
(* The console: steps of the log.                                          *)

\* A new entry is to be sent to the web server, by a logger that had nothing to send.
LEMMA LogEventKeepsHub ==
    ASSUME HubInv, NEW p \in Loggers, LogEvent(p), UNCHANGED <<consoles, held, dropped>>
    PROVE  HubInv'
<1> USE DEF HubInv, LogEvent
<1>1. LogInv' /\ HubTypeOK'
  BY LogEventKeepsLog, LogKeepsTypes
<1>2. OneSubscriber' /\ Listed'
  BY DEF OneSubscriber, Listed, consoles
<1>3. ASSUME NEW c \in Clients, Connected(c)'
      PROVE  since'[c]..last' \subseteq Kept(c)'
  <2>1. Connected(c) /\ UNCHANGED <<since, shown, replay, queue, held, dropped>>
    BY <1>3 DEF Connected, consoles
  <2>2. /\ entry'[p] = last + 1 /\ todo'[p] = listeners /\ web \in listeners
        /\ \A q \in Loggers : q # p => entry'[q] = entry[q] /\ todo'[q] = todo[q]
    BY <2>1 DEF Connected, OneSubscriber, HubTypeOK, TypeOK
  <2>3. UnderWay \subseteq UnderWay' /\ last + 1 \in UnderWay'
    BY <2>1, <2>2 DEF UnderWay
  <2>4. since[c]..last \subseteq Kept(c)
    BY <2>1 DEF NothingMissed, Kept
  <2>5. since'[c]..last' \subseteq since[c]..last \cup {last + 1}
    <3>1. since[c] \in Nat /\ last \in Nat /\ last' = last + 1
      BY LogTypes DEF HubTypeOK
    <3>2. QED
      BY <2>1, <3>1
  <2>6. QED
    BY <2>1, <2>3, <2>4, <2>5 DEF Kept
<1>4. NothingMissed'
  BY <1>3 DEF NothingMissed, Kept
<1>5. QED
  BY <1>1, <1>2, <1>4

\* Clearing the log takes no entry away that is on its way.
LEMMA ClearLogsKeepsHub ==
    ASSUME HubInv, NEW p \in Loggers, ClearLogs(p), UNCHANGED <<consoles, held, dropped>>
    PROVE  HubInv'
<1> USE DEF HubInv
<1>1. LogInv' /\ HubTypeOK'
  BY ClearLogsKeepsLog, LogKeepsTypes
<1>2. UNCHANGED <<last, state, listeners, entry, todo, queue, crashed>>
  BY DEF ClearLogs
<1>3. OneSubscriber' /\ Listed'
  BY <1>2 DEF OneSubscriber, Listed, consoles
<1>4. NothingMissed'
  BY <1>2, SameUnderWay, StillKept DEF Connected, Kept, consoles
<1>5. QED
  BY <1>1, <1>3, <1>4

\* The web server subscribes before any browser is there, and unsubscribes.
LEMMA SubscriptionKeepsHub ==
    ASSUME HubInv, SubscribeLogs(web) \/ Unsubscribe(web) \/ CloseChannel(web),
           UNCHANGED <<consoles, held, dropped>>
    PROVE  HubInv'
<1> USE DEF HubInv
<1>1. LogInv' /\ HubTypeOK'
  BY SubscriptionKeepsLog, LogKeepsTypes, ConsoleHubAssumption DEF ConsoleHubAssumption
<1>2. /\ state' \in [Subs -> {"none", "open", "leaving", "closed"}]
      /\ \A c \in Subs : c # web => state'[c] = state[c]
      /\ \/ state[web] = "none" /\ state'[web] = "open" /\ web \in listeners'
         \/ state[web] \notin {"none", "closed"} /\ state'[web] \in {"leaving", "closed"}
  BY ConsoleHubAssumption
  DEF SubscribeLogs, Unsubscribe, CloseChannel, HubTypeOK, TypeOK, ConsoleHubAssumption
<1>3. OneSubscriber'
  BY <1>2 DEF OneSubscriber
<1>4. Listed'
  BY <1>2 DEF Listed, consoles
<1>5. NothingMissed'
  BY <1>2 DEF Listed, NothingMissed, Connected, consoles
<1>6. QED
  BY <1>1, <1>3, <1>4, <1>5

\* What is sent is in the channel now; what found no room is among the dropped; and a
\* logger panics only when the web server is not subscribed any more.
LEMMA SendEntryKeepsHub ==
    ASSUME HubInv, NEW p \in Loggers, SendEntry(p)
    PROVE  HubInv'
<1> USE DEF HubInv
<1>1. Send(p) /\ UNCHANGED <<last, logs, listeners, state, entry, notice, consoles, held>>
  BY DEF SendEntry, Send
<1>2. LogInv'
  BY <1>1, SendKeepsLog
<1>3. PICK c \in todo[p] : Offer(p, c) \/ SendPanics(p, c)
  BY <1>1 DEF Send
<1>4. c = web /\ web \in todo[p] /\ entry[p] \in Entry
  <2>1. c = web
    BY <1>3, SendsToWeb
  <2>2. entry[p] \in 1..last /\ last \in 0..MaxEntries
    BY <1>3, WebTypes DEF LogInv, OwnEntries, TypeOK
  <2>3. QED
    BY <1>3, <2>1, <2>2, WebTypes DEF Entry
<1>5. dropped \subseteq dropped' /\ dropped' \subseteq dropped \cup {entry[p]}
  BY DEF SendEntry
<1>6. HubTypeOK'
  BY <1>1, <1>2, <1>4, <1>5 DEF HubTypeOK, LogInv, consoles
<1>7. OneSubscriber' /\ Listed'
  BY <1>1 DEF OneSubscriber, Listed, consoles
<1>8. ASSUME Offer(p, web), NEW e \in UnderWay PROVE e \in UnderWay' \cup dropped'
  <2>1. /\ todo'[p] = todo[p] \ {web}
        /\ \A q \in Loggers : q # p => todo'[q] = todo[q]
    BY <1>8, WebTypes DEF Offer, Sent, TypeOK
  <2>2. CASE Len(queue[web]) < Capacity
    <3>1. queue'[web] = Append(queue[web], entry[p])
      BY <1>8, <2>2, WebTypes DEF Offer, TypeOK
    <3>2. ToSet(queue'[web]) = ToSet(queue[web]) \cup {entry[p]}
      BY <1>4, <3>1, WebTypes, AppendFacts
    <3>3. QED
      BY <1>1, <2>1, <3>2 DEF UnderWay
  <2>3. CASE ~(Len(queue[web]) < Capacity)
    <3>1. Len(queue[web]) = Capacity
      BY <2>3, WebTypes, LogHubAssumption DEF LogHubAssumption
    <3>2. UNCHANGED queue /\ state[web] # "closed"
      BY <1>8, <2>3 DEF Offer
    <3>3. entry[p] \in dropped'
      BY <1>4, <2>1, <3>1, <3>2 DEF SendEntry
    <3>4. QED
      BY <1>1, <2>1, <3>2, <3>3 DEF UnderWay
  <2>4. QED
    BY <2>2, <2>3
<1>9. NothingMissed'
  <2>1. CASE Offer(p, web)
    <3>1. UNCHANGED crashed
      BY <2>1 DEF Offer
    <3>2. \A d \in Clients : Kept(d) \subseteq Kept(d)'
      BY <1>1, <1>5, <1>8, <2>1 DEF Kept, consoles
    <3>3. QED
      BY <1>1, <3>1, <3>2, StillKept DEF Connected, consoles
  <2>2. CASE SendPanics(p, web)
    BY <1>1, <2>2 DEF SendPanics, NothingMissed, Connected
  <2>3. QED
    BY <1>3, <1>4, <2>1, <2>2
<1>10. QED
  BY <1>2, <1>6, <1>7, <1>9

-----------------------------------------------------------------------------
(* The console: steps of the browsers' handlers.                           *)

\* A browser is put on the list; it is owed nothing yet.
LEMMA HandlerBeginsKeepsHub ==
    ASSUME HubInv, NEW c \in Clients, handleWebSocket(c)
    PROVE  HubInv'
<1> USE DEF HubInv, handleWebSocket
<1>1. UNCHANGED vars /\ LogInv'
  BY LogStep
<1>2. /\ conn' \in [Clients -> {"none", "registered", "replaying", "live", "orphan", "gone"}]
      /\ conn'[c] = "registered"
      /\ \A d \in Clients : d # c => conn'[d] = conn[d]
  BY DEF HubTypeOK
<1>3. HubTypeOK'
  BY <1>1, <1>2 DEF HubTypeOK, LogInv
<1>4. OneSubscriber' /\ Listed'
  BY <1>1, <1>2 DEF OneSubscriber, Listed, vars
<1>5. NothingMissed'
  <2>1. \A d \in Clients : Connected(d)' => Connected(d)
    BY <1>1, <1>2 DEF Connected, vars
  <2>2. UnderWay' = UnderWay /\ last' = last
    BY <1>1, SameUnderWay DEF vars
  <2>3. QED
    BY <2>1, <2>2, StillKept DEF Kept
<1>6. QED
  BY <1>1, <1>3, <1>4, <1>5

\* The entries RecentLogs returns are the newest ones, without a gap.
LEMMA RecentLogsFacts ==
    ASSUME HubInv, NEW recent, recent = RecentLogs(Replay)
    PROVE  /\ recent \in Seq(Entry) /\ Len(recent) \in Nat /\ Len(recent) <= last
           /\ (last + 1 - Len(recent))..last \subseteq ToSet(recent)
<1> DEFINE m == 1 + (IF Replay > Len(logs) THEN 0 ELSE Len(logs) - Replay)
<1>1. /\ logs \in Seq(Entry) /\ Len(logs) \in Nat /\ last \in Nat /\ Replay \in Nat \ {0}
      /\ Len(logs) <= last
  BY LogTypes, ConsoleHubAssumption
  DEF HubInv, LogInv, TypeOK, Newest, Entry, ConsoleHubAssumption
<1>2. m \in 1..Len(logs) + 1 /\ m \in Int /\ Len(logs) \in Int
  BY <1>1
<1>3. recent = SubSeq(logs, m, Len(logs))
  BY DEF RecentLogs
<1> HIDE DEF m
<1>4. \A i \in m..Len(logs) : i \in 1..Len(logs) /\ logs[i] = last - Len(logs) + i
  BY <1>1, <1>2 DEF HubInv, LogInv, Newest
<1>5. \A i \in m..Len(logs) : logs[i] \in Entry
  BY <1>1, <1>4, ElementOfSeq
<1>6. /\ recent \in Seq(Entry)
      /\ Len(recent) = IF m <= Len(logs) THEN Len(logs) - m + 1 ELSE 0
      /\ \A i \in 1..Len(logs) - m + 1 : recent[i] = logs[m + i - 1]
  BY <1>2, <1>3, <1>5, SubSeqProperties
<1>7. Len(recent) = Len(logs) - m + 1 /\ Len(recent) \in Nat /\ Len(recent) <= last
  BY <1>1, <1>2, <1>6
<1>8. ASSUME NEW e \in (last + 1 - Len(recent))..last PROVE e \in ToSet(recent)
  <2> DEFINE i == e - last + Len(recent)
  <2>1. i \in 1..Len(recent) /\ m + i - 1 \in m..Len(logs)
        /\ last - Len(logs) + (m + i - 1) = e
    BY <1>1, <1>2, <1>7, <1>8
  <2>2. recent[i] = e
    BY <1>4, <1>6, <1>7, <2>1
  <2>3. DOMAIN recent = 1..Len(recent)
    BY <1>6, LenProperties
  <2> HIDE DEF i
  <2>4. QED
    BY <2>1, <2>2, <2>3 DEF ToSet
<1>9. QED
  BY <1>6, <1>7, <1>8

\* From here on a browser is owed what is replayed to it and all that follows.
LEMMA ReplayBeginsKeepsHub ==
    ASSUME HubInv, NEW c \in Clients, ReplayBegins(c)
    PROVE  HubInv'
<1> USE DEF HubInv
<1> DEFINE recent == RecentLogs(Replay)
<1>1. UNCHANGED vars /\ LogInv' /\ UNCHANGED <<wsClients, shown, held, dropped>>
  BY LogStep DEF ReplayBegins
<1>2. /\ recent \in Seq(Entry) /\ Len(recent) \in Nat /\ Len(recent) <= last
      /\ (last + 1 - Len(recent))..last \subseteq ToSet(recent)
  BY RecentLogsFacts
<1>3. conn[c] = "registered" /\ conn' = [conn EXCEPT ![c] = "replaying"]
      /\ replay' = [replay EXCEPT ![c] = recent]
      /\ since' = [since EXCEPT ![c] = last + 1 - Len(recent)]
  BY DEF ReplayBegins
<1> HIDE DEF recent
<1>4. last \in Nat /\ last \in 0..MaxEntries /\ MaxEntries \in Nat
  BY WebTypes DEF TypeOK
<1>5. last + 1 - Len(recent) \in 1..MaxEntries + 1
  BY <1>2, <1>4
<1>6. /\ conn' \in [Clients -> {"none", "registered", "replaying", "live", "orphan", "gone"}]
      /\ replay' \in [Clients -> Seq(Entry)] /\ since' \in [Clients -> 1..MaxEntries + 1]
      /\ conn'[c] = "replaying" /\ replay'[c] = recent
      /\ since'[c] = last + 1 - Len(recent)
      /\ \A d \in Clients : d # c =>
           conn'[d] = conn[d] /\ replay'[d] = replay[d] /\ since'[d] = since[d]
  BY <1>2, <1>3, <1>5 DEF HubTypeOK
<1>7. HubTypeOK'
  BY <1>1, <1>6 DEF HubTypeOK, LogInv
<1>8. OneSubscriber' /\ Listed'
  BY <1>1, <1>3, <1>6 DEF OneSubscriber, Listed, vars
<1>9. ASSUME NEW d \in Clients, Connected(d)'
      PROVE  since'[d]..last' \subseteq Kept(d)'
  <2>1. UnderWay' = UnderWay /\ last' = last
    BY <1>1, SameUnderWay DEF vars
  <2>2. CASE d = c
    BY <1>2, <1>6, <2>1, <2>2 DEF Kept
  <2>3. CASE d # c
    <3>1. Connected(d)
      BY <1>1, <1>6, <1>9, <2>3 DEF Connected, vars
    <3>2. since[d]..last \subseteq Kept(d)
      BY <3>1 DEF NothingMissed, Kept
    <3>3. QED
      BY <1>1, <1>6, <2>1, <2>3, <3>2 DEF Kept
  <2>4. QED
    BY <2>2, <2>3
<1>10. NothingMissed'
  BY <1>9 DEF NothingMissed, Kept
<1>11. QED
  BY <1>1, <1>7, <1>8, <1>10

\* What is replayed is shown.
LEMMA ReplayWritesKeepsHub ==
    ASSUME HubInv, NEW c \in Clients, ReplayWrites(c)
    PROVE  HubInv'
<1> USE DEF HubInv
<1>1. UNCHANGED vars /\ LogInv' /\ UNCHANGED <<wsClients, conn, since, held, dropped>>
  BY LogStep DEF ReplayWrites
<1>2. replay[c] # << >> /\ replay[c] \in Seq(Entry)
  BY WebTypes DEF ReplayWrites
<1>3. /\ Head(replay[c]) \in Entry /\ Tail(replay[c]) \in Seq(Entry)
      /\ ToSet(replay[c]) = ToSet(Tail(replay[c])) \cup {Head(replay[c])}
  BY <1>2, TailFacts
<1>4. /\ replay' \in [Clients -> Seq(Entry)] /\ shown' \in [Clients -> SUBSET Entry]
      /\ replay'[c] = Tail(replay[c]) /\ shown'[c] = shown[c] \cup {Head(replay[c])}
      /\ \A d \in Clients : d # c => replay'[d] = replay[d] /\ shown'[d] = shown[d]
  BY <1>3 DEF ReplayWrites, HubTypeOK
<1>5. HubTypeOK'
  BY <1>1, <1>2, <1>4 DEF HubTypeOK, LogInv
<1>6. OneSubscriber' /\ Listed'
  BY <1>1 DEF OneSubscriber, Listed, vars
<1>7. NothingMissed'
  <2>1. UnderWay' = UnderWay /\ last' = last
    BY <1>1, SameUnderWay DEF vars
  <2>2. \A d \in Clients : Kept(d) \subseteq Kept(d)'
    BY <1>1, <1>3, <1>4, <2>1 DEF Kept
  <2>3. \A d \in Clients : Connected(d)' => Connected(d)
    BY <1>1 DEF Connected, vars
  <2>4. QED
    BY <1>1, <2>1, <2>2, <2>3, StillKept
<1>8. QED
  BY <1>1, <1>5, <1>6, <1>7

\* The replay is over, or the browser leaves.
LEMMA HandlerGoesOnKeepsHub ==
    ASSUME HubInv, NEW c \in Clients, ReplayEnds(c) \/ Leave(c)
    PROVE  HubInv'
<1> USE DEF HubInv
<1>1. UNCHANGED vars /\ LogInv' /\ UNCHANGED <<replay, shown, since, held, dropped>>
  BY LogStep DEF ReplayEnds, Leave
<1>2. /\ conn' \in [Clients -> {"none", "registered", "replaying", "live", "orphan", "gone"}]
      /\ \A d \in Clients : d # c => conn'[d] = conn[d]
      /\ \/ conn[c] = "replaying" /\ conn'[c] = "live" /\ wsClients' = wsClients
         \/ conn[c] = "live" /\ conn'[c] = "gone" /\ wsClients' = wsClients \ {c}
      /\ replay[c] = << >>
  BY DEF ReplayEnds, Leave, HubTypeOK
<1>3. HubTypeOK'
  BY <1>1, <1>2 DEF HubTypeOK, LogInv
<1>4. OneSubscriber' /\ Listed'
  BY <1>1, <1>2 DEF OneSubscriber, Listed, vars
<1>5. NothingMissed'
  <2>1. UnderWay' = UnderWay /\ last' = last
    BY <1>1, SameUnderWay DEF vars
  <2>2. \A d \in Clients : Connected(d)' => Connected(d)
    BY <1>1, <1>2 DEF Connected, vars
  <2>3. QED
    BY <1>1, <2>1, <2>2, StillKept DEF Kept
<1>6. QED
  BY <1>1, <1>3, <1>4, <1>5

-----------------------------------------------------------------------------
(* The console: broadcasts.                                                *)

\* An entry passes from the channel into the hand of the forwarding goroutine.
LEMMA TakeEntryKeepsHub ==
    ASSUME HubInv, TakeEntry
    PROVE  HubInv'
<1> USE DEF HubInv
<1>1. UNCHANGED <<last, logs, listeners, state, entry, todo, notice, crashed, consoles, dropped>>
      /\ queue[web] # << >> /\ queue' = [queue EXCEPT ![web] = Tail(@)]
      /\ held = 0 /\ held' = Head(queue[web])
  BY DEF TakeEntry, Forward
<1>2. LogInv'
  BY ForwardKeepsLog, WebTypes DEF TakeEntry
<1>3. /\ Head(queue[web]) \in Entry
      /\ ToSet(queue[web]) = ToSet(Tail(queue[web])) \cup {Head(queue[web])}
      /\ queue'[web] = Tail(queue[web])
  BY <1>1, WebTypes, TailFacts DEF TypeOK
<1>4. held' \in 0..MaxEntries
  BY <1>1, <1>3, WebTypes DEF Entry
<1>5. HubTypeOK'
  BY <1>1, <1>2, <1>4 DEF HubTypeOK, LogInv, consoles
<1>6. OneSubscriber' /\ Listed'
  BY <1>1 DEF OneSubscriber, Listed, consoles
<1>7. \A e \in UnderWay : e # 0 => e \in UnderWay'
  BY <1>1, <1>3 DEF UnderWay
<1>8. NothingMissed'
  BY <1>1, <1>7, StillKept DEF Connected, Kept, consoles
<1>9. QED
  BY <1>2, <1>5, <1>6, <1>8

\* Two writers that meet end the process, or the handler of a browser.
LEMMA CollisionFacts ==
    ASSUME HubInv, NoCollision \/ Collision
    PROVE  /\ crashed' \in BOOLEAN /\ (crashed => crashed')
           /\ conn' \in [Clients -> {"none", "registered", "replaying", "live", "orphan", "gone"}]
           /\ replay' \in [Clients -> Seq(Entry)]
           /\ \A d \in Clients : \/ conn'[d] = conn[d] /\ replay'[d] = replay[d]
                                 \/ conn'[d] = "orphan" /\ replay'[d] = << >>
                                    /\ conn[d] # "none"
<1>1. /\ crashed \in BOOLEAN /\ wsClients \subseteq Clients
      /\ conn \in [Clients -> {"none", "registered", "replaying", "live", "orphan", "gone"}]
      /\ replay \in [Clients -> Seq(Entry)]
      /\ \A c \in Clients : replay[c] # << >> => conn[c] = "replaying"
  BY DEF HubInv, HubTypeOK, TypeOK
<1>2. \/ UNCHANGED <<conn, replay>> /\ (crashed' = TRUE \/ crashed' = crashed)
      \/ /\ UNCHANGED crashed
         /\ \E c \in Clients : /\ replay[c] # << >>
                              /\ conn' = [conn EXCEPT ![c] = "orphan"]
                              /\ replay' = [replay EXCEPT ![c] = << >>]
  BY <1>1 DEF NoCollision, Collision
<1>3. << >> \in Seq(Entry)
  BY EmptySeq
<1>4. QED
  BY <1>1, <1>2, <1>3

\* What the forwarding goroutine had in its hand is shown to every browser on the list.
LEMMA BroadcastEventKeepsHub ==
    ASSUME HubInv, BroadcastEvent
    PROVE  HubInv'
<1> USE DEF HubInv
<1>1. /\ UNCHANGED <<last, logs, listeners, state, queue, entry, todo, notice,
                     wsClients, since, dropped>>
      /\ held # 0 /\ held' = 0 /\ (NoCollision \/ Collision)
      /\ shown' = [d \in Clients |-> IF d \in wsClients THEN shown[d] \cup {held} ELSE shown[d]]
  BY DEF BroadcastEvent, Receivers
<1>2. /\ crashed' \in BOOLEAN /\ (crashed => crashed')
      /\ conn' \in [Clients -> {"none", "registered", "replaying", "live", "orphan", "gone"}]
      /\ replay' \in [Clients -> Seq(Entry)]
      /\ \A d \in Clients : \/ conn'[d] = conn[d] /\ replay'[d] = replay[d]
                            \/ conn'[d] = "orphan" /\ replay'[d] = << >>
                               /\ conn[d] # "none"
  BY <1>1, CollisionFacts
<1>3. LogInv'
  BY <1>1, <1>2, CrashKeepsLog
<1>4. held \in Entry /\ 0 \in 0..MaxEntries
  BY <1>1, WebTypes DEF HubTypeOK, Entry
<1>5. HubTypeOK'
  <2>1. shown' \in [Clients -> SUBSET Entry]
    BY <1>1, <1>4 DEF HubTypeOK
  <2>2. \A d \in Clients : replay'[d] # << >> => conn'[d] = "replaying"
    BY <1>2 DEF HubTypeOK
  <2>3. QED
    BY <1>1, <1>2, <1>3, <1>4, <2>1, <2>2 DEF HubTypeOK, LogInv
<1>6. OneSubscriber' /\ Listed'
  <2>1. OneSubscriber'
    BY <1>1 DEF OneSubscriber
  <2>2. \A d \in Clients : conn[d] = "none" => conn'[d] = "none"
    BY <1>2
  <2>3. \A d \in Clients : conn'[d] \in {"registered", "replaying", "live"} => conn'[d] = conn[d]
    BY <1>2
  <2>4. Listed'
    BY <1>1, <2>2, <2>3 DEF Listed
  <2>5. QED
    BY <2>1, <2>4
<1>7. NothingMissed'
  <2>1. ASSUME NEW d \in Clients, Connected(d)'
        PROVE  /\ Connected(d)
               /\ \A e \in Kept(d) : e # 0 => e \in Kept(d)'
    <3>1. conn'[d] = conn[d] /\ replay'[d] = replay[d] /\ Connected(d)
      BY <1>1, <1>2, <2>1 DEF Connected
    <3>2. shown'[d] = shown[d] \cup {held}
      BY <1>1, <3>1 DEF Connected, Listed
    <3>3. UnderWay \subseteq UnderWay' \cup {held}
      BY <1>1 DEF UnderWay
    <3>4. QED
      BY <1>1, <3>1, <3>2, <3>3 DEF Kept
  <2>2. QED
    BY <1>1, <2>1, StillKept
<1>8. QED
  BY <1>3, <1>5, <1>6, <1>7

\* Audio that is broadcast may meet a replay; the log and what is shown stay.
LEMMA BroadcastAudioKeepsHub ==
    ASSUME HubInv, BroadcastAudio
    PROVE  HubInv'
<1> USE DEF HubInv
<1>1. /\ UNCHANGED <<last, logs, listeners, state, queue, entry, todo, notice,
                     wsClients, shown, since, held, dropped>>
      /\ Collision
  BY DEF BroadcastAudio
<1>2. /\ crashed' \in BOOLEAN /\ (crashed => crashed')
      /\ conn' \in [Clients -> {"none", "registered", "replaying", "live", "orphan", "gone"}]
      /\ replay' \in [Clients -> Seq(Entry)]
      /\ \A d \in Clients : \/ conn'[d] = conn[d] /\ replay'[d] = replay[d]
                            \/ conn'[d] = "orphan" /\ replay'[d] = << >>
                               /\ conn[d] # "none"
  BY <1>1, CollisionFacts
<1>3. LogInv'
  BY <1>1, <1>2, CrashKeepsLog
<1>4. HubTypeOK'
  <2>1. \A d \in Clients : replay'[d] # << >> => conn'[d] = "replaying"
    BY <1>2 DEF HubTypeOK
  <2>2. QED
    BY <1>1, <1>2, <1>3, <2>1 DEF HubTypeOK, LogInv
<1>5. OneSubscriber' /\ Listed'
  <2>1. OneSubscriber'
    BY <1>1 DEF OneSubscriber
  <2>2. \A d \in Clients : conn[d] = "none" => conn'[d] = "none"
    BY <1>2
  <2>3. \A d \in Clients : conn'[d] \in {"registered", "replaying", "live"} => conn'[d] = conn[d]
    BY <1>2
  <2>4. Listed'
    BY <1>1, <2>2, <2>3 DEF Listed
  <2>5. QED
    BY <2>1, <2>4
<1>6. NothingMissed'
  <2>1. UnderWay' = UnderWay
    BY <1>1, SameUnderWay
  <2>2. ASSUME NEW d \in Clients, Connected(d)'
        PROVE  Connected(d) /\ replay'[d] = replay[d]
    BY <1>1, <1>2, <2>2 DEF Connected
  <2>3. QED
    BY <1>1, <2>1, <2>2, StillKept DEF Kept
<1>7. QED
  BY <1>3, <1>4, <1>5, <1>6

\* The web server forgets its browsers when it has closed its subscription.
LEMMA CloseClientsKeepsHub ==
    ASSUME HubInv, CloseClients
    PROVE  HubInv'
<1> USE DEF HubInv
<1>1. UNCHANGED <<vars, conn, replay, shown, since, held, dropped>> /\ LogInv'
      /\ state[web] = "closed" /\ wsClients' = {}
  BY LogStep DEF CloseClients
<1>2. HubTypeOK'
  BY <1>1 DEF HubTypeOK, LogInv
<1>3. OneSubscriber' /\ Listed' /\ NothingMissed'
  BY <1>1 DEF OneSubscriber, Listed, NothingMissed, Connected, vars
<1>4. QED
  BY <1>1, <1>2, <1>3

\* Nothing happens.
LEMMA StutterKeepsHub ==
    ASSUME HubInv, UNCHANGED hubVars
    PROVE  HubInv'
<1> USE DEF HubInv
<1>1. UNCHANGED <<vars, consoles, held, dropped>> /\ LogInv'
  BY LogStep DEF hubVars
<1>2. HubTypeOK'
  BY <1>1, LogKeepsTypes
<1>3. OneSubscriber' /\ Listed'
  BY <1>1 DEF OneSubscriber, Listed, vars, consoles
<1>4. NothingMissed'
  <2>1. UnderWay' = UnderWay
    BY <1>1, SameUnderWay DEF vars
  <2>2. QED
    BY <1>1, <2>1, StillKept DEF Connected, Kept, vars, consoles
<1>5. QED
  BY <1>1, <1>2, <1>3, <1>4

\* The invariant of the console holds in every run.
LEMMA HubInvariance == HubSpec => []HubInv
<1>1. HubInv /\ [HubNext]_hubVars => HubInv'
  <2> SUFFICES ASSUME HubInv, [HubNext]_hubVars PROVE HubInv'
    OBVIOUS
  <2>1. CASE Log /\ UNCHANGED <<consoles, held, dropped>>
    BY <2>1, LogEventKeepsHub, ClearLogsKeepsHub, SubscriptionKeepsHub DEF Log
  <2>2. ASSUME NEW p \in Loggers, SendEntry(p) PROVE HubInv'
    BY <2>2, SendEntryKeepsHub
  <2>3. ASSUME NEW c \in Clients,
               \/ handleWebSocket(c) \/ ReplayBegins(c) \/ ReplayWrites(c)
               \/ ReplayEnds(c) \/ Leave(c)
        PROVE  HubInv'
    BY <2>3, HandlerBeginsKeepsHub, ReplayBeginsKeepsHub, ReplayWritesKeepsHub,
       HandlerGoesOnKeepsHub
  <2>4. CASE TakeEntry \/ BroadcastEvent \/ BroadcastAudio \/ CloseClients
    BY <2>4, TakeEntryKeepsHub, BroadcastEventKeepsHub, BroadcastAudioKeepsHub,
       CloseClientsKeepsHub
  <2>5. CASE UNCHANGED hubVars
    BY <2>5, StutterKeepsHub
  <2>6. QED
    BY <2>1, <2>2, <2>3, <2>4, <2>5 DEF HubNext
<1>2. QED
  BY HubInvInit, <1>1, PTL DEF HubSpec

\* Type correctness of the web server's browsers (wsClients of vcs/web.go) in every run.
THEOREM HubTypeCorrect == HubSpec => []HubTypeOK
<1>1. HubInv => HubTypeOK
  BY DEF HubInv
<1>2. QED
  BY HubInvariance, <1>1, PTL

\* In the program, too, no entry is delivered to the web server twice.
THEOREM HubDeliversOnce == HubSpec => []DeliveredOnce
<1>1. HubInv => DeliveredOnce
  BY LogInvDelivers DEF HubInv
<1>2. QED
  BY HubInvariance, <1>1, PTL

\* No browser misses an entry between the replay of its handler and the broadcasts of
\* the forwarding goroutine (handleWebSocket and BroadcastEvent of vcs/web.go), for any
\* number of browsers, loggers and entries.
THEOREM NoBrowserMisses == HubSpec => []NothingMissed
<1>1. HubInv => NothingMissed
  BY DEF HubInv
<1>2. QED
  BY HubInvariance, <1>1, PTL
=============================================================================
