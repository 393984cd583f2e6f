------------------------------- MODULE LogHub -------------------------------
(***************************************************************************)
(* The communication log of the VCS (internal/vcs/service.go): a ring of   *)
(* recent entries, subscribers with a buffered channel each, and the       *)
(* goroutines that log.  LogEvent works under logsMu in one step and then  *)
(* sends to the subscribers it saw, one by one, without the lock;          *)
(* unsubscribe takes the subscriber off the list under the lock and closes *)
(* its channel after it.  A send on a closed channel panics in Go: the     *)
(* process ends, unless the goroutine is one whose panics are recovered    *)
(* (HTTP handlers, the supervision loop): then only that call ends.        *)
(* Entries are numbered in the order they enter the ring.                  *)
(***************************************************************************)
EXTENDS Naturals, Sequences, FiniteSets

CONSTANTS
    Loggers,     \* goroutines that log
    Recovering,  \* those of them whose panics are recovered
    Subs,        \* channels SubscribeLogs makes
    MaxLogs,     \* maxLogs, 300 in the code
    Capacity,    \* of a subscriber's channel, 100 in the code
    MaxEntries   \* bound: entries logged

ASSUME LogHubAssumption ==
    /\ Recovering \subseteq Loggers
    /\ MaxLogs \in Nat \ {0} /\ Capacity \in Nat \ {0} /\ MaxEntries \in Nat

VARIABLES
    last,        \* entries logged so far
    logs,        \* s.logs
    listeners,   \* s.logListeners
    state,       \* of each channel: "none", "open", "leaving", "closed"
    queue,       \* the entries waiting in each channel
    entry,       \* the entry each logger is sending
    todo,        \* the channels it still has to send it to
    notice,      \* loggers between the reset of ClearLogs and its own entry
    crashed      \* a panic ended the process

vars == <<last, logs, listeners, state, queue, entry, todo, notice, crashed>>

TypeOK ==
    /\ last \in 0..MaxEntries
    /\ logs \in Seq(1..MaxEntries)
    /\ listeners \subseteq Subs
    /\ state \in [Subs -> {"none", "open", "leaving", "closed"}]
    /\ queue \in [Subs -> Seq(1..MaxEntries)]
    /\ entry \in [Loggers -> 0..MaxEntries]
    /\ todo \in [Loggers -> SUBSET Subs]
    /\ notice \subseteq Loggers
    /\ crashed \in BOOLEAN

Init ==
    /\ last = 0 /\ logs = << >>
    /\ listeners = {} /\ state = [c \in Subs |-> "none"]
    /\ queue = [c \in Subs |-> << >>]
    /\ entry = [p \in Loggers |-> 0] /\ todo = [p \in Loggers |-> {}]
    /\ notice = {} /\ crashed = FALSE

-----------------------------------------------------------------------------
\* The ring: the newest MaxLogs entries.
Ring(q) == IF Len(q) > MaxLogs THEN SubSeq(q, Len(q) - MaxLogs + 1, Len(q)) ELSE q

\* The part of LogEvent under logsMu.
LogEvent(p) ==
    /\ ~crashed /\ todo[p] = {}
    /\ last < MaxEntries
    /\ last' = last + 1
    /\ logs' = Ring(Append(logs, last + 1))
    /\ entry' = [entry EXCEPT ![p] = last + 1]
    /\ todo' = [todo EXCEPT ![p] = listeners]
    /\ notice' = notice \ {p}
    /\ UNCHANGED <<listeners, state, queue, crashed>>

\* (Definitions named Mut_ are broken variants; the mutation checks put each in
\* the place of the definition below it.)
\* Broken variant: a subscriber is sent the entry again.
Mut_Sent(p, c) == UNCHANGED todo

Sent(p, c) == todo' = [todo EXCEPT ![p] = @ \ {c}]

\* A send that finds no room drops the entry.
Offer(p, c) ==
    /\ state[c] # "closed"
    /\ queue' = IF Len(queue[c]) < Capacity
                THEN [queue EXCEPT ![c] = Append(@, entry[p])] ELSE queue
    /\ Sent(p, c)
    /\ UNCHANGED crashed

SendPanics(p, c) ==
    /\ state[c] = "closed"
    /\ todo' = [todo EXCEPT ![p] = {}]
    /\ crashed' = (p \notin Recovering)
    /\ UNCHANGED queue

Send(p) ==
    /\ ~crashed
    /\ \E c \in todo[p] : Offer(p, c) \/ SendPanics(p, c)
    /\ UNCHANGED <<last, logs, listeners, state, entry, notice>>

\* ClearLogs empties the ring and then logs that it did.
ClearLogs(p) ==
    /\ ~crashed /\ todo[p] = {} /\ p \notin notice
    /\ last < MaxEntries
    /\ logs' = << >>
    /\ notice' = notice \cup {p}
    /\ UNCHANGED <<last, listeners, state, queue, entry, todo, crashed>>

SubscribeLogs(c) ==
    /\ ~crashed /\ state[c] = "none"
    /\ state' = [state EXCEPT ![c] = "open"]
    /\ listeners' = listeners \cup {c}
    /\ UNCHANGED <<last, logs, queue, entry, todo, notice, crashed>>

\* unsubscribe, under logsMu and after it.
Unsubscribe(c) ==
    /\ ~crashed /\ state[c] = "open"
    /\ state' = [state EXCEPT ![c] = "leaving"]
    /\ listeners' = listeners \ {c}
    /\ UNCHANGED <<last, logs, queue, entry, todo, notice, crashed>>

CloseChannel(c) ==
    /\ ~crashed /\ state[c] = "leaving"
    /\ state' = [state EXCEPT ![c] = "closed"]
    /\ UNCHANGED <<last, logs, listeners, queue, entry, todo, notice, crashed>>

\* The web server's forwarding goroutine takes an entry out; a closed channel
\* is still drained.
Forward(c) ==
    /\ ~crashed /\ queue[c] # << >>
    /\ queue' = [queue EXCEPT ![c] = Tail(@)]
    /\ UNCHANGED <<last, logs, listeners, state, entry, todo, notice, crashed>>

Next == \/ \E p \in Loggers : LogEvent(p) \/ Send(p) \/ ClearLogs(p)
        \/ \E c \in Subs : SubscribeLogs(c) \/ Unsubscribe(c) \/ CloseChannel(c)
                           \/ Forward(c)

Spec == Init /\ [][Next]_vars

-----------------------------------------------------------------------------
\* A subscriber never gets an entry twice, and none from before it subscribed
\* is on its way to it: what a logger still has to send is not in the channel.
DeliveredOnce ==
    \A c \in Subs :
      /\ \A i, j \in DOMAIN queue[c] : queue[c][i] = queue[c][j] => i = j
      /\ \A p \in Loggers, i \in DOMAIN queue[c] :
           c \in todo[p] => queue[c][i] # entry[p]
      /\ state[c] = "none" => \A p \in Loggers : c \notin todo[p]

-----------------------------------------------------------------------------
(* What comments say and the code does not do.                             *)

\* "broadcasts it to active subscribers": nobody is about to send to a channel
\* that was closed.
SendsToActive == \A p \in Loggers : \A c \in todo[p] : state[c] # "closed"
=============================================================================
