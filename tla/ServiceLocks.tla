---------------------------- MODULE ServiceLocks ----------------------------
(***************************************************************************)
(* Who waits for whom in the VCS (internal/vcs/service.go, web.go): the    *)
(* read-write mutex s.mu, the mutex of every channel, phone.mu, the mutex  *)
(* of the WebSocket hub, the network, and the loops of an RTP session, for *)
(* which a close waits.  What is done to the data is in the other modules. *)
(*                                                                         *)
(* An activity is a goroutine that runs one operation after another; an    *)
(* operation is the sequence of its steps that may have to wait, or that   *)
(* others may have to wait for.  A look-up under s.mu and a short body     *)
(* under a mutex wait for the mutex and then for nobody: one step each.    *)
(* The mutexes of the log, the recorder, the state machine, the            *)
(* configuration and the RTP sessions are only held for such bodies and    *)
(* are left out.                                                           *)
(*                                                                         *)
(* When the web server is closed it unsubscribes from the log; a LogEvent  *)
(* under way may then send on the closed channel and panic (LogHub).  Here *)
(* are those of them that are recovered while a mutex is locked without a  *)
(* deferred unlock; where nobody recovers, the process ends.               *)
(***************************************************************************)
EXTENDS Naturals, FiniteSets, SequencesExt

CONSTANTS
    Channels,    \* radio channels
    Activities,  \* the goroutines of this instance: pairs of operation and mutex
    Nobody,      \* owner of a free mutex
    Panicked,    \* owner of a mutex that an operation has left locked for good
    Shutdown,    \* main gets its signal some time
    Stalls       \* a browser may stop reading

Mutexes == {"s", "phone", "ws"} \cup Channels

ASSUME ServiceLocksAssumption ==
    /\ Activities \subseteq
         ({"connect", "disconnect", "ptt", "receive", "transmit"} \X Channels) \cup
         ({"dial", "hangup", "receive", "transmit"} \X {"phone"}) \cup
         ({"console", "mic", "supervise", "watchdog", "main"} \X {"s"}) \cup
         {<<"forward", "ws">>}
    /\ {"s", "phone", "ws"} \cap Channels = {} /\ IsFiniteSet(Channels)
    /\ Nobody # Panicked /\ {Nobody, Panicked} \cap Activities = {}
    /\ Shutdown \in BOOLEAN /\ Stalls \in BOOLEAN

VARIABLES
    rest,      \* what each activity still has to do of its operation
    owner,     \* who has locked each mutex
    readers,   \* who holds s.mu for reading
    waiting,   \* who waits in s.mu.Lock(): nobody gets s.mu for reading any more
    closing,   \* receive loops whose session is being closed
    stalled,   \* a browser has stopped reading
    feed,      \* the log subscription: "open", "removed", "closed"
    copied,    \* who is in a LogEvent and has seen the subscription
    cancelled  \* s.ctx is done

locks == <<owner, readers, waiting>>
log == <<feed, copied>>
vars == <<rest, locks, closing, stalled, log, cancelled>>

-----------------------------------------------------------------------------
(* The operations.                                                         *)

Do(what, on) == << [do |-> what, on |-> on] >>

Look     == Do("look", "s")
Visit(m) == Do("visit", m)
Network  == Do("network", "s")
Log      == IF Shutdown THEN Do("log", "s") \o Do("send", "s") ELSE << >>

\* Every channel in turn; a Go map is walked in any order.
Orders == {f \in [1..Cardinality(Channels) -> Channels] :
             \A i, j \in DOMAIN f : f[i] = f[j] => i = j}
Visits(f) == [i \in DOMAIN f |-> [do |-> "visit", on |-> f[i]]]

\* A WriteMessage to every browser under wsMu, without a deadline.
Broadcast == Do("lock", "ws") \o Do("write", "ws") \o Do("unlock", "ws")

\* RTPSession.Close: end the loops and wait for them.
CloseSession(m) == Do("close", m) \o Do("join", m)

ConnectChannel(c) == Look \o Do("lock", c) \o Network \o Do("unlock", c)

\* (Definitions named Mut_ are broken variants; the mutation checks put each in
\* the place of the definition below it.)
\* Broken variant: the session is closed before the mutex is released.
Mut_DisconnectChannel(c) ==
    Look \o Do("lock", c) \o Log \o CloseSession(c) \o Do("unlock", c) \o Network

DisconnectChannel(c) ==
    Look \o Do("lock", c) \o Log \o Do("unlock", c) \o CloseSession(c) \o Network

\* Also StopPTT and SetChannelJitterBuffer.
StartPTT(c) == Look \o Visit(c)

\* The audioSrc of a transmit loop.
audioSrc(m) == Visit(m)

handleRadioRx(c) == Look \o Visit(c) \o Broadcast

DialURI == Do("lock", "phone") \o Network \o Do("unlock", "phone")

HangupPhone ==
    Do("lock", "phone") \o Log \o Do("unlock", "phone") \o CloseSession("phone") \o Network

PhoneHandler == Visit("phone") \o Look \o Broadcast

ChannelSnapshots(f) == Do("rlock", "s") \o Visits(f) \o Do("runlock", "s")

FeedMicAudio(f) == Do("rlock", "s") \o Visits(f) \o Visit("phone") \o Do("runlock", "s")

checkSquelchTimeouts(f) == Look \o Visits(f)

\* For one target.
runSupervisionChecks ==
    Look \o Network \o Do("lock", "s") \o Log \o Do("unlock", "s")

\* main's deferred calls: WebServer.Close, then VCSService.Close.
Close(f) ==
    Do("remove", "s") \o Do("closefeed", "s") \o Visit("ws") \o Network
    \o Do("cancel", "s") \o Do("workers", "s") \o HangupPhone
    \o Look \o FlattenSeq([i \in DOMAIN f |-> DisconnectChannel(f[i])])

\* An early return has the steps up to it.
Operations(a) ==
    CASE a[1] = "connect"    -> {ConnectChannel(a[2]), Look \o Visit(a[2])}
      [] a[1] = "disconnect" -> {DisconnectChannel(a[2])}
      [] a[1] = "ptt"        -> {StartPTT(a[2])}
      [] a[1] = "receive"    -> {IF a[2] = "phone" THEN PhoneHandler ELSE handleRadioRx(a[2])}
      [] a[1] = "transmit"   -> {audioSrc(a[2])}
      [] a[1] = "dial"       -> {DialURI, Visit("phone")}
      [] a[1] = "hangup"     -> {HangupPhone, Visit("phone")}
      [] a[1] = "console"    -> {ChannelSnapshots(f) : f \in Orders}
      [] a[1] = "mic"        -> {FeedMicAudio(f) : f \in Orders}
      [] a[1] = "watchdog"   -> {checkSquelchTimeouts(f) : f \in Orders}
      [] a[1] = "supervise"  -> {runSupervisionChecks}
      [] a[1] = "forward"    -> {Broadcast}
      [] a[1] = "main"       -> {Close(f) : f \in Orders}

Workers == Activities \cap {<<"supervise", "s">>, <<"watchdog", "s">>}

-----------------------------------------------------------------------------
Step == [do : {"look", "visit", "network", "log", "send", "rlock", "runlock", "lock",
               "unlock", "write", "close", "join", "remove", "closefeed", "cancel",
               "workers"},
         on : Mutexes]

TypeOK ==
    /\ rest \in [Activities -> Seq(Step)]
    /\ owner \in [Mutexes -> Activities \cup {Nobody, Panicked}]
    /\ readers \subseteq Activities /\ waiting \subseteq Activities
    /\ closing \subseteq Channels \cup {"phone"}
    /\ stalled \in BOOLEAN
    /\ feed \in {"open", "removed", "closed"} /\ copied \subseteq Activities
    /\ cancelled \in BOOLEAN
    /\ readers # {} => owner["s"] = Nobody

Init ==
    /\ rest = [a \in Activities |-> << >>]
    /\ owner = [m \in Mutexes |-> Nobody]
    /\ readers = {} /\ waiting = {} /\ closing = {}
    /\ stalled = FALSE /\ feed = "open" /\ copied = {} /\ cancelled = FALSE

-----------------------------------------------------------------------------
Resting(a) == rest[a] = << >>
At(a, what) == ~Resting(a) /\ Head(rest[a]).do = what
On(a) == Head(rest[a]).on
GoesOn(a) == rest' = [rest EXCEPT ![a] = Tail(@)]

\* The loops of the session on a channel or of the telephone.
Loops(m) == ({"receive", "transmit"} \X {m}) \cap Activities

Begin(a) ==
    /\ Resting(a)
    /\ a[1] \in {"receive", "transmit"} => a[2] \notin closing
    /\ a[1] = "main" => Shutdown /\ feed = "open"
    /\ ~(cancelled /\ a \in Workers)
    /\ \E op \in Operations(a) : rest' = [rest EXCEPT ![a] = op]
    /\ UNCHANGED <<locks, closing, stalled, log, cancelled>>

\* s.mu is to be had for reading: nobody has locked it or waits to.
Readable == owner["s"] = Nobody /\ waiting = {}

Looks(a) ==
    /\ At(a, "look") /\ Readable /\ GoesOn(a)
    /\ UNCHANGED <<locks, closing, stalled, log, cancelled>>

RLocks(a) ==
    /\ At(a, "rlock") /\ Readable /\ GoesOn(a)
    /\ readers' = readers \cup {a}
    /\ UNCHANGED <<owner, waiting, closing, stalled, log, cancelled>>

RUnlocks(a) ==
    /\ At(a, "runlock") /\ GoesOn(a)
    /\ readers' = readers \ {a}
    /\ UNCHANGED <<owner, waiting, closing, stalled, log, cancelled>>

\* From now on s.mu is not given to readers; those who have it keep it.
Announces(a) ==
    /\ At(a, "lock") /\ On(a) = "s" /\ a \notin waiting
    /\ waiting' = waiting \cup {a}
    /\ UNCHANGED <<rest, owner, readers, closing, stalled, log, cancelled>>

Locks(a) ==
    /\ At(a, "lock") /\ owner[On(a)] = Nobody
    /\ On(a) = "s" => a \in waiting /\ readers = {}
    /\ GoesOn(a)
    /\ owner' = [owner EXCEPT ![On(a)] = a]
    /\ waiting' = waiting \ {a}
    /\ UNCHANGED <<readers, closing, stalled, log, cancelled>>

Unlocks(a) ==
    /\ At(a, "unlock") /\ GoesOn(a)
    /\ owner' = [owner EXCEPT ![On(a)] = Nobody]
    /\ UNCHANGED <<readers, waiting, closing, stalled, log, cancelled>>

VisitsIt(a) ==
    /\ At(a, "visit") /\ owner[On(a)] = Nobody /\ GoesOn(a)
    /\ UNCHANGED <<locks, closing, stalled, log, cancelled>>

\* An INVITE, BYE or OPTIONS: answered, or its context ends.
Answered(a) ==
    /\ At(a, "network") /\ GoesOn(a)
    /\ UNCHANGED <<locks, closing, stalled, log, cancelled>>

Writes(a) ==
    /\ At(a, "write") /\ ~stalled /\ GoesOn(a)
    /\ UNCHANGED <<locks, closing, stalled, log, cancelled>>

Stall ==
    /\ Stalls /\ ~stalled /\ stalled' = TRUE
    /\ UNCHANGED <<rest, locks, closing, log, cancelled>>

Closes(a) ==
    /\ At(a, "close") /\ GoesOn(a)
    /\ closing' = closing \cup {On(a)}
    /\ UNCHANGED <<locks, stalled, log, cancelled>>

\* The loops have ended; the next session on this mutex has loops of its own.
Joins(a) ==
    /\ At(a, "join") /\ \A l \in Loops(On(a)) : Resting(l)
    /\ GoesOn(a)
    /\ closing' = closing \ {On(a)}
    /\ UNCHANGED <<locks, stalled, log, cancelled>>

-----------------------------------------------------------------------------
(* LogEvent against the end of the subscription, and the end of the        *)
(* service.                                                                *)

Logs(a) ==
    /\ At(a, "log") /\ GoesOn(a)
    /\ copied' = IF feed = "open" THEN copied \cup {a} ELSE copied
    /\ UNCHANGED <<locks, closing, stalled, feed, cancelled>>

Sends(a) ==
    /\ At(a, "send") /\ ~(a \in copied /\ feed = "closed") /\ GoesOn(a)
    /\ copied' = copied \ {a}
    /\ UNCHANGED <<locks, closing, stalled, feed, cancelled>>

\* A panic that is recovered ends the operation and unlocks nothing.
Panics(a) ==
    /\ At(a, "send") /\ a \in copied /\ feed = "closed"
    /\ rest' = [rest EXCEPT ![a] = << >>]
    /\ owner' = [m \in Mutexes |-> IF owner[m] = a THEN Panicked ELSE owner[m]]
    /\ copied' = copied \ {a}
    /\ UNCHANGED <<readers, waiting, closing, stalled, feed, cancelled>>

Removes(a) ==
    /\ At(a, "remove") /\ GoesOn(a) /\ feed' = "removed"
    /\ UNCHANGED <<locks, closing, stalled, copied, cancelled>>

ClosesFeed(a) ==
    /\ At(a, "closefeed") /\ GoesOn(a) /\ feed' = "closed"
    /\ UNCHANGED <<locks, closing, stalled, copied, cancelled>>

Cancels(a) ==
    /\ At(a, "cancel") /\ GoesOn(a) /\ cancelled' = TRUE
    /\ UNCHANGED <<locks, closing, stalled, log>>

WorkersDone(a) ==
    /\ At(a, "workers") /\ \A w \in Workers : Resting(w)
    /\ GoesOn(a)
    /\ UNCHANGED <<locks, closing, stalled, log, cancelled>>

-----------------------------------------------------------------------------
Goes(a) ==
    \/ Looks(a) \/ RLocks(a) \/ RUnlocks(a)
    \/ Announces(a) \/ Locks(a) \/ Unlocks(a) \/ VisitsIt(a)
    \/ Answered(a) \/ Writes(a) \/ Closes(a) \/ Joins(a)

Ends(a) ==
    \/ Logs(a) \/ Sends(a) \/ Panics(a)
    \/ Removes(a) \/ ClosesFeed(a) \/ Cancels(a) \/ WorkersDone(a)

Next == Stall \/ \E a \in Activities : Begin(a) \/ Goes(a) \/ Ends(a)

Spec == Init /\ [][Next]_vars

\* Whoever can go on does, and a mutex is not withheld from one who waits for it
\* for ever (Go hands it over to a waiter that starves).
FairSpec == Spec /\ \A a \in Activities : SF_vars(Goes(a) \/ Ends(a))

-----------------------------------------------------------------------------
\* For whom an activity has to wait before it can take its next step.
WaitsFor(a) ==
    CASE At(a, "look") \/ At(a, "rlock") -> ({owner["s"]} \cup waiting) \ {Nobody}
      [] At(a, "lock") /\ On(a) = "s"    -> ({owner["s"]} \cup readers) \ {Nobody}
      [] At(a, "lock") /\ On(a) # "s"    -> {owner[On(a)]} \ {Nobody}
      [] At(a, "visit")                  -> {owner[On(a)]} \ {Nobody}
      [] At(a, "join")                   -> {l \in Loops(On(a)) : ~Resting(l)}
      [] At(a, "workers")                -> {w \in Workers : ~Resting(w)}
      [] OTHER                           -> {}

\* No deadlock, not of a few activities either: nobody waits in a circle, although
\* a close waits for loops that call back, polls hold s.mu while they wait for a
\* channel, and a supervision check that waits to write keeps new readers out.
NoCircularWait ==
    \A S \in SUBSET {a \in Activities : WaitsFor(a) # {}} :
        S # {} => \E a \in S : WaitsFor(a) \cap S = {}

\* "Close gracefully terminates all channel sessions, phone calls, and background
\* workers" (service.go:994): once its context is cancelled, it comes to its end.
CloseTerminates == cancelled ~> Resting(<<"main", "s">>)

=============================================================================
