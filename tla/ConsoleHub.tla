----------------------------- MODULE ConsoleHub -----------------------------
(***************************************************************************)
(* The WebSocket side of the VCS console (internal/vcs/web.go) on top of   *)
(* the communication log: one goroutine forwards the entries of a log      *)
(* subscription to every browser; a browser that connects is put on the    *)
(* list and then gets the recent entries from its own handler.             *)
(*                                                                         *)
(* A broadcast holds wsMu and is one step.  The handler's replay does not  *)
(* take wsMu; the WebSocket library allows one writer per connection and   *)
(* panics in one of two that meet: in the broadcaster, which ends the      *)
(* process, or in the handler, whose panic the HTTP server recovers before *)
(* the handler has arranged for the browser to be taken off the list.      *)
(***************************************************************************)
EXTENDS LogHub, SequencesExt

CONSTANTS Clients,  \* browsers
          web,      \* the subscription of the web server
          Replay    \* entries a new browser gets, 50 in the code

ASSUME ConsoleHubAssumption == web \in Subs /\ Replay \in Nat \ {0}

VARIABLES
    wsClients,  \* w.wsClients
    conn,       \* of each browser: "none", "registered", "replaying", "live",
                \* "orphan" (its handler panicked), "gone"
    replay,     \* what its handler still has to replay
    shown,      \* the entries it has got
    since,      \* history: the first entry it is owed
    held,       \* the entry the forwarding goroutine is about to broadcast, or 0
    dropped     \* history: entries that found the subscription's channel full

consoles == <<wsClients, conn, replay, shown, since>>
hubVars  == <<vars, consoles, held, dropped>>

Entry == 1..MaxEntries

HubTypeOK ==
    /\ TypeOK
    /\ wsClients \in SUBSET Clients
    /\ conn \in [Clients -> {"none", "registered", "replaying", "live", "orphan", "gone"}]
    /\ \A c \in Clients : replay[c] # << >> => conn[c] = "replaying"
    /\ replay \in [Clients -> Seq(Entry)] /\ shown \in [Clients -> SUBSET Entry]
    /\ since \in [Clients -> 1..MaxEntries + 1]
    /\ held \in 0..MaxEntries /\ dropped \in SUBSET Entry

HubInit ==
    /\ Init
    /\ wsClients = {} /\ conn = [c \in Clients |-> "none"]
    /\ replay = [c \in Clients |-> << >>] /\ shown = [c \in Clients |-> {}]
    /\ since = [c \in Clients |-> 1]
    /\ held = 0 /\ dropped = {}

-----------------------------------------------------------------------------
(* A browser.                                                              *)

\* Once NewWebServer has subscribed, it serves.
handleWebSocket(c) ==
    /\ ~crashed /\ state[web] # "none" /\ conn[c] = "none"
    /\ conn' = [conn EXCEPT ![c] = "registered"]
    /\ wsClients' = wsClients \cup {c}
    /\ UNCHANGED <<vars, replay, shown, since, held, dropped>>

\* RecentLogs(limit): the newest entries, all of them if there are fewer.
RecentLogs(limit) ==
    SubSeq(logs, 1 + (IF limit > Len(logs) THEN 0 ELSE Len(logs) - limit), Len(logs))

ReplayBegins(c) ==
    /\ ~crashed /\ conn[c] = "registered"
    /\ conn' = [conn EXCEPT ![c] = "replaying"]
    /\ replay' = [replay EXCEPT ![c] = RecentLogs(Replay)]
    /\ since' = [since EXCEPT ![c] = last + 1 - Len(RecentLogs(Replay))]
    /\ UNCHANGED <<vars, wsClients, shown, held, dropped>>

ReplayWrites(c) ==
    /\ ~crashed /\ replay[c] # << >>
    /\ shown' = [shown EXCEPT ![c] = @ \cup {Head(replay[c])}]
    /\ replay' = [replay EXCEPT ![c] = Tail(@)]
    /\ UNCHANGED <<vars, wsClients, conn, since, held, dropped>>

\* From here on the handler reads.
ReplayEnds(c) ==
    /\ ~crashed /\ conn[c] = "replaying" /\ replay[c] = << >>
    /\ conn' = [conn EXCEPT ![c] = "live"]
    /\ UNCHANGED <<vars, wsClients, replay, shown, since, held, dropped>>

\* (Definitions named Mut_ are broken variants; the mutation checks put each in
\* the place of the definition below it.)
\* Broken variant: a browser is taken off while its handler still replays.
Mut_Leave(c) ==
    /\ ~crashed /\ conn[c] \in {"replaying", "live"}
    /\ conn' = [conn EXCEPT ![c] = "gone"]
    /\ wsClients' = wsClients \ {c}
    /\ UNCHANGED <<vars, replay, shown, since, held, dropped>>

\* The browser is closed, or Close has closed its connection.
Leave(c) ==
    /\ ~crashed /\ conn[c] = "live"
    /\ conn' = [conn EXCEPT ![c] = "gone"]
    /\ wsClients' = wsClients \ {c}
    /\ UNCHANGED <<vars, replay, shown, since, held, dropped>>

-----------------------------------------------------------------------------
(* Broadcasts.                                                             *)

\* Two writers meet in a connection that is being replayed to.
Collision ==
    \E c \in wsClients :
      /\ replay[c] # << >>
      /\ \/ crashed' = TRUE /\ UNCHANGED <<conn, replay>>
         \/ /\ conn' = [conn EXCEPT ![c] = "orphan"]
            /\ replay' = [replay EXCEPT ![c] = << >>]
            /\ UNCHANGED crashed

NoCollision == UNCHANGED <<conn, replay, crashed>>

\* The forwarding goroutine takes an entry out of the channel; a closed channel
\* is still drained.
TakeEntry ==
    /\ held = 0 /\ queue[web] # << >> /\ held' = Head(queue[web])
    /\ Forward(web)
    /\ UNCHANGED <<consoles, dropped>>

\* Broken variant: browsers that are still being replayed to are left out.
Mut_Receivers == {c \in wsClients : conn[c] \notin {"registered", "replaying"}}

Receivers == wsClients

BroadcastEvent ==
    /\ ~crashed /\ held # 0 /\ held' = 0
    /\ shown' = [c \in Clients |-> IF c \in Receivers THEN shown[c] \cup {held}
                                                      ELSE shown[c]]
    /\ NoCollision \/ Collision
    /\ UNCHANGED <<last, logs, listeners, state, queue, entry, todo, notice,
                   wsClients, since, dropped>>

\* Samples of a channel or the telephone, in a receive loop: of the log nothing
\* changes, but the writers may meet.
BroadcastAudio ==
    /\ ~crashed /\ Collision
    /\ UNCHANGED <<last, logs, listeners, state, queue, entry, todo, notice,
                   wsClients, shown, since, held, dropped>>

\* WebServer.Close, after its unsubscribe.
CloseClients ==
    /\ ~crashed /\ state[web] = "closed"
    /\ wsClients' = {}
    /\ UNCHANGED <<vars, conn, replay, shown, since, held, dropped>>

-----------------------------------------------------------------------------
\* A logger sends to the subscription; what finds no room is dropped.
SendEntry(p) ==
    /\ Send(p)
    /\ dropped' = IF web \in todo[p] /\ Len(queue[web]) = Capacity /\ state[web] # "closed"
                     /\ web \notin todo'[p]
                  THEN dropped \cup {entry[p]} ELSE dropped
    /\ UNCHANGED <<consoles, held>>

Log == \/ \E p \in Loggers : LogEvent(p) \/ ClearLogs(p)
       \/ SubscribeLogs(web) \/ Unsubscribe(web) \/ CloseChannel(web)

HubNext ==
    \/ Log /\ UNCHANGED <<consoles, held, dropped>>
    \/ \E p \in Loggers : SendEntry(p)
    \/ \E c \in Clients : \/ handleWebSocket(c) \/ ReplayBegins(c) \/ ReplayWrites(c)
                          \/ ReplayEnds(c) \/ Leave(c)
    \/ TakeEntry \/ BroadcastEvent \/ BroadcastAudio \/ CloseClients

HubSpec == HubInit /\ [][HubNext]_hubVars

\* A goroutine that sends, forwards or replays goes on; browsers read.
HubFairSpec ==
    /\ HubSpec
    /\ \A p \in Loggers : WF_hubVars(SendEntry(p))
    /\ WF_hubVars(TakeEntry) /\ WF_hubVars(BroadcastEvent)

-----------------------------------------------------------------------------
(* Properties.                                                             *)

\* Entries on their way to the forwarding goroutine, or in its hand.
UnderWay == {entry[p] : p \in {p \in Loggers : web \in todo[p]}}
            \cup ToSet(queue[web]) \cup {held}

Connected(c) == conn[c] \in {"replaying", "live"} /\ state[web] = "open" /\ ~crashed

\* A browser misses no entry between what is replayed to it and what is forwarded
\* to it live, in whatever order it connects, entries are logged and the log is
\* cleared: each one is shown to it, on its way, or was dropped at a full channel.
NothingMissed ==
    \A c \in Clients : Connected(c) =>
        since[c]..last \subseteq shown[c] \cup ToSet(replay[c]) \cup UnderWay \cup dropped

\* And it is shown in the end: no logger, however many wait and however full the
\* channel is, keeps an entry for ever.
EntriesShown ==
    \A c \in Clients, e \in Entry :
        (conn[c] = "live" /\ Connected(c) /\ e \in since[c]..last)
            ~> (e \in shown[c] \cup dropped \/ conn[c] # "live" \/ ~Connected(c))

-----------------------------------------------------------------------------
(* What the code does not do.                                              *)

\* A browser that connects does not end the program, nor lose its handler.
ConnectIsHarmless == (\A c \in Clients : conn[c] # "orphan") /\ (crashed => listeners = {})
=============================================================================
