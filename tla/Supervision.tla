----------------------------- MODULE Supervision -----------------------------
(***************************************************************************)
(* Supervision: the VCS asks every configured URI with SIP OPTIONS whether *)
(* it is there (internal/vcs/service.go, internal/sip/dialog.go), and the  *)
(* stations behind the URIs answer, unless their operator lets them fall   *)
(* silent (internal/grs/service.go).                                       *)
(*                                                                         *)
(* One loop makes round after round, one ping at a time.  A ping ends with *)
(* its answer, after 800 ms, or when the service is closed; its result is  *)
(* applied later, under s.mu.  Requests and answers are lost or late; one  *)
(* that outlives its ping stays on the network as a stale one.  Several    *)
(* URIs may lead to one station.  Times, counters and the round-trip time  *)
(* are left out.                                                           *)
(***************************************************************************)
EXTENDS Naturals, FiniteSets

CONSTANTS
    Targets,   \* the URIs under supervision
    Stations,
    Home,      \* the station behind each URI
    NoTarget,  \* no ping under way
    MaxFlight  \* bound: messages on the network

ASSUME SupervisionAssumption ==
    /\ NoTarget \notin Targets
    /\ Home \in [Targets -> Stations]
    /\ MaxFlight \in Nat

VARIABLES
    status,    \* stat.Status of each target
    todo,      \* targets of this round still to be pinged
    pinging,   \* the target of the ping under way
    verdict,   \* what the ping came back with, "none" while it waits
    ended,     \* the loop has ended
    cancelled, \* s.ctx
    consoleClosed, \* the web server has closed its log channel
    stuck,     \* s.mu was locked by a check that panicked
    net,       \* messages on the network
    silent,    \* silentDrop of each station
    replied,   \* history: the station answered the last ping
    mute       \* history: it was silent from the beginning of the last ping on

loop    == <<todo, pinging, verdict, ended>>
close   == <<cancelled, consoleClosed, stuck>>
history == <<replied, mute>>
vars == <<status, loop, close, net, silent, history>>

Message == [kind : {"OPTIONS", "OK"}, to : Targets, stale : BOOLEAN]

TypeOK ==
    /\ status \in [Targets -> {"unknown", "online", "offline"}]
    /\ todo \in SUBSET Targets /\ pinging \in Targets \cup {NoTarget}
    /\ verdict \in {"none", "answered", "failed"}
    /\ pinging = NoTarget => verdict = "none"
    /\ ended \in BOOLEAN /\ cancelled \in BOOLEAN
    /\ consoleClosed \in BOOLEAN /\ stuck \in BOOLEAN
    /\ net \in SUBSET Message
    /\ silent \in [Stations -> BOOLEAN]
    /\ replied \in [Targets -> BOOLEAN] /\ mute \in [Targets -> BOOLEAN]

Init ==
    /\ status = [t \in Targets |-> "unknown"]
    /\ todo = {} /\ pinging = NoTarget /\ verdict = "none" /\ ended = FALSE
    /\ cancelled = FALSE /\ consoleClosed = FALSE /\ stuck = FALSE
    /\ net = {} /\ silent = [g \in Stations |-> FALSE]
    /\ replied = [t \in Targets |-> FALSE] /\ mute = [t \in Targets |-> FALSE]

-----------------------------------------------------------------------------
(* The loop of the VCS.                                                    *)

Idle == todo = {} /\ pinging = NoTarget /\ ~ended

\* A tick: the targets are copied under s.mu.  With a tick and the end of the
\* context both there, the select takes either.
supervisionLoop ==
    /\ Idle /\ ~stuck
    /\ todo' = Targets
    /\ UNCHANGED <<status, pinging, verdict, ended, close, net, silent, history>>

LoopEnds ==
    /\ Idle /\ cancelled
    /\ ended' = TRUE
    /\ UNCHANGED <<status, todo, pinging, verdict, close, net, silent, history>>

Request(t) == [kind |-> "OPTIONS", to |-> t, stale |-> FALSE]
Answer(t)  == [kind |-> "OK", to |-> t, stale |-> FALSE]

\* (Definitions named Mut_ are broken variants; the mutation checks put each in
\* the place of the definition below it.)
\* Broken variant: an answer belongs to whatever ping of its target is under way.
Mut_Aged(t, messages) == messages

\* The messages of a ping that has ended are those of another transaction.
Aged(t, messages) ==
    {IF m.to = t THEN [m EXCEPT !.stale = TRUE] ELSE m : m \in messages}

\* The next ping of the round; with the context cancelled none is sent for sure.
Ping(t) ==
    /\ t \in todo /\ pinging = NoTarget
    /\ todo' = todo \ {t} /\ pinging' = t
    /\ \/ Cardinality(net) < MaxFlight /\ net' = net \cup {Request(t)}
       \/ cancelled /\ UNCHANGED net
    /\ replied' = [replied EXCEPT ![t] = FALSE]
    /\ mute' = [mute EXCEPT ![t] = silent[Home[t]]]
    /\ UNCHANGED <<status, verdict, ended, close, silent>>

PingAnswered(t) ==
    /\ pinging = t /\ verdict = "none" /\ Answer(t) \in net
    /\ verdict' = "answered"
    /\ net' = Aged(t, net \ {Answer(t)})
    /\ UNCHANGED <<status, todo, pinging, ended, close, silent, history>>

\* Broken variant: a time-out that was not stopped with its ping.
Mut_PingFails ==
    /\ verdict = "none"
    /\ verdict' = "failed"
    /\ UNCHANGED <<status, todo, pinging, ended, close, net, silent, history>>

\* The request cannot be sent, 800 ms pass, the transaction or the context ends.
PingFails ==
    /\ pinging # NoTarget /\ verdict = "none"
    /\ verdict' = "failed"
    /\ net' = Aged(pinging, net)
    /\ UNCHANGED <<status, todo, pinging, ended, close, silent, history>>

\* Broken variant: a target that has gone offline is given up.
Mut_Judged(old) ==
    IF verdict = "failed" \/ old = "offline" THEN "offline" ELSE "online"

Judged(old) == IF verdict = "failed" THEN "offline" ELSE "online"

\* Under s.mu, which LogEvent leaves locked when it panics: the web server closed
\* its log channel, and the panic is recovered outside the lock.
Apply ==
    /\ verdict # "none" /\ ~stuck
    /\ status' = [status EXCEPT ![pinging] = Judged(@)]
    /\ stuck' \in {FALSE, consoleClosed /\ status' # status}
    /\ pinging' = NoTarget /\ verdict' = "none"
    /\ UNCHANGED <<todo, ended, cancelled, consoleClosed, net, silent, history>>

\* main closes the web server, then the service.
CloseConsole ==
    /\ ~consoleClosed /\ consoleClosed' = TRUE
    /\ UNCHANGED <<status, loop, cancelled, stuck, net, silent, history>>

Close ==
    /\ consoleClosed /\ ~cancelled /\ cancelled' = TRUE
    /\ UNCHANGED <<status, loop, consoleClosed, stuck, net, silent, history>>

-----------------------------------------------------------------------------
(* The stations.  Service and node have a flag each, set together under    *)
(* the service's mutex.  A request is dropped if the node's is up; if not, *)
(* the service asks its own under its mutex, when both agree again: the    *)
(* answer is that of one flag at that moment.                              *)

SetSilentDrop(g) ==
    /\ \E drop \in BOOLEAN :
         /\ silent' = [silent EXCEPT ![g] = drop]
         /\ mute' = [t \in Targets |-> mute[t] /\ (Home[t] = g => drop)]
    /\ UNCHANGED <<status, loop, close, net, replied>>

handleOptions(m) ==
    /\ m.kind = "OPTIONS"
    /\ IF ~silent[Home[m.to]]
       THEN /\ net' = (net \ {m}) \cup {[m EXCEPT !.kind = "OK"]}
            /\ replied' = [replied EXCEPT ![m.to] = @ \/ ~m.stale]
       ELSE net' = net \ {m} /\ UNCHANGED replied
    /\ UNCHANGED <<status, loop, close, silent, mute>>

-----------------------------------------------------------------------------
\* Lost, or an answer whose transaction is gone.
Lose(m) ==
    /\ net' = net \ {m}
    /\ UNCHANGED <<status, loop, close, silent, history>>

Next ==
    \/ supervisionLoop \/ LoopEnds \/ PingFails \/ Apply \/ CloseConsole \/ Close
    \/ \E t \in Targets : Ping(t) \/ PingAnswered(t)
    \/ \E g \in Stations : SetSilentDrop(g)
    \/ \E m \in net : handleOptions(m) \/ Lose(m)

Spec == Init /\ [][Next]_vars

(***************************************************************************)
(* Fairness.  The ticker ticks, the loop goes on, a ping has its 800 ms.  *)
(* Of the pings of a target that go on for ever the network carries one in *)
(* time, and its answer.                                                   *)
(***************************************************************************)
Fairness ==
    /\ WF_vars(supervisionLoop) /\ WF_vars(PingFails) /\ WF_vars(Apply)
    /\ \A t \in Targets :
         /\ SF_vars(Ping(t))
         /\ SF_vars(handleOptions(Request(t)) /\ Request(t) \in net)
         /\ SF_vars(PingAnswered(t))
    /\ WF_vars(\E m \in net : m.stale /\ Lose(m))

FairSpec == Spec /\ Fairness

-----------------------------------------------------------------------------
(* Properties.                                                             *)

\* A target is shown online only if the ping its status comes from was answered by
\* its station: no answer to an earlier ping, and none of a station that was silent
\* for as long as this one lasted.
OnlineAnswered ==
    \A t \in Targets :
        status[t] = "online" /\ pinging # t => replied[t] /\ ~mute[t]

Running == ~consoleClosed

\* What is shown follows the stations.  A station that falls silent is shown offline
\* in the end, under each of its URIs, and stays so; one that answers again is shown
\* online again, and again after every ping that was lost.
StatusFollows ==
    \A t \in Targets :
        /\ <>[](Running /\ silent[Home[t]]) => <>[](status[t] = "offline")
        /\ <>[](Running /\ ~silent[Home[t]]) => []<>(status[t] = "online")

-----------------------------------------------------------------------------
(* What the log says and the code does not do.                             *)

\* "Node went OFFLINE (Ping failed)": a target goes offline because a ping of the
\* running service failed.
OfflineWhileRunning ==
    [][cancelled => \A t \in Targets : status[t] = "online" => status'[t] = "online"]_vars
=============================================================================
