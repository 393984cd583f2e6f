------------------------- MODULE SupervisionProofs -------------------------
(***************************************************************************)
(* Supervision for any number of targets and stations, whatever targets    *)
(* share a station: its types, and that a target is online only when the   *)
(* ping its status comes from was answered.                                *)
(***************************************************************************)
EXTENDS Supervision, TLAPS

\* A request and an answer of the ping under way are messages.
LEMMA PingMessages ==
    \A t \in Targets : Request(t) \in Message /\ Answer(t) \in Message
  BY DEF Request, Answer, Message

\* A message that is answered or that outlives its ping stays a message.
LEMMA MessageChanges ==
    \A m \in Message : /\ [m EXCEPT !.kind = "OK"] \in Message
                       /\ [m EXCEPT !.stale = TRUE] \in Message
  BY DEF Message

\* When a ping ends (the transaction of sip/dialog.go is gone) the messages stay
\* messages, those of its target are stale and the others are what they were.
LEMMA AgedMessages ==
    ASSUME NEW t \in Targets, NEW messages \in SUBSET Message
    PROVE  /\ Aged(t, messages) \in SUBSET Message
           /\ \A m \in Aged(t, messages) : ~m.stale => m \in messages /\ m.to # t
<1>1. ASSUME NEW m \in messages, m.to = t
      PROVE  [m EXCEPT !.stale = TRUE].stale
  BY <1>1 DEF Message
<1>2. QED
  BY <1>1, MessageChanges DEF Aged

-----------------------------------------------------------------------------
\* Type correctness at the beginning.
LEMMA TypeCorrectInit == Init => TypeOK
  BY DEF Init, TypeOK

\* Type correctness of the supervision loop and the stations in every run.
THEOREM TypeCorrect == Spec => []TypeOK
<1>1. Init => TypeOK
  BY TypeCorrectInit
<1>2. TypeOK /\ [Next]_vars => TypeOK'
  <2> SUFFICES ASSUME TypeOK, [Next]_vars PROVE TypeOK'
    OBVIOUS
  <2> USE SupervisionAssumption DEF SupervisionAssumption
  <2>1. CASE supervisionLoop
    BY <2>1 DEF TypeOK, supervisionLoop, close, history
  <2>2. CASE LoopEnds
    BY <2>2 DEF TypeOK, LoopEnds, close, history
  <2>3. CASE PingFails
    BY <2>3, AgedMessages DEF TypeOK, PingFails, close, history
  <2>4. CASE Apply
    BY <2>4 DEF TypeOK, Apply, Judged, history
  <2>5. CASE CloseConsole
    BY <2>5 DEF TypeOK, CloseConsole, loop, history
  <2>6. CASE Close
    BY <2>6 DEF TypeOK, Close, loop, history
  <2>7. ASSUME NEW t \in Targets, Ping(t) PROVE TypeOK'
    <3>1. Home[t] \in Stations /\ silent[Home[t]] \in BOOLEAN
      BY DEF TypeOK
    <3>2. net' \in SUBSET Message
      BY <2>7, PingMessages DEF TypeOK, Ping
    <3>3. QED
      BY <2>7, <3>1, <3>2 DEF TypeOK, Ping, close
  <2>8. ASSUME NEW t \in Targets, PingAnswered(t) PROVE TypeOK'
    BY <2>8, AgedMessages DEF TypeOK, PingAnswered, close, history
  <2>9. ASSUME NEW g \in Stations, SetSilentDrop(g) PROVE TypeOK'
    BY <2>9 DEF TypeOK, SetSilentDrop, loop, close
  <2>10. ASSUME NEW m \in net, handleOptions(m) PROVE TypeOK'
    <3>1. m \in Message /\ [m EXCEPT !.kind = "OK"] \in Message
      BY MessageChanges DEF TypeOK
    <3>2. net' \in SUBSET Message
      BY <2>10, <3>1 DEF TypeOK, handleOptions
    <3>3. replied' \in [Targets -> BOOLEAN]
      BY <2>10, <3>1 DEF TypeOK, handleOptions
    <3>4. QED
      BY <2>10, <3>2, <3>3 DEF TypeOK, handleOptions, loop, close
  <2>11. ASSUME NEW m \in net, Lose(m) PROVE TypeOK'
    BY <2>11 DEF TypeOK, Lose, loop, close, history
  <2>12. CASE UNCHANGED vars
    BY <2>12 DEF TypeOK, vars, loop, close, history
  <2>13. QED
    BY <2>1, <2>2, <2>3, <2>4, <2>5, <2>6, <2>7, <2>8, <2>9, <2>10, <2>11, <2>12
    DEF Next
<1>3. QED
  BY <1>1, <1>2, PTL DEF Spec

-----------------------------------------------------------------------------
(* Why a target that is shown online was answered.                         *)

\* Only the ping under way has messages that are not stale, and only until it ends.
OnePing ==
    \A m \in net : ~m.stale => m.to = pinging /\ verdict = "none"

\* An answer on its way, and one that came back, was given by a station that was
\* not silent all the time.
AnswerGiven ==
    /\ \A m \in net : ~m.stale /\ m.kind = "OK" => replied[m.to] /\ ~mute[m.to]
    /\ verdict = "answered" => replied[pinging] /\ ~mute[pinging]

\* A station that was silent all the time is silent now.
MuteIsSilent == \A t \in Targets : mute[t] => silent[Home[t]]

Inv == TypeOK /\ OnePing /\ AnswerGiven /\ MuteIsSilent /\ OnlineAnswered

\* The invariant holds at the beginning.
LEMMA InvInit == Init => Inv
  BY TypeCorrectInit DEF Init, Inv, OnePing, AnswerGiven, MuteIsSilent, OnlineAnswered

\* A new ping: nothing of an earlier one is left that could be taken for its
\* answer, and whether its station is silent is noted.
LEMMA PingKeepsInv ==
    ASSUME Inv, NEW t \in Targets, Ping(t), TypeOK'
    PROVE  Inv'
<1> USE SupervisionAssumption DEF SupervisionAssumption
<1>1. \A m \in net : m.stale
  BY DEF Inv, TypeOK, OnePing, Ping, Message
<1>2. \A m \in net' : ~m.stale => m = Request(t)
  BY <1>1 DEF Ping
<1>3. Request(t).to = t /\ Request(t).kind = "OPTIONS"
  BY DEF Request
<1>4. verdict' = "none" /\ pinging' = t
  BY DEF Inv, TypeOK, Ping
<1>5. OnePing'
  BY <1>2, <1>3, <1>4 DEF OnePing
<1>6. AnswerGiven'
  BY <1>2, <1>3, <1>4 DEF AnswerGiven
<1>7. MuteIsSilent'
  BY DEF Inv, MuteIsSilent, TypeOK, Ping
<1>8. OnlineAnswered'
  BY DEF Inv, TypeOK, OnlineAnswered, Ping
<1>9. QED
  BY <1>5, <1>6, <1>7, <1>8 DEF Inv

\* A ping that ends, answered or failed, leaves only stale messages behind.
LEMMA PingEndKeepsInv ==
    ASSUME Inv, TypeOK',
           PingFails \/ \E t \in Targets : PingAnswered(t)
    PROVE  Inv'
<1>1. pinging \in Targets /\ verdict = "none" /\ net \in SUBSET Message
  BY DEF Inv, TypeOK, PingFails, PingAnswered
<1>2. \A m \in net' : m.stale
  <2>1. PICK messages \in SUBSET net : net' = Aged(pinging, messages)
    BY DEF PingFails, PingAnswered
  <2>2. QED
    BY <1>1, <2>1, AgedMessages DEF Inv, OnePing, TypeOK, Message
<1>3. verdict' = "answered" => replied[pinging] /\ ~mute[pinging]
  <2>1. CASE PingFails
    BY <2>1 DEF PingFails
  <2>2. ASSUME NEW t \in Targets, PingAnswered(t)
        PROVE  replied[pinging] /\ ~mute[pinging]
    BY <2>2 DEF PingAnswered, Answer, Inv, AnswerGiven
  <2>3. QED
    BY <2>1, <2>2
<1>4. UNCHANGED <<status, pinging, silent, history>>
  BY DEF PingFails, PingAnswered
<1>5. QED
  BY <1>2, <1>3, <1>4
  DEF Inv, OnePing, AnswerGiven, MuteIsSilent, OnlineAnswered, history

\* The verdict is applied: online if the ping was answered.
LEMMA ApplyKeepsInv ==
    ASSUME Inv, Apply, TypeOK'
    PROVE  Inv'
<1>1. \A m \in net : m.stale
  BY DEF Inv, TypeOK, OnePing, Apply, Message
<1>2. OnlineAnswered'
  BY DEF Inv, TypeOK, AnswerGiven, OnlineAnswered, Apply, Judged, history
<1>3. QED
  BY <1>1, <1>2 DEF Inv, OnePing, AnswerGiven, MuteIsSilent, Apply, history

\* A station answers only while its operator has not let it fall silent.
LEMMA StationKeepsInv ==
    ASSUME Inv, TypeOK',
           \/ \E g \in Stations : SetSilentDrop(g)
           \/ \E m \in net : handleOptions(m)
    PROVE  Inv'
<1>1. ASSUME NEW g \in Stations, SetSilentDrop(g) PROVE Inv'
  <2>1. MuteIsSilent'
    BY <1>1 DEF Inv, TypeOK, MuteIsSilent, SetSilentDrop
  <2>2. \A t \in Targets : mute'[t] => mute[t]
    BY <1>1 DEF SetSilentDrop
  <2>3. OnePing' /\ AnswerGiven' /\ OnlineAnswered'
    BY <1>1, <2>2
    DEF Inv, TypeOK, OnePing, AnswerGiven, OnlineAnswered, SetSilentDrop, loop, Message
  <2>4. QED
    BY <2>1, <2>3 DEF Inv
<1>2. ASSUME NEW m \in net, handleOptions(m) PROVE Inv'
  <2> DEFINE answer == [m EXCEPT !.kind = "OK"]
  <2>1. m \in Message /\ answer.to = m.to /\ answer.stale = m.stale
    BY DEF Inv, TypeOK, Message
  <2>2. \A t \in Targets : replied[t] => replied'[t]
    BY <1>2, <2>1 DEF Inv, TypeOK, handleOptions, Message
  <2>3. \A o \in net' : o \in net \/ (o = answer /\ ~silent[Home[m.to]])
    BY <1>2 DEF handleOptions
  <2>4. ~silent[Home[m.to]] => ~mute[m.to] /\ (~m.stale => replied'[m.to])
    BY <1>2, <2>1 DEF Inv, TypeOK, MuteIsSilent, handleOptions, Message
  <2>5. UNCHANGED <<status, loop, silent, mute>>
    BY <1>2 DEF handleOptions
  <2>6. OnePing'
    BY <2>1, <2>3, <2>5 DEF Inv, OnePing, loop
  <2>7. AnswerGiven'
    <3>1. \A o \in net : o.to \in Targets
      BY DEF Inv, TypeOK, Message
    <3>2. \A o \in net' : ~o.stale /\ o.kind = "OK" => replied'[o.to] /\ ~mute'[o.to]
      BY <2>1, <2>2, <2>3, <2>4, <2>5, <3>1 DEF Inv, AnswerGiven
    <3>3. verdict' = "answered" => replied'[pinging'] /\ ~mute'[pinging']
      BY <2>2, <2>5, SupervisionAssumption
      DEF Inv, TypeOK, AnswerGiven, loop, SupervisionAssumption
    <3>4. QED
      BY <3>2, <3>3 DEF AnswerGiven
  <2>8. OnlineAnswered' /\ MuteIsSilent'
    BY <2>2, <2>5 DEF Inv, OnlineAnswered, MuteIsSilent, loop
  <2>9. QED
    BY <2>6, <2>7, <2>8 DEF Inv
<1>3. QED
  BY <1>1, <1>2

\* Every other step leaves pings, answers and what is shown alone.
LEMMA OtherStepsKeepInv ==
    ASSUME Inv, TypeOK',
           \/ supervisionLoop \/ LoopEnds \/ CloseConsole \/ Close
           \/ \E m \in net : Lose(m)
           \/ UNCHANGED vars
    PROVE  Inv'
<1>1. net' \subseteq net /\ UNCHANGED <<status, pinging, verdict, silent, history>>
  BY DEF supervisionLoop, LoopEnds, CloseConsole, Close, Lose, vars, loop
<1>2. QED
  BY <1>1 DEF Inv, OnePing, AnswerGiven, MuteIsSilent, OnlineAnswered, history

\* A target is shown online only if its station answered the ping its status comes
\* from (runSupervisionChecks of service.go), whatever is lost, late or answered for
\* another URI of the same station.
THEOREM OnlineWasAnswered == Spec => []OnlineAnswered
<1>1. Inv /\ TypeOK' /\ [Next]_vars => Inv'
  BY PingKeepsInv, PingEndKeepsInv, ApplyKeepsInv, StationKeepsInv, OtherStepsKeepInv
  DEF Next
<1>2. Inv => OnlineAnswered
  BY DEF Inv
<1>3. QED
  BY InvInit, TypeCorrect, <1>1, <1>2, PTL DEF Spec
=============================================================================
