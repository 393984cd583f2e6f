------------------------- MODULE RadioChannelProofs -------------------------
(***************************************************************************)
(* RadioChannel for any number of connections and recordings: its types,   *)
(* the inductive invariant behind its safety properties, and that it       *)
(* implements VoiceLink.                                                   *)
(***************************************************************************)
EXTENDS RadioChannel, TLAPS

\* The methods of the state machine keep it a state machine record.
LEMMA FSMTypes ==
    ASSUME NEW f \in ChannelFSM
    PROVE  /\ NewChannelFSM \in ChannelFSM
           /\ TransitionToConnecting(f) \in ChannelFSM
           /\ TransitionToConnected(f) \in ChannelFSM
           /\ TransitionToDisconnected(f) \in ChannelFSM
           /\ TransitionToFault(f) \in ChannelFSM
           /\ PTTDown(f) \in ChannelFSM
           /\ PTTUp(f) \in ChannelFSM
           /\ SquelchOn(f) \in ChannelFSM
           /\ SquelchOff(f) \in ChannelFSM
  BY DEF ChannelFSM, State, NewChannelFSM, TransitionToConnecting, Cleared,
         TransitionToConnected, TransitionToDisconnected, TransitionToFault,
         PTTDown, PTTUp, Unkeyed, SquelchOn, SquelchOff

\* Opening a session or a recording within its bound gives an identifier.
LEMMA NextId ==
    ASSUME TypeOK
    PROVE  /\ nsess < MaxSessions => nsess + 1 \in Sessions /\ nsess + 1 \in 0..MaxSessions
           /\ nrec < MaxRecs => nrec + 1 \in Recs /\ nrec + 1 \in 0..MaxRecs
  BY BoundsAssumption DEF BoundsAssumption, TypeOK, Sessions, Recs, NoId

\* What a disconnect takes with it is a cleanup record, and stays one.
LEMMA CleanupTypes ==
    ASSUME TypeOK
    PROVE  /\ Handles("media") \in Cleanup
           /\ \A c \in cleanups, pc \in {"media", "bye", "tapes"} :
                [c EXCEPT !.pc = pc] \in Cleanup
  BY DEF TypeOK, Handles, Cleanup

-----------------------------------------------------------------------------
\* Type correctness of the channel (RadioChannel of service.go) in every run.
THEOREM TypeCorrect == Spec => []TypeOK
<1>1. Init => TypeOK
  <2> SUFFICES ASSUME Init PROVE TypeOK
    OBVIOUS
  <2>1. fsm \in ChannelFSM
    BY DEF Init, NewChannelFSM, ChannelFSM, State
  <2>2. nsess \in 0..MaxSessions /\ nrec \in 0..MaxRecs
    BY BoundsAssumption DEF Init, BoundsAssumption
  <2>3. QED
    BY <2>1, <2>2 DEF Init, TypeOK
<1>2. TypeOK /\ [Next]_vars => TypeOK'
  <2> SUFFICES ASSUME TypeOK, [Next]_vars PROVE TypeOK'
    OBVIOUS
  <2>1. CASE Connecting
    <3>1. CASE ConnectChannel
      BY <3>1, FSMTypes DEF TypeOK, ConnectChannel, carrier, media, recorder
    <3>2. CASE InviteFailed
      BY <3>2, FSMTypes DEF TypeOK, InviteFailed, carrier, media, recorder
    <3>3. CASE InviteAnswered
      BY <3>3, NextId DEF TypeOK, InviteAnswered, Answered, channel, carrier,
         recorder, Sessions
    <3>4. CASE ConnectAborted
      BY <3>4, FSMTypes DEF TypeOK, ConnectAborted, carrier, recorder
    <3>5. CASE ConnectEstablished
      BY <3>5, FSMTypes, NextId DEF TypeOK, ConnectEstablished, carrier, recorder
    <3>6. CASE AckFailed
      BY <3>6, FSMTypes, NextId DEF TypeOK, AckFailed, Answered, carrier, recorder
    <3>7. QED
      BY <2>1, <3>1, <3>2, <3>3, <3>4, <3>5, <3>6 DEF Connecting
  <2>2. ASSUME TakeHandles, phase' \in {"running", "stopping", "down"}
        PROVE  TypeOK'
    BY <2>2, FSMTypes, CleanupTypes
    DEF TypeOK, TakeHandles, carrier, media, recorder
  <2>3. CASE DisconnectChannel
    BY <2>2, <2>3 DEF DisconnectChannel, TypeOK
  <2>4. ASSUME NEW c \in cleanups, CloseMedia(c) PROVE TypeOK'
    BY <2>4, CleanupTypes DEF TypeOK, CloseMedia, Advance, channel, carrier, recorder
  <2>5. ASSUME NEW c \in cleanups, Hangup(c) PROVE TypeOK'
    BY <2>5, CleanupTypes DEF TypeOK, Hangup, Advance, channel, carrier, recorder
  <2>6. ASSUME NEW c \in cleanups, StopTapes(c) PROVE TypeOK'
    BY <2>6 DEF TypeOK, StopTapes, channel, carrier, media
  <2>7. ASSUME KeyDown, timers' \in SUBSET Recs PROVE TypeOK'
    BY <2>7, FSMTypes, NextId DEF TypeOK, KeyDown, carrier
  <2>8. ASSUME KeyUp, timers' \in SUBSET Recs PROVE TypeOK'
    BY <2>8, FSMTypes DEF TypeOK, KeyUp, carrier
  <2>9. CASE Keying
    <3>1. CASE StartPTT
      BY <3>1, <2>7 DEF StartPTT, TypeOK
    <3>2. CASE SendVoiceTransmission
      BY <3>2, <2>7, NextId DEF SendVoiceTransmission, KeyDown, TypeOK
    <3>3. CASE StopPTT
      BY <3>3, <2>8 DEF StopPTT, TypeOK
    <3>4. ASSUME NEW t \in Recs, VoiceTimer(t) PROVE TypeOK'
      BY <3>4, <2>8 DEF VoiceTimer, TypeOK
    <3>5. QED
      BY <2>9, <3>1, <3>2, <3>3, <3>4 DEF Keying
  <2>10. ASSUME NEW n \in Sessions, NEW squ \in BOOLEAN, handleRadioRx(n, squ)
         PROVE  TypeOK'
    <3>1. CASE OpensSquelch(squ) /\ nrec < MaxRecs /\ nrec' = nrec + 1
      BY <2>10, <3>1, FSMTypes, NextId
      DEF TypeOK, handleRadioRx, OpensSquelch, ClosesSquelch, media
    <3>2. CASE ~OpensSquelch(squ)
      BY <2>10, <3>2, FSMTypes
      DEF TypeOK, handleRadioRx, StopRxRecording, media
    <3>3. QED
      BY <2>10, <3>1, <3>2 DEF handleRadioRx, OpensSquelch, ClosesSquelch
  <2>11. ASSUME ExpireSquelch PROVE TypeOK'
    BY <2>11, FSMTypes DEF TypeOK, ExpireSquelch, StopRxRecording, media
  <2>12. CASE Receiving
    BY <2>10, <2>11, <2>12
    DEF Receiving, checkSquelchTimeouts, ChannelSnapshots, PacketsStop, TypeOK,
        channel, media, recorder
  <2>13. CASE StopWorkers
    BY <2>13 DEF TypeOK, StopWorkers, channel, carrier, media, recorder
  <2>14. CASE CloseDisconnects
    BY <2>2, <2>14 DEF CloseDisconnects
  <2>15. CASE UNCHANGED vars
    BY <2>15 DEF TypeOK, vars, channel, carrier, media, recorder
  <2>16. QED
    BY <2>1, <2>3, <2>4, <2>5, <2>6, <2>9, <2>12, <2>13, <2>14, <2>15
    DEF Next, Closing, Stopped
<1>3. QED
  BY <1>1, <1>2, PTL DEF Spec

-----------------------------------------------------------------------------
(* The inductive invariant: the safety properties with the uniqueness of   *)
(* the handles they need.                                                  *)

IInv == /\ TypeOK /\ KeyedCoherent /\ NoStrayCarrier /\ SessionsOwned
        /\ TapesRun /\ HandlesUnique /\ SquelchHasTape

\* The numbers of a state are numbers.
LEMMA FieldTypes ==
    ASSUME TypeOK
    PROVE  /\ \A c \in cleanups : /\ c.sess \in Nat /\ c.tx \in Nat /\ c.rx \in Nat
                                  /\ c.pc \in {"media", "bye", "tapes"}
           /\ rtpSession \in Nat /\ rxRecID \in Nat /\ txRecID \in Nat
           /\ nsess \in Nat /\ nrec \in Nat
           /\ \A r \in openTx \cup openRx : r \in Nat
           /\ \A n \in unacked : n \in Nat
  BY BoundsAssumption
  DEF BoundsAssumption, TypeOK, Cleanup, Sessions, Recs, NoId

\* What a disconnect hands over to its tail.
LEMMA HandlesFields ==
    /\ Handles("media").sess = rtpSession
    /\ Handles("media").tx = txRecID
    /\ Handles("media").rx = rxRecID
    /\ Handles("media").pc = "media"
  BY DEF Handles

\* The tail of a disconnect keeps its handles from one stage to the next.
LEMMA AdvanceFields ==
    ASSUME TypeOK, NEW c \in cleanups, NEW pc \in {"media", "bye", "tapes"},
           Advance(c, pc)
    PROVE  \E d \in cleanups' :
             /\ cleanups' = (cleanups \ {c}) \cup {d}
             /\ d.sess = c.sess /\ d.tx = c.tx /\ d.rx = c.rx /\ d.pc = pc
<1> DEFINE d == [c EXCEPT !.pc = pc]
<1>1. d.sess = c.sess /\ d.tx = c.tx /\ d.rx = c.rx /\ d.pc = pc
  BY DEF TypeOK, Cleanup
<1>2. cleanups' = (cleanups \ {c}) \cup {d}
  BY DEF Advance
<1>3. QED
  BY <1>1, <1>2

\* What the squelch does to the machine, field by field.
LEMMA SquelchFields ==
    ASSUME NEW f \in ChannelFSM
    PROVE  /\ SquelchOn(f).state =
                (IF f.state = "connected" THEN "receiving" ELSE f.state)
           /\ SquelchOn(f).pttActive = f.pttActive
           /\ SquelchOn(f).squActive = TRUE
           /\ SquelchOff(f).state =
                (IF f.state = "receiving" THEN "connected" ELSE f.state)
           /\ SquelchOff(f).pttActive = f.pttActive
           /\ SquelchOff(f).squActive = FALSE
  BY DEF ChannelFSM, SquelchOn, SquelchOff

\* Taking the mutex for an INVITE leaves every owned thing as it is.
LEMMA ConnectChannelInv ==
    ASSUME IInv, TypeOK', ConnectChannel
    PROVE  IInv'
<1>1. KeyedCoherent'
  BY DEF IInv, TypeOK, KeyedCoherent, NoStrayCarrier, SessionsOwned, Held, TapesRun, HandlesUnique, SquelchHasTape, ConnectChannel, CanConnect, TransitionToConnecting,
     ChannelFSM, State, Linked, OnAir, NoId, Sessions, Recs, channel, carrier, media, recorder
<1>2. NoStrayCarrier'
  BY DEF IInv, TypeOK, KeyedCoherent, NoStrayCarrier, SessionsOwned, Held, TapesRun, HandlesUnique, SquelchHasTape, ConnectChannel, CanConnect, TransitionToConnecting,
     ChannelFSM, State, Linked, OnAir, NoId, Sessions, Recs, channel, carrier, media, recorder
<1>3. SessionsOwned'
  BY DEF IInv, TypeOK, KeyedCoherent, NoStrayCarrier, SessionsOwned, Held, TapesRun, HandlesUnique, SquelchHasTape, ConnectChannel, CanConnect, TransitionToConnecting,
     ChannelFSM, State, Linked, OnAir, NoId, Sessions, Recs, channel, carrier, media, recorder
<1>4. TapesRun'
  BY DEF IInv, TypeOK, KeyedCoherent, NoStrayCarrier, SessionsOwned, Held, TapesRun, HandlesUnique, SquelchHasTape, ConnectChannel, CanConnect, TransitionToConnecting,
     ChannelFSM, State, Linked, OnAir, NoId, Sessions, Recs, channel, carrier, media, recorder
<1>5. HandlesUnique'
  BY DEF IInv, TypeOK, KeyedCoherent, NoStrayCarrier, SessionsOwned, Held, TapesRun, HandlesUnique, SquelchHasTape, ConnectChannel, CanConnect, TransitionToConnecting,
     ChannelFSM, State, Linked, OnAir, NoId, Sessions, Recs, channel, carrier, media, recorder
<1>6. SquelchHasTape'
  BY DEF IInv, TypeOK, KeyedCoherent, NoStrayCarrier, SessionsOwned, Held, TapesRun, HandlesUnique, SquelchHasTape, ConnectChannel, CanConnect, TransitionToConnecting,
     ChannelFSM, State, Linked, OnAir, NoId, Sessions, Recs, channel, carrier, media, recorder
<1>7. QED
  BY <1>1, <1>2, <1>3, <1>4, <1>5, <1>6 DEF IInv

\* A failed INVITE faults the machine, which holds no session then.
LEMMA InviteFailedInv ==
    ASSUME IInv, TypeOK', InviteFailed
    PROVE  IInv'
<1>1. KeyedCoherent'
  BY DEF IInv, TypeOK, KeyedCoherent, NoStrayCarrier, SessionsOwned, Held, TapesRun, HandlesUnique, SquelchHasTape, InviteFailed, TransitionToFault, Cleared,
     ChannelFSM, State, Linked, OnAir, NoId, Sessions, Recs, channel, carrier, media, recorder
<1>2. NoStrayCarrier'
  BY DEF IInv, TypeOK, KeyedCoherent, NoStrayCarrier, SessionsOwned, Held, TapesRun, HandlesUnique, SquelchHasTape, InviteFailed, TransitionToFault, Cleared,
     ChannelFSM, State, Linked, OnAir, NoId, Sessions, Recs, channel, carrier, media, recorder
<1>3. SessionsOwned'
  BY DEF IInv, TypeOK, KeyedCoherent, NoStrayCarrier, SessionsOwned, Held, TapesRun, HandlesUnique, SquelchHasTape, InviteFailed, TransitionToFault, Cleared,
     ChannelFSM, State, Linked, OnAir, NoId, Sessions, Recs, channel, carrier, media, recorder
<1>4. TapesRun'
  BY DEF IInv, TypeOK, KeyedCoherent, NoStrayCarrier, SessionsOwned, Held, TapesRun, HandlesUnique, SquelchHasTape, InviteFailed, TransitionToFault, Cleared,
     ChannelFSM, State, Linked, OnAir, NoId, Sessions, Recs, channel, carrier, media, recorder
<1>5. HandlesUnique'
  BY DEF IInv, TypeOK, KeyedCoherent, NoStrayCarrier, SessionsOwned, Held, TapesRun, HandlesUnique, SquelchHasTape, InviteFailed, TransitionToFault, Cleared,
     ChannelFSM, State, Linked, OnAir, NoId, Sessions, Recs, channel, carrier, media, recorder
<1>6. SquelchHasTape'
  BY DEF IInv, TypeOK, KeyedCoherent, NoStrayCarrier, SessionsOwned, Held, TapesRun, HandlesUnique, SquelchHasTape, InviteFailed, TransitionToFault, Cleared,
     ChannelFSM, State, Linked, OnAir, NoId, Sessions, Recs, channel, carrier, media, recorder
<1>7. QED
  BY <1>1, <1>2, <1>3, <1>4, <1>5, <1>6 DEF IInv

\* An answered INVITE gives the channel a new dialog and session of its own.
LEMMA InviteAnsweredInv ==
    ASSUME IInv, TypeOK', InviteAnswered
    PROVE  IInv'
<1>1. KeyedCoherent'
  BY DEF IInv, TypeOK, KeyedCoherent, NoStrayCarrier, SessionsOwned, Held, TapesRun, HandlesUnique, SquelchHasTape, InviteAnswered, Answered,
     ChannelFSM, State, Linked, OnAir, NoId, Sessions, Recs, channel, carrier, media, recorder
<1>2. NoStrayCarrier'
  BY DEF IInv, TypeOK, KeyedCoherent, NoStrayCarrier, SessionsOwned, Held, TapesRun, HandlesUnique, SquelchHasTape, InviteAnswered, Answered,
     ChannelFSM, State, Linked, OnAir, NoId, Sessions, Recs, channel, carrier, media, recorder
<1>3. SessionsOwned'
  BY DEF IInv, TypeOK, KeyedCoherent, NoStrayCarrier, SessionsOwned, Held, TapesRun, HandlesUnique, SquelchHasTape, InviteAnswered, Answered,
     ChannelFSM, State, Linked, OnAir, NoId, Sessions, Recs, channel, carrier, media, recorder
<1>4. TapesRun'
  BY DEF IInv, TypeOK, KeyedCoherent, NoStrayCarrier, SessionsOwned, Held, TapesRun, HandlesUnique, SquelchHasTape, InviteAnswered, Answered,
     ChannelFSM, State, Linked, OnAir, NoId, Sessions, Recs, channel, carrier, media, recorder
<1>5. HandlesUnique'
  <2>1. nsess' = nsess + 1 /\ nsess' \in Nat
    BY FieldTypes DEF InviteAnswered, Answered, IInv
  <2>2. UNCHANGED <<cleanups, rtpSession, rxRecID, txRecID, nrec, openTx, openRx, fsm, unacked>>
    BY DEF InviteAnswered, channel, recorder
  <2>3. \A c \in cleanups : c.sess # nsess + 1 /\ c.sess <= nsess + 1
    BY FieldTypes DEF IInv, HandlesUnique
  <2>4. rtpSession <= nsess'
    BY <2>1, FieldTypes DEF IInv, HandlesUnique
  <2>5. (conn # "idle" <=> fsm.state = "connecting")'
    BY <2>2 DEF IInv, HandlesUnique, InviteAnswered, Answered
  <2>6. \A n \in unacked : n <= nsess + 1 /\ n # nsess + 1
    BY FieldTypes DEF IInv, HandlesUnique
  <2>7. \A n \in unacked : n <= nsess' /\ ~Held(n)'
    BY <2>1, <2>2, <2>6 DEF IInv, HandlesUnique, Held
  <2>8. QED
    BY <2>1, <2>2, <2>3, <2>4, <2>5, <2>7 DEF IInv, HandlesUnique
<1>6. SquelchHasTape'
  BY DEF IInv, TypeOK, KeyedCoherent, NoStrayCarrier, SessionsOwned, Held, TapesRun, HandlesUnique, SquelchHasTape, InviteAnswered, Answered,
     ChannelFSM, State, Linked, OnAir, NoId, Sessions, Recs, channel, carrier, media, recorder
<1>7. QED
  BY <1>1, <1>2, <1>3, <1>4, <1>5, <1>6 DEF IInv

\* A dialog whose ACK failed is a new one, and nobody gets it.
LEMMA AckFailedInv ==
    ASSUME IInv, TypeOK', AckFailed
    PROVE  IInv'
<1>1. /\ nsess' = nsess + 1 /\ nsess' \in Nat
      /\ dialogs' = dialogs \cup {nsess + 1} /\ unacked' = unacked \cup {nsess + 1}
      /\ UNCHANGED <<cleanups, rtpSession, rxRecID, txRecID, nrec, openTx, openRx, live, tx>>
      /\ conn = "inviting" /\ conn' = "idle" /\ fsm' = TransitionToFault(fsm)
  BY FieldTypes DEF AckFailed, Answered, IInv, recorder
<1>2. fsm.state = "connecting" /\ fsm'.state = "fault" /\ ~fsm.pttActive /\ ~fsm'.pttActive
  BY <1>1 DEF IInv, HandlesUnique, KeyedCoherent, TransitionToFault, Cleared
<1>3. ~Linked /\ ~Linked' /\ rtpSession = NoId
  BY <1>2 DEF Linked, IInv, SessionsOwned
<1>4. nsess + 1 # NoId /\ \A n : Held(n)' <=> Held(n)
  BY <1>1, FieldTypes DEF Held, IInv, NoId
<1>5. \A c \in cleanups : c.sess # nsess + 1 /\ c.sess <= nsess + 1
  BY FieldTypes DEF IInv, HandlesUnique
<1>6. ~Held(nsess + 1)
  BY <1>1, <1>3, <1>4, <1>5 DEF Held
<1>7. KeyedCoherent'
  BY <1>1, <1>2 DEF IInv, KeyedCoherent, OnAir
<1>8. NoStrayCarrier'
  BY <1>1, <1>2 DEF IInv, NoStrayCarrier
<1>9. SessionsOwned'
  BY <1>1, <1>3, <1>4 DEF IInv, SessionsOwned
<1>10. TapesRun'
  BY <1>1, <1>2 DEF IInv, TapesRun
<1>11. HandlesUnique'
  <2>1. rtpSession <= nsess'
    BY <1>1, FieldTypes DEF IInv, HandlesUnique
  <2>2. \A n \in unacked' : n <= nsess' /\ ~Held(n)'
    BY <1>1, <1>4, <1>6, FieldTypes DEF IInv, HandlesUnique
  <2>3. \A c \in cleanups' : c.sess \notin unacked'
    BY <1>1, <1>5 DEF IInv, HandlesUnique
  <2>4. QED
    BY <1>1, <1>2, <1>5, <2>1, <2>2, <2>3 DEF IInv, HandlesUnique
<1>12. SquelchHasTape'
  BY <1>3 DEF SquelchHasTape
<1>13. QED
  BY <1>7, <1>8, <1>9, <1>10, <1>11, <1>12 DEF IInv

\* A call whose media cannot be set up is ended and nothing of it stays.
LEMMA ConnectAbortedInv ==
    ASSUME IInv, TypeOK', ConnectAborted
    PROVE  IInv'
<1>1. KeyedCoherent'
  BY DEF IInv, TypeOK, KeyedCoherent, NoStrayCarrier, SessionsOwned, Held, TapesRun, HandlesUnique, SquelchHasTape, ConnectAborted, TransitionToFault, Cleared,
     ChannelFSM, State, Linked, OnAir, NoId, Sessions, Recs, channel, carrier, media, recorder
<1>2. NoStrayCarrier'
  BY DEF IInv, TypeOK, KeyedCoherent, NoStrayCarrier, SessionsOwned, Held, TapesRun, HandlesUnique, SquelchHasTape, ConnectAborted, TransitionToFault, Cleared,
     ChannelFSM, State, Linked, OnAir, NoId, Sessions, Recs, channel, carrier, media, recorder
<1>3. SessionsOwned'
  BY DEF IInv, TypeOK, KeyedCoherent, NoStrayCarrier, SessionsOwned, Held, TapesRun, HandlesUnique, SquelchHasTape, ConnectAborted, TransitionToFault, Cleared,
     ChannelFSM, State, Linked, OnAir, NoId, Sessions, Recs, channel, carrier, media, recorder
<1>4. TapesRun'
  BY DEF IInv, TypeOK, KeyedCoherent, NoStrayCarrier, SessionsOwned, Held, TapesRun, HandlesUnique, SquelchHasTape, ConnectAborted, TransitionToFault, Cleared,
     ChannelFSM, State, Linked, OnAir, NoId, Sessions, Recs, channel, carrier, media, recorder
<1>5. HandlesUnique'
  BY DEF IInv, TypeOK, KeyedCoherent, NoStrayCarrier, SessionsOwned, Held, TapesRun, HandlesUnique, SquelchHasTape, ConnectAborted, TransitionToFault, Cleared,
     ChannelFSM, State, Linked, OnAir, NoId, Sessions, Recs, channel, carrier, media, recorder
<1>6. SquelchHasTape'
  BY DEF IInv, TypeOK, KeyedCoherent, NoStrayCarrier, SessionsOwned, Held, TapesRun, HandlesUnique, SquelchHasTape, ConnectAborted, TransitionToFault, Cleared,
     ChannelFSM, State, Linked, OnAir, NoId, Sessions, Recs, channel, carrier, media, recorder
<1>7. QED
  BY <1>1, <1>2, <1>3, <1>4, <1>5, <1>6 DEF IInv

\* The last step of a connect shows the session it has opened.
LEMMA ConnectEstablishedInv ==
    ASSUME IInv, TypeOK', ConnectEstablished
    PROVE  IInv'
<1>1. KeyedCoherent'
  BY DEF IInv, TypeOK, KeyedCoherent, NoStrayCarrier, SessionsOwned, Held, TapesRun, HandlesUnique, SquelchHasTape, ConnectEstablished, TransitionToConnected, Cleared,
     ChannelFSM, State, Linked, OnAir, NoId, Sessions, Recs, channel, carrier, media, recorder
<1>2. NoStrayCarrier'
  BY DEF IInv, TypeOK, KeyedCoherent, NoStrayCarrier, SessionsOwned, Held, TapesRun, HandlesUnique, SquelchHasTape, ConnectEstablished, TransitionToConnected, Cleared,
     ChannelFSM, State, Linked, OnAir, NoId, Sessions, Recs, channel, carrier, media, recorder
<1>3. SessionsOwned'
  BY DEF IInv, TypeOK, KeyedCoherent, NoStrayCarrier, SessionsOwned, Held, TapesRun, HandlesUnique, SquelchHasTape, ConnectEstablished, TransitionToConnected, Cleared,
     ChannelFSM, State, Linked, OnAir, NoId, Sessions, Recs, channel, carrier, media, recorder
<1>4. TapesRun'
  BY DEF IInv, TypeOK, KeyedCoherent, NoStrayCarrier, SessionsOwned, Held, TapesRun, HandlesUnique, SquelchHasTape, ConnectEstablished, TransitionToConnected, Cleared,
     ChannelFSM, State, Linked, OnAir, NoId, Sessions, Recs, channel, carrier, media, recorder
<1>5. HandlesUnique'
  BY DEF IInv, TypeOK, KeyedCoherent, NoStrayCarrier, SessionsOwned, Held, TapesRun, HandlesUnique, SquelchHasTape, ConnectEstablished, TransitionToConnected, Cleared,
     ChannelFSM, State, Linked, OnAir, NoId, Sessions, Recs, channel, carrier, media, recorder
<1>6. SquelchHasTape'
  BY DEF IInv, TypeOK, KeyedCoherent, NoStrayCarrier, SessionsOwned, Held, TapesRun, HandlesUnique, SquelchHasTape, ConnectEstablished, TransitionToConnected, Cleared,
     ChannelFSM, State, Linked, OnAir, NoId, Sessions, Recs, channel, carrier, media, recorder
<1>7. QED
  BY <1>1, <1>2, <1>3, <1>4, <1>5, <1>6 DEF IInv

\* DisconnectChannel and Close hand what the channel held to a disconnect.
LEMMA TakeHandlesInv ==
    ASSUME IInv, TypeOK', TakeHandles, Unlocked
    PROVE  IInv'
<1>1. KeyedCoherent'
  BY DEF IInv, TypeOK, KeyedCoherent, NoStrayCarrier, SessionsOwned, Held, TapesRun, HandlesUnique, SquelchHasTape, TakeHandles, Unlocked, Handles, TransitionToDisconnected, Cleared,
     ChannelFSM, State, Linked, OnAir, NoId, Sessions, Recs, channel, carrier, media, recorder
<1>2. NoStrayCarrier'
  <2>1. CASE cleanups' = cleanups /\ rtpSession = NoId /\ txRecID = NoId /\ rxRecID = NoId
    BY <2>1 DEF IInv, TypeOK, KeyedCoherent, NoStrayCarrier, SessionsOwned, Held,
       TapesRun, HandlesUnique, TakeHandles, Unlocked, TransitionToDisconnected,
       Cleared, Linked, OnAir, NoId, Sessions, Recs, carrier, media, recorder
  <2>2. CASE cleanups' = cleanups \cup {Handles("media")}
    BY <2>2, HandlesFields DEF IInv, TypeOK, KeyedCoherent, NoStrayCarrier,
       SessionsOwned, Held, TapesRun, HandlesUnique, TakeHandles, Unlocked,
       TransitionToDisconnected, Cleared, Linked, OnAir, NoId, Sessions, Recs,
       carrier, media, recorder
  <2>3. QED
    BY <2>1, <2>2 DEF TakeHandles
<1>3. SessionsOwned'
  <2>1. CASE cleanups' = cleanups /\ rtpSession = NoId /\ txRecID = NoId /\ rxRecID = NoId
    BY <2>1 DEF IInv, TypeOK, KeyedCoherent, NoStrayCarrier, SessionsOwned, Held,
       TapesRun, HandlesUnique, TakeHandles, Unlocked, TransitionToDisconnected,
       Cleared, Linked, OnAir, NoId, Sessions, Recs, carrier, media, recorder
  <2>2. CASE cleanups' = cleanups \cup {Handles("media")}
    BY <2>2, HandlesFields DEF IInv, TypeOK, KeyedCoherent, NoStrayCarrier,
       SessionsOwned, Held, TapesRun, HandlesUnique, TakeHandles, Unlocked,
       TransitionToDisconnected, Cleared, Linked, OnAir, NoId, Sessions, Recs,
       carrier, media, recorder
  <2>3. QED
    BY <2>1, <2>2 DEF TakeHandles
<1>4. TapesRun'
  <2>1. CASE cleanups' = cleanups /\ rtpSession = NoId /\ txRecID = NoId /\ rxRecID = NoId
    BY <2>1 DEF IInv, TypeOK, KeyedCoherent, NoStrayCarrier, SessionsOwned, Held,
       TapesRun, HandlesUnique, TakeHandles, Unlocked, TransitionToDisconnected,
       Cleared, Linked, OnAir, NoId, Sessions, Recs, carrier, media, recorder
  <2>2. CASE cleanups' = cleanups \cup {Handles("media")}
    BY <2>2, HandlesFields DEF IInv, TypeOK, KeyedCoherent, NoStrayCarrier,
       SessionsOwned, Held, TapesRun, HandlesUnique, TakeHandles, Unlocked,
       TransitionToDisconnected, Cleared, Linked, OnAir, NoId, Sessions, Recs,
       carrier, media, recorder
  <2>3. QED
    BY <2>1, <2>2 DEF TakeHandles
<1>5. HandlesUnique'
  BY DEF IInv, TypeOK, KeyedCoherent, NoStrayCarrier, SessionsOwned, Held, TapesRun, HandlesUnique, SquelchHasTape, TakeHandles, Unlocked, Handles, TransitionToDisconnected, Cleared,
     ChannelFSM, State, Linked, OnAir, NoId, Sessions, Recs, channel, carrier, media, recorder
<1>6. SquelchHasTape'
  BY DEF IInv, TypeOK, KeyedCoherent, NoStrayCarrier, SessionsOwned, Held, TapesRun, HandlesUnique, SquelchHasTape, TakeHandles, Unlocked, Handles, TransitionToDisconnected, Cleared,
     ChannelFSM, State, Linked, OnAir, NoId, Sessions, Recs, channel, carrier, media, recorder
<1>7. QED
  BY <1>1, <1>2, <1>3, <1>4, <1>5, <1>6 DEF IInv

\* A disconnect past the unlock closes the session it took, and no other.
LEMMA CloseMediaInv ==
    ASSUME IInv, TypeOK', NEW c \in cleanups, CloseMedia(c)
    PROVE  IInv'
<1>1. KeyedCoherent'
  BY DEF IInv, TypeOK, KeyedCoherent, NoStrayCarrier, SessionsOwned, Held, TapesRun, HandlesUnique, SquelchHasTape, CloseMedia, Advance, Cleanup,
     ChannelFSM, State, Linked, OnAir, NoId, Sessions, Recs, channel, carrier, media, recorder
<1>2. NoStrayCarrier'
  BY DEF IInv, TypeOK, KeyedCoherent, NoStrayCarrier, SessionsOwned, Held, TapesRun, HandlesUnique, SquelchHasTape, CloseMedia, Advance, Cleanup,
     ChannelFSM, State, Linked, OnAir, NoId, Sessions, Recs, channel, carrier, media, recorder
<1>3. SessionsOwned'
  <2>1. PICK d \in cleanups' :
          /\ cleanups' = (cleanups \ {c}) \cup {d}
          /\ d.sess = c.sess /\ d.tx = c.tx /\ d.rx = c.rx /\ d.pc = "bye"
    BY AdvanceFields DEF CloseMedia, IInv
  <2>2. QED
    BY <2>1 DEF IInv, TypeOK, SessionsOwned, Held, TapesRun, HandlesUnique, CloseMedia,
       Linked, NoId, Sessions, Recs, channel, carrier, recorder
<1>4. TapesRun'
  <2>1. PICK d \in cleanups' :
          /\ cleanups' = (cleanups \ {c}) \cup {d}
          /\ d.sess = c.sess /\ d.tx = c.tx /\ d.rx = c.rx /\ d.pc = "bye"
    BY AdvanceFields DEF CloseMedia, IInv
  <2>2. QED
    BY <2>1 DEF IInv, TypeOK, SessionsOwned, Held, TapesRun, HandlesUnique, CloseMedia,
       Linked, NoId, Sessions, Recs, channel, carrier, recorder
<1>5. HandlesUnique'
  BY DEF IInv, TypeOK, KeyedCoherent, NoStrayCarrier, SessionsOwned, Held, TapesRun, HandlesUnique, SquelchHasTape, CloseMedia, Advance, Cleanup,
     ChannelFSM, State, Linked, OnAir, NoId, Sessions, Recs, channel, carrier, media, recorder
<1>6. SquelchHasTape'
  BY DEF IInv, TypeOK, KeyedCoherent, NoStrayCarrier, SessionsOwned, Held, TapesRun, HandlesUnique, SquelchHasTape, CloseMedia, Advance, Cleanup,
     ChannelFSM, State, Linked, OnAir, NoId, Sessions, Recs, channel, carrier, media, recorder
<1>7. QED
  BY <1>1, <1>2, <1>3, <1>4, <1>5, <1>6 DEF IInv

\* A disconnect past the unlock ends the dialog it took, and no other.
LEMMA HangupInv ==
    ASSUME IInv, TypeOK', NEW c \in cleanups, Hangup(c)
    PROVE  IInv'
<1>1. KeyedCoherent'
  BY DEF IInv, TypeOK, KeyedCoherent, NoStrayCarrier, SessionsOwned, Held, TapesRun, HandlesUnique, SquelchHasTape, Hangup, Advance, Cleanup,
     ChannelFSM, State, Linked, OnAir, NoId, Sessions, Recs, channel, carrier, media, recorder
<1>2. NoStrayCarrier'
  BY DEF IInv, TypeOK, KeyedCoherent, NoStrayCarrier, SessionsOwned, Held, TapesRun, HandlesUnique, SquelchHasTape, Hangup, Advance, Cleanup,
     ChannelFSM, State, Linked, OnAir, NoId, Sessions, Recs, channel, carrier, media, recorder
<1>3. SessionsOwned'
  BY DEF IInv, TypeOK, KeyedCoherent, NoStrayCarrier, SessionsOwned, Held, TapesRun, HandlesUnique, SquelchHasTape, Hangup, Advance, Cleanup,
     ChannelFSM, State, Linked, OnAir, NoId, Sessions, Recs, channel, carrier, media, recorder
<1>4. TapesRun'
  <2>1. PICK d \in cleanups' :
          /\ cleanups' = (cleanups \ {c}) \cup {d}
          /\ d.sess = c.sess /\ d.tx = c.tx /\ d.rx = c.rx /\ d.pc = "tapes"
    BY AdvanceFields DEF Hangup, IInv
  <2>2. QED
    BY <2>1 DEF IInv, TypeOK, SessionsOwned, Held, TapesRun, HandlesUnique, Hangup,
       Linked, NoId, Sessions, Recs, channel, carrier, recorder
<1>5. HandlesUnique'
  BY DEF IInv, TypeOK, KeyedCoherent, NoStrayCarrier, SessionsOwned, Held, TapesRun, HandlesUnique, SquelchHasTape, Hangup, Advance, Cleanup,
     ChannelFSM, State, Linked, OnAir, NoId, Sessions, Recs, channel, carrier, media, recorder
<1>6. SquelchHasTape'
  BY DEF IInv, TypeOK, KeyedCoherent, NoStrayCarrier, SessionsOwned, Held, TapesRun, HandlesUnique, SquelchHasTape, Hangup, Advance, Cleanup,
     ChannelFSM, State, Linked, OnAir, NoId, Sessions, Recs, channel, carrier, media, recorder
<1>7. QED
  BY <1>1, <1>2, <1>3, <1>4, <1>5, <1>6 DEF IInv

\* A disconnect past the unlock saves the recordings it took, and no others.
LEMMA StopTapesInv ==
    ASSUME IInv, TypeOK', NEW c \in cleanups, StopTapes(c)
    PROVE  IInv'
<1>1. KeyedCoherent'
  BY DEF IInv, TypeOK, KeyedCoherent, NoStrayCarrier, SessionsOwned, Held, TapesRun, HandlesUnique, SquelchHasTape, StopTapes, Cleanup,
     ChannelFSM, State, Linked, OnAir, NoId, Sessions, Recs, channel, carrier, media, recorder
<1>2. NoStrayCarrier'
  BY DEF IInv, TypeOK, KeyedCoherent, NoStrayCarrier, SessionsOwned, Held, TapesRun, HandlesUnique, SquelchHasTape, StopTapes, Cleanup,
     ChannelFSM, State, Linked, OnAir, NoId, Sessions, Recs, channel, carrier, media, recorder
<1>3. SessionsOwned'
  BY DEF IInv, TypeOK, KeyedCoherent, NoStrayCarrier, SessionsOwned, Held, TapesRun, HandlesUnique, SquelchHasTape, StopTapes, Cleanup,
     ChannelFSM, State, Linked, OnAir, NoId, Sessions, Recs, channel, carrier, media, recorder
<1>4. TapesRun'
  BY DEF IInv, TypeOK, KeyedCoherent, NoStrayCarrier, SessionsOwned, Held, TapesRun, HandlesUnique, SquelchHasTape, StopTapes, Cleanup,
     ChannelFSM, State, Linked, OnAir, NoId, Sessions, Recs, channel, carrier, media, recorder
<1>5. HandlesUnique'
  BY DEF IInv, TypeOK, KeyedCoherent, NoStrayCarrier, SessionsOwned, Held, TapesRun, HandlesUnique, SquelchHasTape, StopTapes, Cleanup,
     ChannelFSM, State, Linked, OnAir, NoId, Sessions, Recs, channel, carrier, media, recorder
<1>6. SquelchHasTape'
  BY DEF IInv, TypeOK, KeyedCoherent, NoStrayCarrier, SessionsOwned, Held, TapesRun, HandlesUnique, SquelchHasTape, StopTapes, Cleanup,
     ChannelFSM, State, Linked, OnAir, NoId, Sessions, Recs, channel, carrier, media, recorder
<1>7. QED
  BY <1>1, <1>2, <1>3, <1>4, <1>5, <1>6 DEF IInv

\* StartPTT sets flag, session and recording together or not at all.
LEMMA KeyDownInv ==
    ASSUME IInv, TypeOK', KeyDown
    PROVE  IInv'
<1>1. KeyedCoherent'
  BY DEF IInv, TypeOK, KeyedCoherent, NoStrayCarrier, SessionsOwned, Held, TapesRun, HandlesUnique, SquelchHasTape, KeyDown, Unlocked, CanKey, PTTDown,
     ChannelFSM, State, Linked, OnAir, NoId, Sessions, Recs, channel, carrier, media, recorder
<1>2. NoStrayCarrier'
  BY DEF IInv, TypeOK, KeyedCoherent, NoStrayCarrier, SessionsOwned, Held, TapesRun, HandlesUnique, SquelchHasTape, KeyDown, Unlocked, CanKey, PTTDown,
     ChannelFSM, State, Linked, OnAir, NoId, Sessions, Recs, channel, carrier, media, recorder
<1>3. SessionsOwned'
  BY DEF IInv, TypeOK, KeyedCoherent, NoStrayCarrier, SessionsOwned, Held, TapesRun, HandlesUnique, SquelchHasTape, KeyDown, Unlocked, CanKey, PTTDown,
     ChannelFSM, State, Linked, OnAir, NoId, Sessions, Recs, channel, carrier, media, recorder
<1>4. TapesRun'
  BY DEF IInv, TypeOK, KeyedCoherent, NoStrayCarrier, SessionsOwned, Held, TapesRun, HandlesUnique, SquelchHasTape, KeyDown, Unlocked, CanKey, PTTDown,
     ChannelFSM, State, Linked, OnAir, NoId, Sessions, Recs, channel, carrier, media, recorder
<1>5. HandlesUnique'
  <2>1. nrec' = nrec + 1 /\ nrec' \in Nat /\ txRecID' = nrec'
    BY FieldTypes DEF KeyDown, IInv
  <2>2. UNCHANGED <<cleanups, rtpSession, rxRecID, nsess, unacked, openRx, conn>>
    BY DEF KeyDown
  <2>3. \A c \in cleanups : c.tx # nrec + 1 /\ c.tx <= nrec + 1 /\ c.rx <= nrec + 1
    BY FieldTypes DEF IInv, HandlesUnique
  <2>4. rxRecID <= nrec' /\ \A r \in (openTx \cup openRx)' : r <= nrec'
    BY <2>1, FieldTypes DEF IInv, HandlesUnique, KeyDown
  <2>5. (conn # "idle" <=> fsm.state = "connecting")'
    BY DEF IInv, TypeOK, HandlesUnique, KeyDown, Unlocked, PTTDown, ChannelFSM, CanKey
  <2>6. txRecID' <= nrec'
    BY <2>1
  <2>7. QED
    BY <2>1, <2>2, <2>3, <2>4, <2>5, <2>6 DEF IInv, HandlesUnique, Held
<1>6. SquelchHasTape'
  BY DEF IInv, TypeOK, KeyedCoherent, NoStrayCarrier, SessionsOwned, Held, TapesRun, HandlesUnique, SquelchHasTape, KeyDown, Unlocked, CanKey, PTTDown,
     ChannelFSM, State, Linked, OnAir, NoId, Sessions, Recs, channel, carrier, media, recorder
<1>7. QED
  BY <1>1, <1>2, <1>3, <1>4, <1>5, <1>6 DEF IInv

\* StopPTT clears flag, session and recording together.
LEMMA KeyUpInv ==
    ASSUME IInv, TypeOK', KeyUp
    PROVE  IInv'
<1>1. KeyedCoherent'
  BY DEF IInv, TypeOK, KeyedCoherent, NoStrayCarrier, SessionsOwned, Held, TapesRun, HandlesUnique, SquelchHasTape, KeyUp, Unlocked, PTTUp, Unkeyed,
     ChannelFSM, State, Linked, OnAir, NoId, Sessions, Recs, channel, carrier, media, recorder
<1>2. NoStrayCarrier'
  BY DEF IInv, TypeOK, KeyedCoherent, NoStrayCarrier, SessionsOwned, Held, TapesRun, HandlesUnique, SquelchHasTape, KeyUp, Unlocked, PTTUp, Unkeyed,
     ChannelFSM, State, Linked, OnAir, NoId, Sessions, Recs, channel, carrier, media, recorder
<1>3. SessionsOwned'
  BY DEF IInv, TypeOK, KeyedCoherent, NoStrayCarrier, SessionsOwned, Held, TapesRun, HandlesUnique, SquelchHasTape, KeyUp, Unlocked, PTTUp, Unkeyed,
     ChannelFSM, State, Linked, OnAir, NoId, Sessions, Recs, channel, carrier, media, recorder
<1>4. TapesRun'
  BY DEF IInv, TypeOK, KeyedCoherent, NoStrayCarrier, SessionsOwned, Held, TapesRun, HandlesUnique, SquelchHasTape, KeyUp, Unlocked, PTTUp, Unkeyed,
     ChannelFSM, State, Linked, OnAir, NoId, Sessions, Recs, channel, carrier, media, recorder
<1>5. HandlesUnique'
  BY DEF IInv, TypeOK, KeyedCoherent, NoStrayCarrier, SessionsOwned, Held, TapesRun, HandlesUnique, SquelchHasTape, KeyUp, Unlocked, PTTUp, Unkeyed,
     ChannelFSM, State, Linked, OnAir, NoId, Sessions, Recs, channel, carrier, media, recorder
<1>6. SquelchHasTape'
  BY DEF IInv, TypeOK, KeyedCoherent, NoStrayCarrier, SessionsOwned, Held, TapesRun, HandlesUnique, SquelchHasTape, KeyUp, Unlocked, PTTUp, Unkeyed,
     ChannelFSM, State, Linked, OnAir, NoId, Sessions, Recs, channel, carrier, media, recorder
<1>7. QED
  BY <1>1, <1>2, <1>3, <1>4, <1>5, <1>6 DEF IInv

\* A packet opens or appends to a receive recording, never a transmit one.
LEMMA handleRadioRxInv ==
    ASSUME IInv, TypeOK', NEW n \in Sessions, NEW squ \in BOOLEAN, handleRadioRx(n, squ)
    PROVE  IInv'
<1>1. KeyedCoherent'
  BY SquelchFields DEF IInv, TypeOK, KeyedCoherent, handleRadioRx, OpensSquelch,
     ClosesSquelch, OnAir, media
<1>2. NoStrayCarrier'
  BY DEF IInv, TypeOK, KeyedCoherent, NoStrayCarrier, SessionsOwned, Held, TapesRun, HandlesUnique, SquelchHasTape, handleRadioRx, Unlocked, OpensSquelch, ClosesSquelch, SquelchOn, SquelchOff, StopRxRecording,
     ChannelFSM, State, Linked, OnAir, NoId, Sessions, Recs, channel, carrier, media, recorder
<1>3. SessionsOwned'
  <2>1. UNCHANGED <<rtpSession, live, dialogs, unacked, cleanups, conn, nsess>>
    BY DEF handleRadioRx, media
  <2>2. Linked' <=> Linked
    BY SquelchFields DEF IInv, TypeOK, handleRadioRx, OpensSquelch, ClosesSquelch, Linked
  <2>3. QED
    BY <2>1, <2>2 DEF IInv, SessionsOwned, Held
<1>4. TapesRun'
  <2>1. CASE OpensSquelch(squ)
    BY <2>1, FieldTypes DEF IInv, TypeOK, KeyedCoherent, SessionsOwned, Held, TapesRun, HandlesUnique,
       SquelchHasTape, handleRadioRx, Unlocked, OpensSquelch, ClosesSquelch,
       SquelchOn, SquelchOff, StopRxRecording, ChannelFSM, State, Linked, OnAir,
       NoId, Sessions, Recs, media
  <2>2. CASE ClosesSquelch(squ)
    BY <2>2, FieldTypes DEF IInv, TypeOK, KeyedCoherent, SessionsOwned, Held, TapesRun, HandlesUnique,
       SquelchHasTape, handleRadioRx, Unlocked, OpensSquelch, ClosesSquelch,
       SquelchOn, SquelchOff, StopRxRecording, ChannelFSM, State, Linked, OnAir,
       NoId, Sessions, Recs, media
  <2>3. CASE ~OpensSquelch(squ) /\ ~ClosesSquelch(squ)
    BY <2>3, FieldTypes DEF IInv, TypeOK, KeyedCoherent, SessionsOwned, Held, TapesRun, HandlesUnique,
       SquelchHasTape, handleRadioRx, Unlocked, OpensSquelch, ClosesSquelch,
       SquelchOn, SquelchOff, StopRxRecording, ChannelFSM, State, Linked, OnAir,
       NoId, Sessions, Recs, media
  <2>4. QED
    BY <2>1, <2>2, <2>3
<1>5. HandlesUnique'
  <2>1. (conn # "idle" <=> fsm.state = "connecting")'
    BY SquelchFields DEF IInv, TypeOK, HandlesUnique, handleRadioRx,
       OpensSquelch, ClosesSquelch, Unlocked
  <2>2. UNCHANGED <<conn, nsess, unacked, cleanups, rtpSession, txRecID, openTx>>
    BY DEF handleRadioRx, media
  <2>3. CASE nrec' = nrec + 1 /\ rxRecID' = nrec + 1 /\ openRx' = openRx \cup {nrec + 1}
    <3>1. \A c \in cleanups : c.rx # nrec + 1 /\ c.tx <= nrec + 1 /\ c.rx <= nrec + 1
      BY FieldTypes DEF IInv, HandlesUnique
    <3>2. /\ rxRecID' <= nrec' /\ txRecID <= nrec'
          /\ \A r \in openTx \cup openRx' : r <= nrec'
      BY <2>3, FieldTypes DEF IInv, HandlesUnique
    <3>3. QED
      BY <2>1, <2>2, <2>3, <3>1, <3>2 DEF IInv, HandlesUnique, Held, Unlocked, handleRadioRx
  <2>4. CASE nrec' = nrec /\ rxRecID' \in {rxRecID, NoId} /\ openRx' \subseteq openRx
    <3>1. /\ rxRecID' <= nrec'
          /\ \A r \in openTx \cup openRx' : r <= nrec'
      BY <2>4, FieldTypes DEF IInv, HandlesUnique, NoId
    <3>2. \A c \in cleanups : c.rx # NoId => c.rx # rxRecID'
      BY <2>4 DEF IInv, HandlesUnique
    <3>3. QED
      BY <2>1, <2>2, <2>4, <3>1, <3>2 DEF IInv, HandlesUnique, Held, Unlocked, handleRadioRx
  <2>5. QED
    BY <2>3, <2>4 DEF handleRadioRx, StopRxRecording
<1>6. SquelchHasTape'
  <2>1. CASE OpensSquelch(squ)
    BY <2>1, FieldTypes DEF IInv, TypeOK, KeyedCoherent, SessionsOwned, Held, TapesRun, HandlesUnique,
       SquelchHasTape, handleRadioRx, Unlocked, OpensSquelch, ClosesSquelch,
       SquelchOn, SquelchOff, StopRxRecording, ChannelFSM, State, Linked, OnAir,
       NoId, Sessions, Recs, media
  <2>2. CASE ClosesSquelch(squ)
    BY <2>2, FieldTypes DEF IInv, TypeOK, KeyedCoherent, SessionsOwned, Held, TapesRun, HandlesUnique,
       SquelchHasTape, handleRadioRx, Unlocked, OpensSquelch, ClosesSquelch,
       SquelchOn, SquelchOff, StopRxRecording, ChannelFSM, State, Linked, OnAir,
       NoId, Sessions, Recs, media
  <2>3. CASE ~OpensSquelch(squ) /\ ~ClosesSquelch(squ)
    BY <2>3, FieldTypes DEF IInv, TypeOK, KeyedCoherent, SessionsOwned, Held, TapesRun, HandlesUnique,
       SquelchHasTape, handleRadioRx, Unlocked, OpensSquelch, ClosesSquelch,
       SquelchOn, SquelchOff, StopRxRecording, ChannelFSM, State, Linked, OnAir,
       NoId, Sessions, Recs, media
  <2>4. QED
    BY <2>1, <2>2, <2>3
<1>7. QED
  BY <1>1, <1>2, <1>3, <1>4, <1>5, <1>6 DEF IInv

\* Time without packets changes only what the watchdog and the snapshots see.
LEMMA PacketsStopInv ==
    ASSUME IInv, TypeOK', PacketsStop
    PROVE  IInv'
<1>1. KeyedCoherent'
  BY DEF IInv, TypeOK, KeyedCoherent, NoStrayCarrier, SessionsOwned, Held, TapesRun, HandlesUnique, SquelchHasTape, PacketsStop,
     ChannelFSM, State, Linked, OnAir, NoId, Sessions, Recs, channel, carrier, media, recorder
<1>2. NoStrayCarrier'
  BY DEF IInv, TypeOK, KeyedCoherent, NoStrayCarrier, SessionsOwned, Held, TapesRun, HandlesUnique, SquelchHasTape, PacketsStop,
     ChannelFSM, State, Linked, OnAir, NoId, Sessions, Recs, channel, carrier, media, recorder
<1>3. SessionsOwned'
  BY DEF IInv, TypeOK, KeyedCoherent, NoStrayCarrier, SessionsOwned, Held, TapesRun, HandlesUnique, SquelchHasTape, PacketsStop,
     ChannelFSM, State, Linked, OnAir, NoId, Sessions, Recs, channel, carrier, media, recorder
<1>4. TapesRun'
  BY DEF IInv, TypeOK, KeyedCoherent, NoStrayCarrier, SessionsOwned, Held, TapesRun, HandlesUnique, SquelchHasTape, PacketsStop,
     ChannelFSM, State, Linked, OnAir, NoId, Sessions, Recs, channel, carrier, media, recorder
<1>5. HandlesUnique'
  BY DEF IInv, TypeOK, KeyedCoherent, NoStrayCarrier, SessionsOwned, Held, TapesRun, HandlesUnique, SquelchHasTape, PacketsStop,
     ChannelFSM, State, Linked, OnAir, NoId, Sessions, Recs, channel, carrier, media, recorder
<1>6. SquelchHasTape'
  BY DEF IInv, TypeOK, KeyedCoherent, NoStrayCarrier, SessionsOwned, Held, TapesRun, HandlesUnique, SquelchHasTape, PacketsStop,
     ChannelFSM, State, Linked, OnAir, NoId, Sessions, Recs, channel, carrier, media, recorder
<1>7. QED
  BY <1>1, <1>2, <1>3, <1>4, <1>5, <1>6 DEF IInv

\* The watchdog drops the carrier and saves what was received.
LEMMA ExpireSquelchInv ==
    ASSUME IInv, TypeOK', ExpireSquelch
    PROVE  IInv'
<1>1. KeyedCoherent'
  BY DEF IInv, TypeOK, KeyedCoherent, NoStrayCarrier, SessionsOwned, Held, TapesRun, HandlesUnique, SquelchHasTape, ExpireSquelch, Unlocked, SquelchOff, StopRxRecording,
     ChannelFSM, State, Linked, OnAir, NoId, Sessions, Recs, channel, carrier, media, recorder
<1>2. NoStrayCarrier'
  BY DEF IInv, TypeOK, KeyedCoherent, NoStrayCarrier, SessionsOwned, Held, TapesRun, HandlesUnique, SquelchHasTape, ExpireSquelch, Unlocked, SquelchOff, StopRxRecording,
     ChannelFSM, State, Linked, OnAir, NoId, Sessions, Recs, channel, carrier, media, recorder
<1>3. SessionsOwned'
  BY DEF IInv, TypeOK, KeyedCoherent, NoStrayCarrier, SessionsOwned, Held, TapesRun, HandlesUnique, SquelchHasTape, ExpireSquelch, Unlocked, SquelchOff, StopRxRecording,
     ChannelFSM, State, Linked, OnAir, NoId, Sessions, Recs, channel, carrier, media, recorder
<1>4. TapesRun'
  BY DEF IInv, TypeOK, KeyedCoherent, NoStrayCarrier, SessionsOwned, Held, TapesRun, HandlesUnique, SquelchHasTape, ExpireSquelch, Unlocked, SquelchOff, StopRxRecording,
     ChannelFSM, State, Linked, OnAir, NoId, Sessions, Recs, channel, carrier, media, recorder
<1>5. HandlesUnique'
  BY DEF IInv, TypeOK, KeyedCoherent, NoStrayCarrier, SessionsOwned, Held, TapesRun, HandlesUnique, SquelchHasTape, ExpireSquelch, Unlocked, SquelchOff, StopRxRecording,
     ChannelFSM, State, Linked, OnAir, NoId, Sessions, Recs, channel, carrier, media, recorder
<1>6. SquelchHasTape'
  BY DEF IInv, TypeOK, KeyedCoherent, NoStrayCarrier, SessionsOwned, Held, TapesRun, HandlesUnique, SquelchHasTape, ExpireSquelch, Unlocked, SquelchOff, StopRxRecording,
     ChannelFSM, State, Linked, OnAir, NoId, Sessions, Recs, channel, carrier, media, recorder
<1>7. QED
  BY <1>1, <1>2, <1>3, <1>4, <1>5, <1>6 DEF IInv

-----------------------------------------------------------------------------
(* Theorems of the specification.                                          *)

\* A channel that was never connected owns nothing.
LEMMA InitInv == Init => IInv
<1> SUFFICES ASSUME Init PROVE IInv
  OBVIOUS
<1>1. TypeOK
  <2>1. fsm \in ChannelFSM
    BY DEF Init, NewChannelFSM, ChannelFSM, State
  <2>2. nsess \in 0..MaxSessions /\ nrec \in 0..MaxRecs
    BY BoundsAssumption DEF Init, BoundsAssumption
  <2>3. QED
    BY <2>1, <2>2 DEF Init, TypeOK
<1>2. QED
  BY <1>1 DEF Init, IInv, KeyedCoherent, NoStrayCarrier, SessionsOwned, Held, TapesRun,
     HandlesUnique, SquelchHasTape, NewChannelFSM, OnAir, Linked, NoId, Sessions,
     Recs

\* Each action keeps the inductive invariant: the lemmas above, put together.
LEMMA StepInv == IInv /\ TypeOK' /\ [Next]_vars => IInv'
<1> SUFFICES ASSUME IInv, TypeOK', [Next]_vars PROVE IInv'
  OBVIOUS
<1>1. CASE Connecting
  BY <1>1, ConnectChannelInv, InviteFailedInv, InviteAnsweredInv, AckFailedInv,
     ConnectAbortedInv, ConnectEstablishedInv DEF Connecting
<1>2. CASE DisconnectChannel \/ CloseDisconnects
  BY <1>2, TakeHandlesInv DEF DisconnectChannel, CloseDisconnects
<1>3. CASE Closing
  BY <1>3, CloseMediaInv, HangupInv, StopTapesInv DEF Closing
<1>4. CASE Keying
  BY <1>4, KeyDownInv, KeyUpInv
  DEF Keying, StartPTT, SendVoiceTransmission, StopPTT, VoiceTimer
<1>5. CASE Receiving
  BY <1>5, handleRadioRxInv, PacketsStopInv, ExpireSquelchInv
  DEF Receiving, checkSquelchTimeouts, ChannelSnapshots
<1>6. CASE StopWorkers \/ UNCHANGED vars
  BY <1>6 DEF StopWorkers, vars, channel, carrier, media, recorder, IInv,
     KeyedCoherent, NoStrayCarrier, SessionsOwned, Held, TapesRun, HandlesUnique,
     SquelchHasTape, OnAir, Linked
<1>7. QED
  BY <1>1, <1>2, <1>3, <1>4, <1>5, <1>6 DEF Next, Stopped

\* The inductive invariant holds in every state of a channel's life.
THEOREM Invariance == Spec => []IInv
<1>1. TypeOK /\ TypeOK' /\ IInv /\ [Next]_vars => IInv'
  BY StepInv
<1>2. QED
  BY <1>1, InitInv, TypeCorrect, PTL DEF Spec

\* Key, transmit flag and transmit recording of a channel agree in every run of
\* StartPTT, StopPTT, the release timers, disconnects and packets.
THEOREM KeyIsCoherent == Spec => []KeyedCoherent
BY Invariance, PTL DEF IInv

\* No transmitter is left running: StopPTT and DisconnectChannel reach the
\* session that radiates.
THEOREM CarrierIsOwned == Spec => []NoStrayCarrier
BY Invariance, PTL DEF IInv

\* ConnectChannel and DisconnectChannel leak no socket, and no dialog they were
\* given the handle of, in whatever order their parts overlap: the dialogs without
\* an owner are exactly those whose ACK failed.
THEOREM ConnectionsAreOwned == Spec => []SessionsOwned
BY Invariance, PTL DEF IInv

\* The recordings a channel writes to are open, and its transmit recordings are
\* never orphaned.
THEOREM RecordingsAreOpen == Spec => []TapesRun
BY Invariance, PTL DEF IInv

-----------------------------------------------------------------------------
(* The channel implements VoiceLink.                                       *)

\* The mapped link, carrier and tape in terms of the state machine alone, before
\* and after a step.
Mapped == /\ (txRecID \in openTx) = (fsm.state = "transmitting")
          /\ OnAir = (fsm.state = "transmitting")

\* Under the invariant carrier and transmit recording coincide.
LEMMA MappedNow == IInv => Mapped
  BY DEF IInv, TypeOK, KeyedCoherent, TapesRun, NoId, Recs, Mapped, OnAir

\* The same after a step.
LEMMA MappedNext == IInv' => Mapped'
  BY DEF IInv, TypeOK, KeyedCoherent, TapesRun, NoId, Recs, Mapped, OnAir

\* Every step of the channel is a step of the promise, or invisible to it.
LEMMA StepImplements ==
    ASSUME IInv, IInv', [Next]_vars
    PROVE  [Promise!Next]_(Promise!vars)
<1>1. /\ OnAir = (fsm.state = "transmitting")
      /\ (txRecID \in openTx) = (fsm.state = "transmitting")
      /\ OnAir' = (fsm'.state = "transmitting")
      /\ (txRecID \in openTx)' = (fsm'.state = "transmitting")
  BY MappedNow, MappedNext DEF Mapped
<1>2. fsm \in ChannelFSM /\ fsm' \in ChannelFSM
  BY DEF IInv, TypeOK
<1>3. CASE fsm'.state = fsm.state
  BY <1>1, <1>3 DEF Promise!vars, Link, Linked
<1>4. CASE Connecting
  <2>1. \/ CanConnect(fsm) /\ fsm'.state = "connecting"
        \/ fsm.state = "connecting" /\ fsm'.state \in {"fault", "connected"}
        \/ fsm' = fsm
    <3>1. conn # "idle" => fsm.state = "connecting"
      BY DEF IInv, HandlesUnique
    <3>2. CASE ConnectChannel
      BY <1>2, <3>2 DEF ConnectChannel, TransitionToConnecting, ChannelFSM
    <3>3. CASE InviteFailed \/ AckFailed \/ ConnectAborted
      BY <3>1, <3>3 DEF InviteFailed, AckFailed, Answered, ConnectAborted,
         TransitionToFault, Cleared
    <3>4. CASE InviteAnswered
      BY <3>4 DEF InviteAnswered, channel
    <3>5. CASE ConnectEstablished
      BY <3>1, <3>5 DEF ConnectEstablished, TransitionToConnected, Cleared
    <3>6. QED
      BY <1>4, <3>2, <3>3, <3>4, <3>5 DEF Connecting
  <2>2. QED
    BY <1>1, <1>3, <2>1 DEF Promise!Next, Promise!Dial, Promise!Answered,
       Promise!Refused, Link, Linked, CanConnect
<1>5. CASE DisconnectChannel \/ CloseDisconnects
  <2>1. fsm.state # "connecting" /\ fsm'.state = "disconnected"
    BY <1>5 DEF DisconnectChannel, CloseDisconnects, TakeHandles, Unlocked, IInv,
       HandlesUnique, TransitionToDisconnected, Cleared
  <2>2. QED
    BY <1>1, <2>1 DEF Promise!Next, Promise!Release, Promise!vars, Link, Linked
<1>6. CASE Keying
  <2>1. \/ fsm.state \in {"connected", "receiving"} /\ fsm'.state = "transmitting"
        \/ fsm.state = "transmitting" /\ fsm'.state \in {"connected", "receiving"}
        \/ fsm' = fsm
    BY <1>2, <1>6 DEF Keying, StartPTT, SendVoiceTransmission, StopPTT, VoiceTimer,
       KeyDown, KeyUp, CanKey, PTTDown, PTTUp, Unkeyed, IInv, KeyedCoherent,
       ChannelFSM
  <2>2. QED
    BY <1>1, <1>3, <2>1 DEF Promise!Next, Promise!Key, Promise!Unkey, Link, Linked
<1>7. CASE Receiving
  <2>1. \/ fsm.state \in {"connected", "receiving"} /\ fsm'.state \in {"connected", "receiving"}
        \/ fsm'.state = fsm.state
    BY <1>2, <1>7, SquelchFields DEF Receiving, handleRadioRx, PacketsStop,
       checkSquelchTimeouts, ChannelSnapshots, ExpireSquelch, channel
  <2>2. QED
    BY <1>1, <2>1 DEF Promise!vars, Link, Linked
<1>8. CASE Closing \/ StopWorkers \/ UNCHANGED vars
  BY <1>3, <1>8 DEF Closing, CloseMedia, Hangup, StopTapes, StopWorkers, vars, channel
<1>9. QED
  BY <1>4, <1>5, <1>6, <1>7, <1>8 DEF Next, Stopped

\* The channel implements VoiceLink: carrier and transmit tape start together on
\* an established link, end together and never outlive it.
THEOREM Implementation == Spec => ImplementsVoiceLink
<1>1. Init => Promise!Init
  BY InitInv DEF Init, Promise!Init, NewChannelFSM, Link, Linked, OnAir, NoId
<1>2. QED
  BY <1>1, StepImplements, Invariance, PTL DEF Spec, ImplementsVoiceLink, Promise!Spec

-----------------------------------------------------------------------------
\* Packets, the watchdog and the console's poll leave a transmission alone: the
\* "PTT priority" of SquelchOn, and of everything that surrounds it.
THEOREM TransmissionHasPriority == Spec => PTTPriority
<1>1. ASSUME TypeOK, Receiving, fsm.state = "transmitting"
      PROVE  fsm'.state = "transmitting" /\ UNCHANGED <<tx, txRecID, openTx>>
  BY <1>1, SquelchFields DEF TypeOK, Receiving, handleRadioRx, OpensSquelch,
     ClosesSquelch, PacketsStop, checkSquelchTimeouts, ChannelSnapshots,
     ExpireSquelch, channel, media, recorder
<1>2. QED
  BY <1>1, TypeCorrect, PTL DEF Spec, PTTPriority
=============================================================================
