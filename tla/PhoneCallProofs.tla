-------------------------- MODULE PhoneCallProofs --------------------------
(***************************************************************************)
(* The telephone for any number of calls: its types, that every socket and *)
(* every dialog has an owner however hang-ups and dialling overlap, and    *)
(* what a recording holds.                                                 *)
(***************************************************************************)
EXTENDS PhoneCall, TLAPS

\* The call that is answered next, within the bound, is a call.
LEMMA NextCall ==
    ASSUME TypeOK
    PROVE  /\ ncalls \in Nat /\ NoCall \notin Calls
           /\ ncalls < MaxCalls => ncalls + 1 \in Calls /\ ncalls + 1 \in 0..MaxCalls
           /\ \A n \in Calls : n \in Nat
           /\ \A n \in unacked : n \in Nat
  BY PhoneCallAssumption DEF PhoneCallAssumption, TypeOK, Calls, NoCall

\* A hang-up that goes on stays a hang-up of the same call.
LEMMA TailTypes ==
    ASSUME TypeOK, NEW t \in tails, NEW pc \in {"media", "bye", "tape"}
    PROVE  /\ t.call \in Calls /\ t.pc \in {"media", "bye", "tape"}
           /\ [t EXCEPT !.pc = pc] \in [call : Calls, pc : {"media", "bye", "tape"}]
           /\ [t EXCEPT !.pc = pc].call = t.call
           /\ [t EXCEPT !.pc = pc].pc = pc
  BY DEF TypeOK

-----------------------------------------------------------------------------
(* The inductive invariant.                                                *)

\* The numbers of the calls: the phone's call and those being hung up have been
\* answered, nobody else has the call of which somebody takes care, and a call
\* whose ACK failed has nobody.
CallsApart ==
    /\ call <= ncalls
    /\ \A t \in tails : t.call <= ncalls /\ t.call # call
    /\ \A t, u \in tails : t.call = u.call => t = u
    /\ \A n \in unacked : /\ n <= ncalls /\ n # call
                          /\ \A t \in tails : t.call # n

\* DialURI keeps phone.mu from its check that no call is active to its end; the call
\* it has had answered is the newest one, and nobody's yet.
DialAlone ==
    /\ dial # "idle" => ~active
    /\ dial \in {"answered", "taping"} =>
         /\ ncalls \in Calls /\ ncalls \notin unacked
         /\ \A t \in tails : t.call # ncalls

Inv == TypeOK /\ CallsApart /\ DialAlone /\ CallOwned /\ ReceivedTapedApart

\* The invariant holds at the beginning.
LEMMA InvInit == Init => Inv
<1> SUFFICES ASSUME Init PROVE Inv
  OBVIOUS
<1>1. TypeOK
  <2>1. ncalls \in 0..MaxCalls
    BY PhoneCallAssumption DEF Init, PhoneCallAssumption
  <2>2. QED
    BY <2>1 DEF Init, TypeOK, Modes
<1>2. CallsApart /\ DialAlone /\ CallOwned /\ ReceivedTapedApart
  BY DEF Init, CallsApart, DialAlone, CallOwned, Held, ReceivedTapedApart, Calls, NoCall
<1>3. QED
  BY <1>1, <1>2 DEF Inv

-----------------------------------------------------------------------------
(* DialURI.                                                                *)

\* What does not touch the calls: the steps of DialURI before an answer.
LEMMA DialURIKeepsInv ==
    ASSUME Inv, DialFailed \/ \E m \in Modes : DialURI(m)
    PROVE  Inv'
<1>1. UNCHANGED <<state, ncalls, media, tails, echo, mic, heard>>
  BY DEF DialFailed, DialURI
<1>2. dial' \in {"idle", "inviting"} /\ dialMode' \in Modes /\ ~active
      /\ dial \in {"idle", "inviting"}
  BY DEF Inv, TypeOK, DialAlone, DialFailed, DialURI, Unlocked
<1>3. TypeOK'
  BY <1>1, <1>2 DEF Inv, TypeOK, state, media, heard
<1>4. CallOwned'
  BY <1>1, <1>2 DEF Inv, CallOwned, Held, state, media
<1>5. QED
  BY <1>1, <1>2, <1>3, <1>4
  DEF Inv, CallsApart, DialAlone, ReceivedTapedApart, state, media, heard

\* The answered call is a new one: nobody hangs it up.
LEMMA DialAnsweredKeepsInv ==
    ASSUME Inv, DialAnswered
    PROVE  Inv'
<1> USE DEF Inv, DialAnswered, Answered, state, media, heard
<1>1. ncalls \in Nat /\ ncalls' = ncalls + 1 /\ ncalls' \in Calls /\ ncalls' \in 0..MaxCalls
  BY NextCall
<1>2. TypeOK'
  BY <1>1 DEF TypeOK
<1>3. /\ call \in Nat /\ \A t \in tails : t.call \in Nat /\ t.call \in Calls
      /\ \A n \in unacked : n \in Nat
  BY NextCall, TailTypes DEF TypeOK, NoCall
<1>4. CallsApart' /\ DialAlone'
  BY <1>1, <1>3 DEF CallsApart, DialAlone
<1>5. call = NoCall /\ (active <=> call # NoCall)
  BY DEF DialAlone, CallOwned
<1>6. ASSUME NEW n \in Calls
      PROVE  n \in dialogs' <=> \/ n = call
                                \/ n = ncalls'
                                \/ \E t \in tails : t.call = n /\ t.pc # "tape"
                                \/ n \in unacked
  BY <1>1 DEF CallOwned, Held
<1>7. CallOwned'
  BY <1>6 DEF CallOwned, Held
<1>8. QED
  BY <1>2, <1>4, <1>7 DEF ReceivedTapedApart

\* The dialog whose ACK failed is a new one, and nobody gets it.
LEMMA DialUnackedKeepsInv ==
    ASSUME Inv, DialUnacked
    PROVE  Inv'
<1> USE DEF Inv, DialUnacked, Answered, state, media, heard
<1>1. ncalls \in Nat /\ ncalls' = ncalls + 1 /\ ncalls' \in Calls /\ ncalls' \in 0..MaxCalls
  BY NextCall
<1>2. TypeOK'
  BY <1>1 DEF TypeOK
<1>3. /\ call \in Nat /\ \A t \in tails : t.call \in Nat /\ t.call \in Calls
      /\ \A n \in unacked : n \in Nat
  BY NextCall, TailTypes DEF TypeOK, NoCall
<1>4. CallsApart' /\ DialAlone'
  BY <1>1, <1>3 DEF CallsApart, DialAlone
<1>5. ASSUME NEW n \in Calls
      PROVE  n \in dialogs' <=> \/ n = call
                                \/ \E t \in tails : t.call = n /\ t.pc # "tape"
                                \/ n \in unacked'
  BY <1>1 DEF CallOwned, Held
<1>6. CallOwned'
  BY <1>5 DEF CallOwned, Held
<1>7. QED
  BY <1>2, <1>4, <1>6 DEF ReceivedTapedApart

\* The answer is of no use, or the media cannot be set up: the dialog is ended.
LEMMA DialGivenUpKeepsInv ==
    ASSUME Inv, AnswerRejected \/ MediaFailed
    PROVE  Inv'
<1>1. /\ UNCHANGED <<dialMode, state, ncalls, unacked, live, open, tails, echo, mic,
                      heard>>
      /\ dialogs' = dialogs \ {ncalls}
      /\ dial \in {"answered", "taping"} /\ dial' = "idle"
  BY DEF AnswerRejected, MediaFailed
<1> USE <1>1 DEF Inv, state, media, heard
<1>2. TypeOK'
  BY DEF TypeOK
<1>3. /\ call = NoCall /\ ncalls \in Calls /\ ncalls \notin unacked
      /\ \A t \in tails : t.call # ncalls
  BY DEF DialAlone, CallOwned
<1>4. ASSUME NEW n \in Calls
      PROVE  n \in dialogs' <=> \/ n = call
                                \/ \E t \in tails : t.call = n /\ t.pc # "tape"
                                \/ n \in unacked
  BY <1>3, NextCall DEF CallOwned, Held
<1>5. CallOwned'
  BY <1>4 DEF CallOwned, Held
<1>6. QED
  BY <1>2, <1>5 DEF CallsApart, DialAlone, ReceivedTapedApart

\* The recording of the new call is opened.
LEMMA StartTapeKeepsInv ==
    ASSUME Inv, StartTape
    PROVE  Inv'
<1> USE DEF Inv, StartTape, state, heard
<1>1. TypeOK'
  BY DEF TypeOK, DialAlone
<1>2. CallOwned'
  BY DEF CallOwned, Held
<1>3. QED
  BY <1>1, <1>2 DEF CallsApart, DialAlone, ReceivedTapedApart

\* The phone takes over dialog and session of the new call.
LEMMA CallEstablishedKeepsInv ==
    ASSUME Inv, CallEstablished
    PROVE  Inv'
<1> USE DEF Inv, CallEstablished, heard
<1>1. call = NoCall /\ ncalls \in Calls /\ NoCall \notin Calls
      /\ ncalls \notin unacked /\ \A t \in tails : t.call # ncalls
  BY NextCall DEF DialAlone, CallOwned
<1>2. TypeOK'
  BY <1>1 DEF TypeOK
<1>3. CallsApart' /\ DialAlone'
  BY <1>1, NextCall DEF CallsApart, DialAlone
<1>4. CallOwned'
  BY <1>1 DEF CallOwned, Held
<1>5. QED
  BY <1>2, <1>3, <1>4 DEF ReceivedTapedApart

-----------------------------------------------------------------------------
(* HangupPhone.                                                            *)

\* The call passes from the phone to the hang-up.
LEMMA HangupPhoneKeepsInv ==
    ASSUME Inv, HangupPhone
    PROVE  Inv'
<1> USE DEF Inv, HangupPhone, media, heard
<1> DEFINE new == [call |-> call, pc |-> "media"]
<1>1. /\ call \in Calls /\ NoCall \notin Calls /\ tails' = tails \cup {new}
      /\ new.call = call /\ new.pc = "media"
      /\ new \in [call : Calls, pc : {"media", "bye", "tape"}]
  BY NextCall DEF TypeOK, CallOwned
<1> HIDE DEF new
<1>2. TypeOK'
  BY <1>1 DEF TypeOK
<1>3. \A t \in tails : t.call # call /\ t.call \in Calls
  BY TailTypes DEF CallsApart
<1>4. CallsApart'
  <2>1. NoCall <= ncalls
    BY NextCall DEF NoCall
  <2>2. \A t \in tails' : t.call <= ncalls /\ t.call # NoCall
    BY <1>1, <1>3 DEF CallsApart
  <2>3. \A t, u \in tails' : t.call = u.call => t = u
    BY <1>1, <1>3 DEF CallsApart
  <2>4. \A n \in unacked : n # NoCall /\ \A t \in tails' : t.call # n
    BY <1>1 DEF CallsApart, TypeOK
  <2>5. QED
    BY <2>1, <2>2, <2>3, <2>4 DEF CallsApart
<1>5. DialAlone'
  BY DEF DialAlone, Unlocked
<1>6. CallOwned'
  <2>1. ASSUME NEW n \in Calls
        PROVE  (\E t \in tails' : t.call = n /\ t.pc = "media")
                 <=> n = call \/ \E t \in tails : t.call = n /\ t.pc = "media"
    BY <1>1
  <2>2. ASSUME NEW n \in Calls
        PROVE  (\E t \in tails' : t.call = n /\ t.pc # "tape")
                 <=> n = call \/ \E t \in tails : t.call = n /\ t.pc # "tape"
    BY <1>1
  <2>3. dial = "idle" /\ UNCHANGED <<dial, ncalls, live, dialogs, unacked>>
    BY DEF Unlocked
  <2>4. QED
    BY <1>1, <2>1, <2>2, <2>3 DEF CallOwned, Held
<1>7. QED
  BY <1>2, <1>4, <1>5, <1>6 DEF ReceivedTapedApart

\* A hang-up takes its next step: the other hang-ups are of other calls.
LEMMA AdvanceKeepsCalls ==
    ASSUME Inv, NEW t \in tails, NEW pc \in {"media", "bye", "tape"}, Advance(t, pc),
           UNCHANGED <<dial, state, ncalls, unacked>>
    PROVE  /\ tails' \subseteq [call : Calls, pc : {"media", "bye", "tape"}]
           /\ CallsApart' /\ DialAlone'
           /\ \A u \in tails' : u.call = t.call <=> u = [t EXCEPT !.pc = pc]
           /\ \A u : u.call # t.call => (u \in tails' <=> u \in tails)
<1> DEFINE next == [t EXCEPT !.pc = pc]
<1>1. next.call = t.call /\ tails' = (tails \ {t}) \cup {next}
  BY TailTypes DEF Inv, Advance
<1>2. tails' \subseteq [call : Calls, pc : {"media", "bye", "tape"}]
  BY <1>1, TailTypes DEF Inv, TypeOK
<1>3. CallsApart' /\ DialAlone'
  BY <1>1 DEF Inv, CallsApart, DialAlone, state
<1>4. \A u \in tails' : u.call = t.call <=> u = next
  BY <1>1 DEF Inv, CallsApart
<1>5. \A u : u.call # t.call => (u \in tails' <=> u \in tails)
  BY <1>1
<1>6. QED
  BY <1>2, <1>3, <1>4, <1>5

\* The session is closed.
LEMMA CloseMediaKeepsInv ==
    ASSUME Inv, NEW t \in tails, CloseMedia(t)
    PROVE  Inv'
<1> USE DEF Inv, CloseMedia, heard
<1> DEFINE next == [t EXCEPT !.pc = "bye"]
<1>1. t.call \in Calls /\ next.call = t.call /\ next.pc = "bye" /\ t.pc = "media"
  BY TailTypes
<1>2. /\ tails' \subseteq [call : Calls, pc : {"media", "bye", "tape"}]
      /\ CallsApart' /\ DialAlone'
      /\ \A u \in tails' : u.call = t.call <=> u = next
      /\ \A u : u.call # t.call => (u \in tails' <=> u \in tails)
  BY AdvanceKeepsCalls
<1>3. next \in tails'
  BY DEF Advance
<1>4. TypeOK'
  BY <1>2 DEF TypeOK, state
<1>5. CallOwned'
  <2>1. ASSUME NEW n \in Calls
        PROVE  n \in live' <=> n = call \/ \E u \in tails' : u.call = n /\ u.pc = "media"
    BY <1>1, <1>2 DEF CallOwned, CallsApart
  <2>2. ASSUME NEW n \in Calls
        PROVE  (\E u \in tails' : u.call = n /\ u.pc # "tape")
                 <=> \E u \in tails : u.call = n /\ u.pc # "tape"
    BY <1>1, <1>2, <1>3
  <2>3. QED
    BY <2>1, <2>2 DEF CallOwned, Held, state
<1>6. QED
  BY <1>2, <1>4, <1>5 DEF ReceivedTapedApart

\* The BYE is sent.
LEMMA HangupKeepsInv ==
    ASSUME Inv, NEW t \in tails, Hangup(t)
    PROVE  Inv'
<1> USE DEF Inv, Hangup, heard
<1> DEFINE next == [t EXCEPT !.pc = "tape"]
<1>1. t.call \in Calls /\ next.call = t.call /\ next.pc = "tape" /\ t.pc = "bye"
  BY TailTypes
<1>2. /\ tails' \subseteq [call : Calls, pc : {"media", "bye", "tape"}]
      /\ CallsApart' /\ DialAlone'
      /\ \A u \in tails' : u.call = t.call <=> u = next
      /\ \A u : u.call # t.call => (u \in tails' <=> u \in tails)
  BY AdvanceKeepsCalls
<1>3. \A u \in tails : u.call = t.call => u = t
  BY DEF CallsApart
<1>4. TypeOK'
  BY <1>2 DEF TypeOK, state
<1>5. CallOwned'
  <2>1. ASSUME NEW n \in Calls
        PROVE  (\E u \in tails' : u.call = n /\ u.pc = "media")
                 <=> \E u \in tails : u.call = n /\ u.pc = "media"
    BY <1>1, <1>2, <1>3
  <2>2. ASSUME NEW n \in Calls
        PROVE  (\E u \in tails' : u.call = n /\ u.pc # "tape")
                 <=> n # t.call /\ \E u \in tails : u.call = n /\ u.pc # "tape"
    BY <1>1, <1>2
  <2>3. /\ t.call # call /\ t.call \notin unacked
        /\ dial \in {"answered", "taping"} => t.call # ncalls
    BY DEF CallsApart, DialAlone
  <2>4. QED
    BY <2>1, <2>2, <2>3 DEF CallOwned, Held, state
<1>6. QED
  BY <1>2, <1>4, <1>5 DEF ReceivedTapedApart

\* The recording is saved, and the hang-up is over.
LEMMA StopTapeKeepsInv ==
    ASSUME Inv, NEW t \in tails, StopTape(t)
    PROVE  Inv'
<1> USE DEF Inv, StopTape, state, heard
<1>1. TypeOK'
  BY DEF TypeOK
<1>2. CallsApart' /\ DialAlone'
  BY DEF CallsApart, DialAlone
<1>3. CallOwned'
  BY DEF CallOwned, Held
<1>4. QED
  BY <1>1, <1>2, <1>3 DEF ReceivedTapedApart

-----------------------------------------------------------------------------
(* Voice.                                                                  *)

\* A frame goes into a recording, if that is open, and into no other.
LEMMA TapeTypes ==
    ASSUME TypeOK, NEW way \in {"rx", "tx"}, NEW from \in Calls, NEW to \in Calls,
           Tape(way, from, to)
    PROVE  /\ taped' \subseteq {"rx", "tx"} \X Calls \X Calls
           /\ \A f \in taped' : f \in taped \/ f = <<way, from, to>>
  BY DEF TypeOK, Tape

\* What is received is recorded in its own call; what is sent may be of another.
LEMMA VoiceKeepsInv ==
    ASSUME Inv, Voice
    PROVE  Inv'
<1> USE DEF Inv
<1>1. /\ UNCHANGED <<dial, dialMode, state, ncalls, media, tails>>
      /\ TypeOK' /\ ReceivedTapedApart'
  <2>1. ASSUME NEW n \in Calls, PacketReceived(n)
        PROVE  /\ UNCHANGED <<dial, dialMode, state, ncalls, media, tails>>
               /\ TypeOK' /\ ReceivedTapedApart'
    <3>1. /\ taped' \subseteq {"rx", "tx"} \X Calls \X Calls
          /\ \A f \in taped' : f \in taped \/ f = <<"rx", n, n>>
      BY <2>1, TapeTypes DEF PacketReceived
    <3>2. TypeOK'
      BY <2>1, <3>1 DEF PacketReceived, TypeOK, state, media
    <3>3. QED
      BY <2>1, <3>1, <3>2 DEF PacketReceived, ReceivedTapedApart
  <2>2. ASSUME NEW n \in Calls, EchoPlayed(n) \/ MicPlayed(n)
        PROVE  /\ UNCHANGED <<dial, dialMode, state, ncalls, media, tails>>
               /\ TypeOK' /\ ReceivedTapedApart'
    <3>1. PICK kind \in {"echo", "mic"}, from \in Calls :
            /\ sent' = sent \cup {<<kind, from, n>>}
            /\ Tape("tx", from, n)
      BY <2>2 DEF EchoPlayed, MicPlayed, Plays, TypeOK
    <3>2. /\ UNCHANGED <<dial, dialMode, state, ncalls, media, tails>>
          /\ echo' \subseteq echo /\ mic' \subseteq mic
      BY <2>2 DEF EchoPlayed, MicPlayed
    <3>3. /\ taped' \subseteq {"rx", "tx"} \X Calls \X Calls
          /\ \A f \in taped' : f \in taped \/ f = <<"tx", from, n>>
      BY <3>1, TapeTypes
    <3>4. TypeOK'
      BY <3>1, <3>2, <3>3 DEF TypeOK, state, media
    <3>5. QED
      BY <3>2, <3>3, <3>4 DEF ReceivedTapedApart
  <2>3. CASE FeedMicAudio
    BY <2>3 DEF FeedMicAudio, TypeOK, CallOwned, ReceivedTapedApart, state, media, heard
  <2>4. QED
    BY <2>1, <2>2, <2>3 DEF Voice
<1>2. QED
  BY <1>1 DEF CallsApart, DialAlone, CallOwned, Held, state, media

-----------------------------------------------------------------------------
\* The invariant holds in every run.
LEMMA Invariance == Spec => []Inv
<1>1. Inv /\ [Next]_vars => Inv'
  <2> SUFFICES ASSUME Inv, [Next]_vars PROVE Inv'
    OBVIOUS
  <2>1. CASE Dialling
    BY <2>1, DialURIKeepsInv, DialAnsweredKeepsInv, DialUnackedKeepsInv,
       DialGivenUpKeepsInv, StartTapeKeepsInv, CallEstablishedKeepsInv DEF Dialling
  <2>2. CASE HangupPhone
    BY <2>2, HangupPhoneKeepsInv
  <2>3. CASE Tail
    BY <2>3, CloseMediaKeepsInv, HangupKeepsInv, StopTapeKeepsInv DEF Tail
  <2>4. CASE Voice
    BY <2>4, VoiceKeepsInv
  <2>5. CASE UNCHANGED vars
    BY <2>5 DEF vars, state, media, heard, Inv, TypeOK, CallsApart, DialAlone,
                CallOwned, Held, ReceivedTapedApart
  <2>6. QED
    BY <2>1, <2>2, <2>3, <2>4, <2>5 DEF Next
<1>2. QED
  BY InvInit, <1>1, PTL DEF Spec

\* Type correctness of the telephone (PhoneCallState of service.go) in every run.
THEOREM TypeCorrect == Spec => []TypeOK
<1>1. Inv => TypeOK
  BY DEF Inv
<1>2. QED
  BY Invariance, <1>1, PTL

\* Every open socket is the phone's or one hang-up's, and every dialog without a
\* BYE is the phone's, the dialling call's, one hang-up's or one whose ACK failed
\* (DialURI and HangupPhone of service.go, Call of dialog.go), however many
\* hang-ups are still under way.
THEOREM EveryCallOwned == Spec => []CallOwned
<1>1. Inv => CallOwned
  BY DEF Inv
<1>2. QED
  BY Invariance, <1>1, PTL

\* What is received in a call is recorded in that call's recording only (the packet
\* handler of DialURI), also while the next call is running.
THEOREM EveryCallTapedApart == Spec => []ReceivedTapedApart
<1>1. Inv => ReceivedTapedApart
  BY DEF Inv
<1>2. QED
  BY Invariance, <1>1, PTL
=============================================================================
