--------------------------- MODULE MCServiceLocks ---------------------------
(***************************************************************************)
(* ServiceLocks with one channel and the telephone.  Left out because they *)
(* wait like others: a poll as the microphone, less one mutex; a dial as a *)
(* connect; a key and the watchdog as the first steps of a receive loop.   *)
(***************************************************************************)
EXTENDS ServiceLocks
CONSTANTS A
MCChannels == {A}
MCActivities ==
    {<<"connect", A>>, <<"disconnect", A>>, <<"receive", A>>, <<"mic", "s">>,
     <<"supervise", "s">>, <<"transmit", "phone">>, <<"main", "s">>}
MCAtTheEnd == {<<"supervise", "s">>, <<"watchdog", "s">>, <<"main", "s">>}
=============================================================================
