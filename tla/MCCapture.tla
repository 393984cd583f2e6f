----------------------------- MODULE MCCapture -----------------------------
(* One stream that says nothing, keys (with an id of more than four bits), *)
(* carries, or both.                                                       *)
EXTENDS Capture
MCStreams == {"down"}
MCBothWays == {"down", "up"}
MCFirstNumbers == {0, 14}
MCHeaders ==
    {NoExt, [ptt |-> 0, squ |-> FALSE, id |-> 0],
     [ptt |-> 1, squ |-> FALSE, id |-> 17], [ptt |-> 3, squ |-> TRUE, id |-> 2]}
MCVoice ==
    <<[law |-> "PCMA", sample |-> 32767], [law |-> "PCMA", sample |-> -32768],
      [law |-> "PCMU", sample |-> 1000], [law |-> "PCMU", sample |-> -32767]>>

\* Every sample, under both laws, comes back as near as it can; the mu-law loses one.
ASSUME EverySampleHeard ==
    \A v \in Int16 :
        /\ ANear(v, DecodeALaw(EncodeALaw(v)))
        /\ UNear(Clip(v), DecodeULaw(EncodeULaw(v))) <=> v # Unspeakable

\* Packed into two bytes, as for the browsers, a sample stays what it is.
ASSUME EverySamplePacked ==
    \A v \in Int16 : /\ Int16ToPCMBytes(v) \in Byte \X Byte
                     /\ PCMBytesToInt16(Int16ToPCMBytes(v)) = v

\* A byte that was decoded and is encoded again stays what it is, but for the two
\* silences of the mu-law, which become one.
ASSUME EveryByteStays ==
    \A b \in Byte :
        /\ EncodeALaw(DecodeALaw(b)) = b
        /\ EncodeULaw(DecodeULaw(b)) = (IF b = 127 THEN 255 ELSE b)
=============================================================================
