-------------------------------- MODULE G711 --------------------------------
(***************************************************************************)
(* The two companding laws of the voice (internal/media/codec/g711.go):    *)
(* a 16-bit sample becomes a byte of sign, segment and place within the    *)
(* segment.  A place in segment s is twice as wide as one in segment s - 1 *)
(* (from the second on, in the A-law); the decoder returns its middle.     *)
(***************************************************************************)
EXTENDS Integers

Int16 == -(2^15)..2^15 - 1
Byte  == 0..255

\* The conversion int16(x).
Wrap(x) == ((x + 32768) % 65536) - 32768

Lesser(a, b) == IF a < b THEN a ELSE b
Negative(byte) == byte \div 128
Segment(byte)  == (byte \div 16) % 8
Place(byte)    == byte % 16

-----------------------------------------------------------------------------
(* Samples as bytes, the low one first.                                    *)

Int16ToPCMBytes(sample) == <<sample % 256, (sample % 65536) \div 256>>

PCMBytesToInt16(pcm) == Wrap(pcm[1] + 256 * pcm[2])

-----------------------------------------------------------------------------
(* A-law.                                                                  *)

\* b ^ 0x55: the bits 1, 4, 16 and 64 are turned over.
Xor55(b) ==
    LET Turned(bit) == IF (b \div bit) % 2 = 1 THEN -bit ELSE bit
    IN b + Turned(1) + Turned(4) + Turned(16) + Turned(64)

\* The segment of a magnitude of twelve bits.
ASegment(val) ==
    CASE val < 32   -> 0
      [] 32 <= val /\ val < 64     -> 1
      [] 64 <= val /\ val < 128    -> 2
      [] 128 <= val /\ val < 256   -> 3
      [] 256 <= val /\ val < 512   -> 4
      [] 512 <= val /\ val < 1024  -> 5
      [] 1024 <= val /\ val < 2048 -> 6
      [] OTHER -> 7

\* encodeALawSample.
EncodeALaw(pcm) ==
    LET val == Lesser((IF pcm >= 0 THEN pcm ELSE -pcm) \div 8, 4095)
        seg == ASegment(val)
        quant == IF seg = 0 THEN val \div 2 ELSE (val - 2^(seg + 4)) \div 2^seg
    IN Xor55((IF pcm >= 0 THEN 128 ELSE 0) + 16 * seg + quant)

\* decodeALawSample.
DecodeALaw(alaw) ==
    LET b == Xor55(alaw)
        val == IF Segment(b) = 0 THEN 16 * Place(b) + 8
               ELSE (16 * Place(b) + 264) * 2^(Segment(b) - 1)
    IN IF Negative(b) = 1 THEN val ELSE -val

-----------------------------------------------------------------------------
(* Mu-law.  The sample is negated, clipped and biased in sixteen bits.     *)

\* The segment: the highest bit set among those from 2^8 to 2^14.
USegment(bits) ==
    CASE bits < 256 -> 0
      [] 256 <= bits /\ bits < 512     -> 1
      [] 512 <= bits /\ bits < 1024    -> 2
      [] 1024 <= bits /\ bits < 2048   -> 3
      [] 2048 <= bits /\ bits < 4096   -> 4
      [] 4096 <= bits /\ bits < 8192   -> 5
      [] 8192 <= bits /\ bits < 16384  -> 6
      [] OTHER -> 7

\* encodeULawSample.  Of the biased value the bits below the sign are used.
EncodeULaw(pcmVal) ==
    LET magnitude == IF pcmVal < 0 THEN Wrap(-pcmVal) ELSE pcmVal
        bits == Wrap(Lesser(magnitude, 32635) + 132) % 32768
        seg == USegment(bits)
    IN 255 - ((IF pcmVal < 0 THEN 128 ELSE 0) + 16 * seg + ((bits \div 2^(seg + 3)) % 16))

\* decodeULawSample.
DecodeULaw(ulaw) ==
    LET b == 255 - ulaw
        val == (8 * Place(b) + 132) * 2^Segment(b) - 132
    IN IF Negative(b) = 1 THEN -val ELSE val

-----------------------------------------------------------------------------
(* What the laws promise: a decoded sample is off by no more than a        *)
(* thirty-second part of its magnitude, the A-law's rounded up to 8, the   *)
(* mu-law's with the bias in it.                                           *)

Magnitude(v) == IF v < 0 THEN -v ELSE v

ANear(v, decoded) ==
    \/ Magnitude(v - decoded) <= 8
    \/ 32 * Magnitude(v - decoded) <= Magnitude(v)

UNear(v, decoded) == 32 * Magnitude(v - decoded) <= Magnitude(v) + 132

\* Louder than this the mu-law cannot say.
Clip(v) == IF v > 32635 THEN 32635 ELSE IF v < -32635 THEN -32635 ELSE v

\* The one sample the mu-law loses: the most negative one has no negation in
\* sixteen bits, and comes back as silence.
Unspeakable == -32768
=============================================================================
