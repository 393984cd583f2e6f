--------------------------- MODULE MCJitterBuffer ---------------------------
(* JitterBuffer on a modulus of sixteen: numbering that wraps and one that does  *)
(* not, depths below, within and above the limits.                             *)
EXTENDS JitterBuffer
MCDepths == {0, 2}
MCDelays == {0, 1, 5}
MCStarts == {0, 14}
=============================================================================
