----------------------------- MODULE MCRecorder -----------------------------
(* Recorder on two callers, limits that are corrected to 2, 1 and 3 entries. *)
EXTENDS Recorder
CONSTANTS key, squelch
MCCallers == {key, squelch}
MCLimits == {0, 1, 5}
=============================================================================
