------------------------------ MODULE MCLogHub ------------------------------
(* LogHub with an HTTP handler, a receive loop and two subscribers. *)
EXTENDS LogHub
CONSTANTS handler, rxLoop, web, other
MCLoggers == {handler, rxLoop}
MCRecovering == {handler}
MCSubs == {web, other}
=============================================================================
