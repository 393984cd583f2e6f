---------------------------- MODULE MCConsoleHub ----------------------------
(* ConsoleHub with an HTTP handler, a receive loop and a browser. *)
EXTENDS ConsoleHub
CONSTANTS handler, rxLoop, browser
MCLoggers == {handler, rxLoop}
MCRecovering == {handler}
MCSubs == {web}
MCClients == {browser}
=============================================================================
