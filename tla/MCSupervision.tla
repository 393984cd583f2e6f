---------------------------- MODULE MCSupervision ----------------------------
(* Supervision of a station with two URIs, a channel's and a telephone's. *)
EXTENDS Supervision
CONSTANTS radio, phone, grs
MCTargets == {radio, phone}
MCStations == {grs}
MCHome == [t \in MCTargets |-> grs]
=============================================================================
