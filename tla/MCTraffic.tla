------------------------------ MODULE MCTraffic ------------------------------
(* Traffic on a small instance; the configurations set its bounds. *)
EXTENDS Traffic
=============================================================================
