------------------------------ MODULE MCVolume ------------------------------
(* Small instances of Volume for TLC. *)
EXTENDS Volume

CONSTANT First  \* the server the volume is created on

(* Servers differ in nothing: a behaviour that creates the volume elsewhere is
   one of these with the servers' names exchanged. *)
OnFirst == \A c \in Calls : call[c].op = "create" => call[c].server = First
=============================================================================
