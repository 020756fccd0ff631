---------------------------- MODULE MCConnManager ----------------------------
(* Small instances of ConnManager for TLC. *)
EXTENDS ConnManager
=============================================================================
