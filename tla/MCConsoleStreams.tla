-------------------------- MODULE MCConsoleStreams --------------------------
(* Small instances of ConsoleStreams for TLC. *)
EXTENDS ConsoleStreams
=============================================================================
