--------------------------- MODULE MCCommandLine ---------------------------
(* The command line for TLC. *)
EXTENDS CommandLine
=============================================================================
