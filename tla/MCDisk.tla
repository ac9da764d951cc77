------------------------------- MODULE MCDisk -------------------------------
(* The disk for TLC: registers of 2 values, 16 addresses. *)
EXTENDS Disk
=============================================================================
