------------------------------- MODULE MCPMM -------------------------------
(* The physical memory manager for TLC.  The state space is finite without *)
(* a bound of its own: frames are finite and used_frames wraps.            *)
EXTENDS PMM
=============================================================================
