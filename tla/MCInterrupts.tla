---------------------------- MODULE MCInterrupts ----------------------------
(* Interrupts for TLC. *)
EXTENDS Interrupts

\* The mouse (IRQ 12) and the floppy drive (IRQ 6) stand for the lines that the
\* kernel has no code for.
AllDevices == {0, 1, 6, 12, 14}
=============================================================================
