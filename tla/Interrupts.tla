----------------------------- MODULE Interrupts -----------------------------
(***************************************************************************)
(* Interrupts, from kernel_main's first call to the hlt loop: the two      *)
(* 8259 controllers as pic.c programs them, the GDT of gdt.c and the IDT   *)
(* of interrupts.c that a delivered interrupt goes through, the keyboard   *)
(* stub and handler, and the devices that raise lines at any time: the     *)
(* timer (IRQ 0), the keyboard controller (IRQ 1), the disk (IRQ 14), and  *)
(* any others, which the kernel neither masks nor has a gate for.          *)
(*                                                                         *)
(* What a key does to the screen and the command line is module Console,   *)
(* what a disk command does is module Disk; here a key matters for what    *)
(* the command it completes does to interrupts.  "memtest 2" executes cli  *)
(* and sti inside the handler; a disk command makes the drive raise its    *)
(* line, although the driver polls, and may poll for ever.                 *)
(***************************************************************************)
EXTENDS Integers, Sequences, FiniteSets

CONSTANTS
    Device,    \* the lines that have a device: 0, 1, 14 and others
    BootCS,    \* the code selectors a boot loader may leave in CS
    Bytes,     \* what a byte from the keyboard completes
    MaxBytes   \* bound: bytes the keyboard sends

IRQ    == 0 .. 15
Master == 0 .. 7
Slave  == 8 .. 15

\* The lines of the devices that no code of the kernel is about.
Stray == Device \ {0, 1, 2, 14}

ASSUME InterruptsAssumption ==
    /\ Device \subseteq IRQ
    /\ BootCS \subseteq Nat /\ BootCS # {}
    /\ Bytes \subseteq {"key", "memtest2", "disk"}
    /\ MaxBytes \in Nat

VARIABLES
    pic,     \* both controllers: mask, request and in-service bits, offsets
    gdt,     \* what each selector of the loaded GDT describes
    idt,     \* the gates of the loaded IDT, by vector
    cs,      \* the code selector the kernel runs with
    iflag,   \* IF of EFLAGS
    boot,    \* kernel_main: the next call
    frames,  \* the interrupt handlers that run, the innermost last
    kbd,     \* keyboard controller: output buffer, and the bytes behind it
    ata,     \* the drive has a command and has not raised its line yet
    cpu,     \* "run", or "halted" in an exception handler
    typed,   \* ghost: the bytes sent, in order
    got,     \* ghost: the bytes the handler took from port 0x60, in order
    deaf     \* ghost: the output buffer was full when pic_remap ran

system  == <<pic, gdt, idt, cs, iflag, boot, frames, cpu>>
vars == <<pic, gdt, idt, cs, iflag, boot, frames, kbd, ata, cpu,
          typed, got, deaf>>

Lowest(S) == CHOOSE i \in S : \A j \in S : i <= j
-----------------------------------------------------------------------------
(* pic.c *)

\* Mutants: a line number of 8 bits and more is shifted out; the slave's bit
\* numbers do not start at 0.
LineBitDropped(irq) == IF irq \in IRQ THEN {irq} ELSE {}
LineBitKeeps8(irq)  == IF irq < 8 THEN {irq} ELSE {8 + (irq % 32)}

\* The mask bit 1 << irq of the controller that the number selects.  The count
\* of the processor's shift is taken modulo 32 and the mask is a byte, so the
\* vector 46, which kernel_main passes, is bit 6 of the slave: IRQ 14.
LineBit(irq) ==
    IF irq < 8 THEN {irq}
    ELSE {b \in Slave : b - 8 = (irq - 8) % 32}

\* Mutant: the bit is set, as in pic_disable_irq.
pic_enable_irq_sets(p, irq) == [p EXCEPT !.imr = @ \cup LineBit(irq)]

pic_enable_irq(p, irq)  == [p EXCEPT !.imr = @ \ LineBit(irq)]
pic_disable_irq(p, irq) == [p EXCEPT !.imr = @ \cup LineBit(irq)]

\* Initialisation forgets every request and makes each line wait for its next
\* edge; the masks are read before and written back after it.
pic_remap(p, offset1, offset2) ==
    [p EXCEPT !.irr = {}, !.isr = {}, !.offset1 = offset1, !.offset2 = offset2]

\* A non-specific end of interrupt clears the most urgent in-service bit.
EndOfInterrupt(isr, chip) ==
    IF isr \cap chip = {} THEN isr ELSE isr \ {Lowest(isr \cap chip)}

\* Mutant: the master is told only about the slave's interrupts.
pic_send_eoi_slave_only(p, irq) ==
    [p EXCEPT !.isr = IF irq >= 8 THEN EndOfInterrupt(EndOfInterrupt(@, Slave), Master)
                      ELSE @]

pic_send_eoi(p, irq) ==
    [p EXCEPT !.isr = EndOfInterrupt(IF irq >= 8 THEN EndOfInterrupt(@, Slave)
                                     ELSE @, Master)]
-----------------------------------------------------------------------------
(* The controllers: fully nested mode, the slave on line 2 of the master. *)

RequestsOf(p, chip, cascade) ==
    {i \in ((p.irr \cap chip) \cup cascade) \ p.imr :
        \A s \in p.isr \cap chip : i < s}

SlaveRequests(p)  == RequestsOf(p, Slave, {})
MasterRequests(p) ==
    RequestsOf(p, Master, IF SlaveRequests(p) = {} THEN {} ELSE {2})

Requested(p) ==
    LET i == Lowest(MasterRequests(p))
    IN  IF i = 2 THEN Lowest(SlaveRequests(p)) ELSE i

Acknowledge(p, irq) ==
    [p EXCEPT !.irr = @ \ {irq},
              !.isr = @ \cup {irq} \cup (IF irq \in Slave THEN {2} ELSE {})]

Vector(p, irq) ==
    IF irq \in Master THEN p.offset1 + irq ELSE p.offset2 + irq - 8

Raise(irq) == pic' = [pic EXCEPT !.irr = @ \cup {irq}]
-----------------------------------------------------------------------------
(* gdt.c and interrupts.c *)

\* gdt_set_entry's six descriptors, by selector.
KernelGdt ==
    [s \in {0, 8, 16, 24, 32, 40} |->
        CASE s = 0  -> "null"
          [] s = 8  -> "kernel code"
          [] s = 16 -> "kernel data"
          [] s = 24 -> "user code"
          [] s = 32 -> "user data"
          [] s = 40 -> "tss"]

\* Mutant: gates of type 0xF, which leave IF as it is.
TrapGate(handler) == [handler |-> handler, selector |-> cs, clearsIF |-> FALSE]

\* set_idt_entry with the current code selector; type 0xE clears IF.
InterruptGate(handler) == [handler |-> handler, selector |-> cs, clearsIF |-> TRUE]

\* install_idt empties all 256 gates, init_interrupts sets eight of them.
KernelIdt ==
    [v \in {0, 8, 13, 14, 32, 33, 129, 130} |->
        CASE v = 33 -> InterruptGate("keyboard")
          [] v = 32 -> InterruptGate("timer")
          [] v \in {129, 130} -> InterruptGate("software")
          [] OTHER -> InterruptGate("exception")]

\* The processor accepts a gate whose selector is a kernel code segment.
Usable(v) ==
    /\ v \in DOMAIN idt
    /\ idt[v].selector \in DOMAIN gdt
    /\ gdt[idt[v].selector] = "kernel code"

-----------------------------------------------------------------------------
(* kernel.c *)

\* Mutant: the IDT is filled before CS is reloaded.
BootOrderIdtFirst == <<"pic_remap", "masks", "init_interrupts", "init_gdt", "sti", "prompt">>

\* The calls of kernel_main that this module is about.
BootOrder == <<"pic_remap", "masks", "init_gdt", "init_interrupts", "sti", "prompt">>

Calls(name) == boot \in DOMAIN BootOrder /\ BootOrder[boot] = name

\* kernel_main runs when no handler does.
InMain(name) ==
    /\ cpu = "run" /\ frames = <<>> /\ Calls(name)
    /\ boot' = boot + 1
    /\ UNCHANGED <<frames, kbd, ata, cpu, typed, got>>

main_remap ==
    /\ InMain("pic_remap")
    /\ pic' = pic_remap(pic, 32, 40)
    /\ deaf' = kbd.full
    /\ UNCHANGED <<gdt, idt, cs, iflag>>

main_masks ==
    /\ InMain("masks")
    /\ pic' = pic_enable_irq(pic_disable_irq(pic_disable_irq(pic, 46), 0), 1)
    /\ UNCHANGED <<gdt, idt, cs, iflag, deaf>>

\* The far jump of gdt_load reloads CS.
init_gdt ==
    /\ InMain("init_gdt")
    /\ gdt' = KernelGdt /\ cs' = 8
    /\ UNCHANGED <<pic, idt, iflag, deaf>>

init_interrupts ==
    /\ InMain("init_interrupts")
    /\ idt' = KernelIdt
    /\ UNCHANGED <<pic, gdt, cs, iflag, deaf>>

main_sti ==
    /\ InMain("sti")
    /\ iflag' = TRUE
    /\ UNCHANGED <<pic, gdt, idt, cs, deaf>>

main_prompt == InMain("prompt") /\ UNCHANGED <<pic, gdt, idt, cs, iflag, deaf>>

\* What a boot loader leaves: interrupts off, the BIOS's offsets and whatever
\* masks it used, a GDT and an IDT that the kernel cannot count on.
Init ==
    /\ pic \in [imr : SUBSET (Device \cup {2}), irr : {{}}, isr : {{}},
                offset1 : {8}, offset2 : {112}]
    /\ gdt = [s \in {} |-> "null"]
    /\ idt = [v \in {} |-> InterruptGate("none")]
    /\ cs \in BootCS
    /\ iflag = FALSE
    /\ boot = 1 /\ frames = <<>> /\ cpu = "run"
    /\ kbd = [full |-> FALSE, out |-> "key", fifo |-> <<>>]
    /\ ata = FALSE
    /\ typed = <<>> /\ got = <<>> /\ deaf = FALSE
-----------------------------------------------------------------------------
(* The processor takes an interrupt between two instructions. *)

\* The exception handlers print and execute hlt with IF clear: the last step.
Halts == cpu' = "halted" /\ UNCHANGED <<frames, iflag>>
general_protection_fault_handler == Halts
page_fault_handler == Halts

\* isr_wrapper_32 calls schedule, which reads current_process->next: with no
\* process yet, current_process is NULL.
isr_wrapper_32 == page_fault_handler

\* A gate's code starts with a frame that holds IF for iret.
Enter(gate) ==
    /\ frames' = Append(frames, [handler |-> gate.handler, at |-> "entered",
                                byte |-> "key", iflag |-> iflag])
    /\ iflag' = (iflag /\ ~gate.clearsIF)
    /\ UNCHANGED cpu

\* With no usable gate the processor raises general protection instead.
deliver ==
    /\ cpu = "run" /\ iflag /\ MasterRequests(pic) # {}
    /\ LET irq == Requested(pic)
           v   == Vector(pic, irq)
       IN  /\ pic' = Acknowledge(pic, irq)
           /\ IF ~Usable(v) THEN general_protection_fault_handler
              ELSE IF idt[v].handler = "timer" THEN isr_wrapper_32
              ELSE Enter(idt[v])
    /\ UNCHANGED <<gdt, idt, cs, boot, kbd, ata, typed, got, deaf>>

Top == frames[Len(frames)]
At(handler, place) ==
    /\ cpu = "run" /\ frames # <<>>
    /\ Top.handler = handler /\ Top.at = place
Goto(place) == frames' = [frames EXCEPT ![Len(frames)].at = place]

\* Mutants: the end of interrupt comes before the work; the port is read twice.
keyboard_read_eoi_first ==
    /\ At("keyboard", "entered")
    /\ kbd' = [kbd EXCEPT !.full = FALSE]
    /\ got' = Append(got, kbd.out)
    /\ pic' = pic_send_eoi(pic, 1)
    /\ frames' = [frames EXCEPT ![Len(frames)].at = "work",
                                ![Len(frames)].byte = kbd.out]
    /\ UNCHANGED <<gdt, idt, cs, iflag, boot, ata, cpu, typed, deaf>>
keyboard_read_again ==
    /\ At("keyboard", "entered")
    /\ kbd' = [kbd EXCEPT !.full = FALSE]
    /\ got' = got \o <<kbd.out, kbd.out>>
    /\ frames' = [frames EXCEPT ![Len(frames)].at = "work",
                                ![Len(frames)].byte = kbd.out]
    /\ UNCHANGED <<pic, gdt, idt, cs, iflag, boot, ata, cpu, typed, deaf>>

\* inb(KEYBOARD_DATA_PORT): the byte, which may be an old one, leaves the buffer.
keyboard_read ==
    /\ At("keyboard", "entered")
    /\ kbd' = [kbd EXCEPT !.full = FALSE]
    /\ got' = Append(got, kbd.out)
    /\ frames' = [frames EXCEPT ![Len(frames)].at = "work",
                                ![Len(frames)].byte = kbd.out]
    /\ UNCHANGED <<pic, gdt, idt, cs, iflag, boot, ata, cpu, typed, deaf>>

\* The key, and the command when it was Enter: cli and sti three times in
\* cmd_memtest_v2, with the last sti left in force; commands to the drive.  The
\* driver's waits have no limit and do not look at ERR: with no drive, or after
\* the drive reported an error, the handler stays in one of them, before or
\* after it sent the command.
keyboard_work ==
    /\ At("keyboard", "work")
    /\ iflag' = (iflag \/ Top.byte = "memtest2")
    /\ \/ ata' = (ata \/ Top.byte = "disk") /\ Goto("end")
       \/ Top.byte = "disk" /\ ata' \in {ata, TRUE} /\ Goto("polling")
    /\ UNCHANGED <<pic, gdt, idt, cs, boot, kbd, cpu, typed, got, deaf>>

keyboard_eoi ==
    /\ At("keyboard", "end")
    /\ pic' = pic_send_eoi(pic, 1)
    /\ Goto("iret")
    /\ UNCHANGED <<gdt, idt, cs, iflag, boot, kbd, ata, cpu, typed, got, deaf>>

\* popa and iret of isr_wrapper_33.
keyboard_iret ==
    /\ At("keyboard", "iret")
    /\ iflag' = Top.iflag
    /\ frames' = SubSeq(frames, 1, Len(frames) - 1)
    /\ UNCHANGED <<pic, gdt, idt, cs, boot, kbd, ata, cpu, typed, got, deaf>>
-----------------------------------------------------------------------------
(* The devices. *)

key_typed ==
    /\ Len(typed) < MaxBytes
    /\ \E b \in Bytes :
          /\ typed' = Append(typed, b)
          /\ kbd' = [kbd EXCEPT !.fifo = Append(@, b)]
    /\ UNCHANGED <<system, ata, got, deaf>>

\* The next byte enters the output buffer: the line rises.
kbd_next_byte ==
    /\ ~kbd.full /\ kbd.fifo # <<>>
    /\ kbd' = [full |-> TRUE, out |-> Head(kbd.fifo), fifo |-> Tail(kbd.fifo)]
    /\ Raise(1)
    /\ UNCHANGED <<gdt, idt, cs, iflag, boot, frames, ata, cpu, typed, got, deaf>>

timer_tick ==
    /\ 0 \in Device /\ Raise(0)
    /\ UNCHANGED <<gdt, idt, cs, iflag, boot, frames, kbd, ata, cpu, typed, got, deaf>>

ata_interrupt ==
    /\ ata /\ Raise(14)
    /\ ata' = FALSE
    /\ UNCHANGED <<gdt, idt, cs, iflag, boot, frames, kbd, cpu, typed, got, deaf>>

other_interrupt ==
    /\ \E irq \in Stray : Raise(irq)
    /\ UNCHANGED <<gdt, idt, cs, iflag, boot, frames, kbd, ata, cpu, typed, got, deaf>>

kernel_main ==
    \/ main_remap \/ main_masks \/ init_gdt \/ init_interrupts
    \/ main_sti \/ main_prompt

isr_wrapper_33 == keyboard_read \/ keyboard_work \/ keyboard_eoi \/ keyboard_iret

Processor == kernel_main \/ deliver \/ isr_wrapper_33

Next ==
    \/ Processor \/ key_typed \/ kbd_next_byte \/ timer_tick \/ ata_interrupt
    \/ other_interrupt

\* The processor runs, and takes a pending interrupt at some instruction; the
\* keyboard controller refills its buffer.  Nobody has to type, and no drive has
\* to answer: fairness does not keep the handler out of "polling", which no
\* step leaves.
Spec ==
    /\ Init /\ [][Next]_vars
    /\ WF_vars(kernel_main \/ isr_wrapper_33)
    /\ WF_vars(deliver) /\ WF_vars(kbd_next_byte)
-----------------------------------------------------------------------------
(* Properties. *)

TypeOK ==
    /\ pic \in [imr : SUBSET IRQ, irr : SUBSET IRQ, isr : SUBSET IRQ,
                offset1 : {8, 32}, offset2 : {40, 112}]
    /\ cs \in BootCS \cup {8} /\ iflag \in BOOLEAN /\ ata \in BOOLEAN
    /\ boot \in 1 .. Len(BootOrder) + 1
    /\ \A i \in DOMAIN frames :
          frames[i] \in [handler : {"keyboard"}, byte : Bytes \cup {"key"},
                         at : {"entered", "work", "polling", "end", "iret"},
                         iflag : BOOLEAN]
    /\ kbd.full \in BOOLEAN /\ kbd.out \in Bytes \cup {"key"}
    /\ typed \in Seq(Bytes) /\ got \in Seq(Bytes \cup {"key"})
    /\ cpu \in {"run", "halted"} /\ deaf \in BOOLEAN

\* No device of a stray line reaches the processor: pic_remap restores the masks
\* the BIOS used, and these mask the line, or the cascade in front of it.
StraysMasked ==
    \A irq \in Stray : irq \in pic.imr \/ (irq \in Slave /\ 2 \in pic.imr)

\* Whatever the BIOS left in the masks of the timer's, the keyboard's, the
\* drive's line and the cascade, and whenever a device raises its line, the
\* processor is only ever sent through a gate that exists, to kernel code, and
\* never into the scheduler before there is a process: unless the BIOS left
\* the line of another device open, for which there is no gate.
NeverHalts == StraysMasked => cpu = "run"

\* keyboard_interrupt_handler works on command_buffer, buffer_pos, the cursor
\* and the heap without a lock: at most one activation is between its first
\* instruction and its pic_send_eoi, although cmd_memtest_v2 turns interrupts
\* on in the middle of it.
HandlersSerial ==
    Cardinality({i \in DOMAIN frames : frames[i].at # "iret"}) <= 1

\* The boot stack is the only one: activations pile up on it only when a
\* command turned interrupts on and a byte comes before its iret.
NestingBounded ==
    Len(frames) <= 1 + Cardinality({i \in DOMAIN got : got[i] = "memtest2"})

\* The handler sees the bytes the keyboard sent, each once and in order.
BytesInOrder ==
    Len(got) <= Len(typed) /\ got = SubSeq(typed, 1, Len(got))

\* A disk command whose wait for the drive never ends.
Polling == \E i \in DOMAIN frames : frames[i].at = "polling"

\* A byte that the keyboard sends is handled in the end, with three exceptions.
\* The output buffer was already full when pic_remap reset the edge detection:
\* then the line never rises again.  A disk command met a drive error or no
\* drive: ata_disk_driver.c waits for BSY or DRQ without a limit, inside the
\* handler and before its end of interrupt.  The processor stopped, which
\* NeverHalts is about.
BytesServed ==
    \A n \in 1 .. MaxBytes :
        Len(typed) >= n ~>
            (Len(got) >= n \/ deaf \/ Polling \/ cpu = "halted")
=============================================================================
