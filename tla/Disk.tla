-------------------------------- MODULE Disk --------------------------------
(***************************************************************************)
(* The ATA driver (src/lib/ata_disk_driver.c) and the shell's disk         *)
(* commands, against a drive that works at its own pace.                   *)
(*                                                                         *)
(* The driver polls the status register; each action below is the end of   *)
(* one wait with the port accesses that follow it.  The drive is external: *)
(* BSY and DRQ as the driver reads them, a queue of sectors left, a write  *)
(* cache, and commands that are ignored while BSY or DRQ is set.  A sector *)
(* is one value, moved as a whole; the loops over its 256 words are one    *)
(* step, because DRQ stays set until the last word.                        *)
(***************************************************************************)
EXTENDS Integers, Sequences, FiniteSets

CONSTANTS
    Byte,       \* values of a register of the LBA (256)
    Nibble,     \* values of the LBA bits in the drive register (16)
    MaxCount,   \* what a sector count of 0 means to the drive (256)
    Lbas,       \* addresses diskW is given
    Counts,     \* sector counts diskW is given
    Values,     \* contents a caller writes
    ReadLba,    \* the address diskR reads, whatever it was given (49)
    ReadCount   \* the sectors diskR reads, whatever it was given (10)

LbaLimit == Byte * Byte * Byte * Nibble
Sector   == 0 .. LbaLimit + MaxCount - 1
Request  == [op : {"read", "write"}, lba : 0 .. LbaLimit - 1, count : Nat, value : Values]

ASSUME DiskAssumption ==
    /\ Byte \in Nat \ {0} /\ Nibble \in Nat \ {0} /\ MaxCount \in Nat \ {0}
    /\ Lbas \cup {ReadLba} \subseteq 0 .. LbaLimit - 1
    /\ Counts \cup {ReadCount} \subseteq 0 .. MaxCount - 1
    /\ Values # {}

VARIABLES
    pc,       \* where the driver is
    req,      \* the arguments of the call in progress
    s,        \* the sector loop's counter
    buffer,   \* the sectors a read has stored, in order
    regs,     \* sector count and LBA registers
    drive,    \* status bits, command, next sector, sectors left
    media,    \* contents of every sector
    dirty,    \* sectors that are only in the drive's write cache
    before,   \* ghost: media when the call started
    failed    \* ghost: the drive answered this call with ERR, which the
              \* driver never reads

driverVars == <<pc, req, s, buffer, regs, before>>
driveVars  == <<drive, media, dirty, failed>>
vars == <<driverVars, driveVars>>

\* The contents of sector i of a caller's buffer.
Data(value, i) == <<value, i>>
Blank == <<"blank">>

Init ==
    /\ pc = "idle"
    /\ req \in {[op |-> "read", lba |-> ReadLba, count |-> ReadCount, value |-> v] :
                    v \in {CHOOSE v \in Values : TRUE}}
    /\ s = 0 /\ buffer = <<>>
    /\ regs = [count |-> 0, low |-> 0, mid |-> 0, high |-> 0, top |-> 0]
    /\ drive = [bsy |-> FALSE, drq |-> FALSE, op |-> "none", lba |-> 0, left |-> 0]
    /\ media = [n \in Sector |-> Blank]
    /\ dirty = {} /\ before = media /\ failed = FALSE
-----------------------------------------------------------------------------
(* The shell. *)

Call(op, lba, count, value) ==
    /\ pc = "idle"
    /\ req' = [op |-> op, lba |-> lba, count |-> count, value |-> value]
    /\ buffer' = <<>> /\ before' = media
    /\ pc' = "program" /\ failed' = FALSE
    /\ UNCHANGED <<s, regs, drive, media, dirty>>

\* diskW <lba> <count> <data>, past the checks of its arguments.
diskW == \E lba \in Lbas, count \in Counts, value \in Values :
            Call("write", lba, count, value)

\* diskR <lba> <count>: both numbers are checked and then not used.
diskR == Call("read", ReadLba, ReadCount, req.value)
-----------------------------------------------------------------------------
(* The driver. *)

\* Mutant: the middle byte is shifted as far as the high one.
LbaRegistersShifted(lba, count) ==
    [count |-> count,
     low  |-> lba % Byte,
     mid  |-> (lba \div (Byte * Byte)) % Byte,
     high |-> (lba \div (Byte * Byte)) % Byte,
     top  |-> (lba \div (Byte * Byte * Byte)) % Nibble]

\* Mutant: the middle byte is not cut to a byte.
LbaRegistersUncut(lba, count) ==
    [count |-> count,
     low  |-> lba % Byte,
     mid  |-> lba \div Byte,
     high |-> (lba \div (Byte * Byte)) % Byte,
     top  |-> (lba \div (Byte * Byte * Byte)) % Nibble]

\* get_low_lba, get_mid_lba, get_high_lba, set_master_slave_super_lba.
LbaRegisters(lba, count) ==
    [count |-> count,
     low  |-> lba % Byte,
     mid  |-> (lba \div Byte) % Byte,
     high |-> (lba \div (Byte * Byte)) % Byte,
     top  |-> (lba \div (Byte * Byte * Byte)) % Nibble]

\* ata_wait_ready, then the five registers.
ata_program ==
    /\ pc = "program" /\ ~drive.bsy
    /\ regs' = LbaRegisters(req.lba, req.count)
    /\ pc' = "command"
    /\ UNCHANGED <<req, s, buffer, before, driveVars>>

\* The sectors a count stands for in the drive.
Asked(count) == IF count = 0 THEN MaxCount ELSE count

\* What the drive does with a write to its command register.
Accept(op) ==
    drive' = IF drive.bsy \/ drive.drq THEN drive
             ELSE [bsy |-> TRUE, drq |-> FALSE, op |-> op,
                   lba |-> regs.low + Byte * (regs.mid
                             + Byte * (regs.high + Byte * regs.top)),
                   left |-> IF op = "flush" THEN 0 ELSE Asked(regs.count)]

\* The wait for BSY, then ATA_CMD_READ or ATA_CMD_WRITE.
ata_command ==
    /\ pc = "command" /\ ~drive.bsy
    /\ Accept(req.op)
    /\ s' = 0
    /\ pc' = "sector"
    /\ UNCHANGED <<req, buffer, regs, before, media, dirty, failed>>

\* The drive when a sector has gone through the data port.
AfterSector ==
    [drive EXCEPT !.lba = @ + 1, !.left = @ - 1, !.drq = FALSE,
                  !.bsy = drive.left > 1 \/ drive.op = "write",
                  !.op = IF drive.left > 1 \/ drive.op = "write" THEN @ ELSE "none"]

\* Mutant: the loop ends one sector early.
ata_read_loop_short ==
    /\ pc = "sector" /\ req.op = "read" /\ s + 1 < req.count
    /\ ~drive.bsy /\ drive.drq
    /\ buffer' = Append(buffer, media[drive.lba])
    /\ drive' = AfterSector
    /\ s' = s + 1
    /\ UNCHANGED <<pc, req, regs, before, media, dirty, failed>>

\* Mutant: buffer[i] for buffer[s * 256 + i].
ata_read_loop_first ==
    /\ pc = "sector" /\ req.op = "read" /\ s < req.count
    /\ ~drive.bsy /\ drive.drq
    /\ buffer' = <<media[drive.lba]>>
    /\ drive' = AfterSector
    /\ s' = s + 1
    /\ UNCHANGED <<pc, req, regs, before, media, dirty, failed>>

\* One round of ata_read_sector's loop: ata_wait_ready, the wait for DRQ, the
\* 256 words.
ata_read_loop ==
    /\ pc = "sector" /\ req.op = "read" /\ s < req.count
    /\ ~drive.bsy /\ drive.drq
    /\ buffer' = Append(buffer, media[drive.lba])
    /\ drive' = AfterSector
    /\ s' = s + 1
    /\ UNCHANGED <<pc, req, regs, before, media, dirty, failed>>

\* One round of ata_write_sector's loop.
ata_write_loop ==
    /\ pc = "sector" /\ req.op = "write" /\ s < req.count
    /\ ~drive.bsy /\ drive.drq
    /\ media' = [media EXCEPT ![drive.lba] = Data(req.value, s)]
    /\ dirty' = dirty \cup {drive.lba}
    /\ drive' = AfterSector
    /\ s' = s + 1
    /\ UNCHANGED <<pc, req, buffer, regs, before, failed>>

\* The end of ata_read_sector's loop, after the ata_wait_ready before it.
ata_read_return ==
    /\ pc = "sector" /\ req.op = "read" /\ s = req.count
    /\ s = 0 => ~drive.bsy
    /\ pc' = "done"
    /\ UNCHANGED <<req, s, buffer, regs, before, driveVars>>

\* The end of ata_write_sector's loop: 0xE7, flush cache, at once.
ata_flush ==
    /\ pc = "sector" /\ req.op = "write" /\ s = req.count
    /\ s = 0 => ~drive.bsy
    /\ Accept("flush")
    /\ pc' = "flush"
    /\ UNCHANGED <<req, s, buffer, regs, before, media, dirty, failed>>

\* Mutant: the wait after the flush command is for BSY to be set.
ata_write_return_busy ==
    /\ pc = "flush" /\ drive.bsy
    /\ pc' = "done"
    /\ UNCHANGED <<req, s, buffer, regs, before, driveVars>>

\* The last ata_wait_ready of ata_write_sector.
ata_write_return ==
    /\ pc = "flush" /\ ~drive.bsy
    /\ pc' = "done"
    /\ UNCHANGED <<req, s, buffer, regs, before, driveVars>>

\* The command has printed its answer and the prompt is back.
return_to_shell ==
    /\ pc = "done"
    /\ pc' = "idle"
    /\ UNCHANGED <<req, s, buffer, regs, before, driveVars>>

Driver ==
    \/ ata_program \/ ata_command
    \/ ata_read_loop \/ ata_read_return
    \/ ata_write_loop \/ ata_flush \/ ata_write_return
    \/ return_to_shell
-----------------------------------------------------------------------------
(* The drive. *)

\* BSY ends: the next sector is wanted or ready, the last one is written, or
\* the cache is on the medium.
drive_proceeds ==
    /\ drive.bsy
    /\ IF drive.op = "flush" \/ drive.left = 0
       THEN /\ drive' = [drive EXCEPT !.bsy = FALSE, !.op = "none"]
            /\ dirty' = IF drive.op = "flush" THEN {} ELSE dirty
       ELSE /\ drive' = [drive EXCEPT !.bsy = FALSE, !.drq = TRUE]
            /\ UNCHANGED dirty
    /\ UNCHANGED <<driverVars, media, failed>>

\* BSY ends with ERR and without DRQ; a sector just taken is not stored.
drive_fails ==
    /\ drive.bsy /\ drive.op \in {"read", "write"}
    /\ drive' = [drive EXCEPT !.bsy = FALSE, !.op = "none", !.left = 0]
    /\ media' = IF drive.op = "write" /\ s > 0
                THEN [media EXCEPT ![drive.lba - 1] = before[drive.lba - 1]]
                ELSE media
    /\ failed' = TRUE
    /\ UNCHANGED <<driverVars, dirty>>

Drive == drive_proceeds \/ drive_fails

Next == diskW \/ diskR \/ Driver \/ Drive

\* The driver's loops run on, and the drive ends every BSY.
Spec == Init /\ [][Next]_vars /\ WF_vars(Driver) /\ WF_vars(Drive)
-----------------------------------------------------------------------------
(* Properties. *)

\* The registers of the driver and of the drive keep their widths, and the drive
\* never asks for data while it is busy.
TypeOK ==
    /\ pc \in {"idle", "program", "command", "sector", "flush", "done"}
    /\ req \in Request /\ s \in 0 .. MaxCount
    /\ buffer \in Seq({Blank} \cup (Values \X Nat))
    /\ regs \in [count : 0 .. MaxCount - 1, low : 0 .. Byte - 1, mid : 0 .. Byte - 1,
                high : 0 .. Byte - 1, top : 0 .. Nibble - 1]
    /\ drive.lba \in Sector /\ drive.left \in 0 .. MaxCount
    /\ drive.bsy => ~drive.drq
    /\ dirty \subseteq Sector /\ failed \in BOOLEAN

\* A read that returns has stored the sectors that were asked for, all of them
\* and in order, and has changed nothing on the disk.
ReadExact ==
    pc = "done" /\ req.op = "read" =>
        /\ buffer = [i \in 1 .. Asked(req.count) |-> media[req.lba + i - 1]]
        /\ media = before

\* A write that returns has changed exactly the sectors that were asked for,
\* each to its part of the caller's buffer, unless the drive reported an error.
WriteExact ==
    pc = "done" /\ req.op = "write" /\ ~failed =>
        media = [n \in Sector |->
                    IF n \in req.lba .. req.lba + Asked(req.count) - 1
                    THEN Data(req.value, n - req.lba) ELSE before[n]]

\* Between two calls the drive is at rest: not busy and nothing left to
\* transfer, so the next command is not ignored.
DriveAtRest == pc = "idle" => drive.left = 0 /\ ~drive.drq /\ ~drive.bsy

\* Every call returns, unless the drive answers a command with an error.
CallEnds == pc # "idle" ~> pc = "idle" \/ failed

\* "Successfully wrote to disk": when ata_write_sector returns, the drive's
\* cache has been flushed.
WriteDurable == pc = "done" /\ req.op = "write" /\ ~failed => dirty = {}
=============================================================================
