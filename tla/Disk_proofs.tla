---------------------------- MODULE Disk_proofs ----------------------------
(***************************************************************************)
(* Proofs about the ATA driver, for every size of the registers, every     *)
(* address and count a caller may pass, and any pace and errors of the     *)
(* drive.                                                                  *)
(***************************************************************************)
EXTENDS Disk, NumberFacts, SequenceTheorems, TLAPS

Content == {Blank} \cup (Values \X Nat)

Registers ==
    [count : 0 .. MaxCount - 1, low : 0 .. Byte - 1, mid : 0 .. Byte - 1,
     high : 0 .. Byte - 1, top : 0 .. Nibble - 1]

DriveState ==
    [bsy : BOOLEAN, drq : BOOLEAN, op : {"none", "read", "write", "flush"},
     lba : Sector, left : 0 .. MaxCount]

(* The types, which hold whatever count a caller passes: the drive only asks *)
(* for data while sectors are left, and those lie on the disk.               *)
Typed ==
    /\ pc \in {"idle", "program", "command", "sector", "flush", "done"}
    /\ req \in Request /\ req.count < MaxCount
    /\ s \in 0 .. MaxCount
    /\ buffer \in Seq(Content) /\ regs \in Registers /\ drive \in DriveState
    /\ media \in [Sector -> Content] /\ before \in [Sector -> Content]
    /\ dirty \subseteq Sector /\ failed \in BOOLEAN
    /\ drive.bsy => ~drive.drq
    /\ drive.drq => drive.left > 0
    /\ drive.lba + drive.left <= LbaLimit + MaxCount - 1

(* The call in progress.  A count of 0 is 256 sectors to the drive and none  *)
(* to the driver, so what follows is proved for the other counts.            *)

\* The driver's loop and the drive's own count agree until the drive fails.
LoopAgrees ==
    pc = "sector" =>
        /\ s <= req.count
        /\ drive.drq => drive.op = req.op
        /\ drive.bsy => drive.op = req.op /\ (req.op = "read" => s < req.count)
        /\ failed => /\ ~drive.bsy /\ ~drive.drq /\ drive.left = 0
                     /\ req.op = "read" => s < req.count
        /\ ~failed => /\ drive.lba = req.lba + s
                      /\ drive.left = req.count - s

AtRest ==
    /\ pc \in {"idle", "program", "command", "done"} =>
          drive.left = 0 /\ ~drive.drq /\ ~drive.bsy
    /\ pc = "flush" =>
          /\ req.op = "write" /\ drive.left = 0 /\ ~drive.drq
          /\ drive.bsy => drive.op \in {"write", "flush"}

\* What the call has done so far.
Written(n) == [k \in Sector |-> IF k \in req.lba .. req.lba + n - 1
                                THEN Data(req.value, k - req.lba) ELSE before[k]]
Transferred ==
    /\ req.count > 0
    /\ pc \in {"program", "command"} => media = before /\ ~failed /\ buffer = <<>>
    /\ pc = "command" => regs = LbaRegisters(req.lba, req.count)
    /\ pc \in {"flush", "done"} => s = req.count
    /\ pc \in {"sector", "done"} /\ req.op = "read" =>
          media = before /\ buffer = [i \in 1 .. s |-> media[req.lba + i - 1]]
    /\ pc \in {"sector", "flush", "done"} /\ req.op = "write" /\ ~failed =>
          media = Written(s)

IInv == Typed /\ LoopAgrees /\ AtRest /\ Transferred
-----------------------------------------------------------------------------
(* Arithmetic of the registers. *)

\* Three divisions in a row are one by the product.
LEMMA DivideThrice ==
    ASSUME NEW x \in Nat, NEW b \in Nat \ {0}
    PROVE  x \div (b * b * b) = ((x \div b) \div b) \div b
<1>1. PICK c \in Nat \ {0} : c = b * b
  BY ProductPositive
<1>2. x \div (c * b) = (x \div c) \div b
  BY DivideTwice
<1>3. x \div c = (x \div b) \div b
  BY <1>1, DivideTwice
<1>. QED
  BY <1>1, <1>2, <1>3

\* get_low_lba, get_mid_lba, get_high_lba and set_master_slave_super_lba split
\* an LBA into four registers that fit, and the drive puts the same LBA
\* together again.
LEMMA RegistersRoundTrip ==
    ASSUME NEW lba \in 0 .. LbaLimit - 1, NEW count \in 0 .. MaxCount - 1,
           NEW r, r = LbaRegisters(lba, count)
    PROVE  /\ r \in Registers /\ r.count = count
           /\ r.low + Byte * (r.mid + Byte * (r.high + Byte * r.top)) = lba
<1>. USE DiskAssumption
<1>. DEFINE q1 == lba \div Byte
            q2 == q1 \div Byte
            q3 == q2 \div Byte
<1>1. LbaLimit \in Nat \ {0} /\ lba \in Nat
  BY ProductPositive DEF LbaLimit
<1>2. q1 \in Nat /\ lba % Byte \in 0 .. Byte - 1 /\ lba = (lba % Byte) + Byte * q1
  BY <1>1, Division
<1>3. q2 \in Nat /\ q1 % Byte \in 0 .. Byte - 1 /\ q1 = (q1 % Byte) + Byte * q2
  BY <1>2, Division
<1>4. q3 \in Nat /\ q2 % Byte \in 0 .. Byte - 1 /\ q2 = (q2 % Byte) + Byte * q3
  BY <1>3, Division
<1>5. lba \div (Byte * Byte) = q2
  BY <1>1, DivideTwice
<1>6. lba \div (Byte * Byte * Byte) = q3
  BY <1>1, DivideThrice
<1>7. q3 % Nibble = q3
  <2>. DEFINE B3 == Byte * Byte * Byte
  <2>1. B3 \in Nat \ {0} /\ LbaLimit = B3 * Nibble
    BY ProductPositive DEF LbaLimit
  <2>2. lba = (lba % B3) + B3 * q3 /\ lba % B3 \in 0 .. B3 - 1
    <3>. HIDE DEF B3, q3
    <3>1. lba \div B3 = q3
      BY <1>6 DEF B3
    <3>. QED
      BY <1>1, <2>1, <3>1, Division
  <2>. HIDE DEF B3, q3
  <2>3. q3 < Nibble
    <3>. SUFFICES ASSUME q3 >= Nibble PROVE FALSE
      BY <1>4
    <3>1. B3 * Nibble <= B3 * q3 /\ B3 * q3 \in Int
      BY <1>4, <2>1, ProductMonotone
    <3>. QED
      BY <1>1, <2>1, <2>2, <3>1
  <2>. DEFINE d == q3 \div Nibble
  <2>4. q3 = (q3 % Nibble) + Nibble * d /\ q3 % Nibble \in 0 .. Nibble - 1 /\ d \in Nat
    BY <1>4, Division
  <2>. HIDE DEF d
  <2>5. d = 0
    <3>. SUFFICES ASSUME d >= 1 PROVE FALSE
      BY <2>4
    <3>1. Nibble * 1 <= Nibble * d /\ Nibble * d \in Int
      BY <2>4, ProductMonotone
    <3>. QED
      BY <2>3, <2>4, <3>1
  <2>. QED
    BY <2>4, <2>5
<1>8. q3 % Nibble \in 0 .. Nibble - 1
  BY <1>4, Division
<1>9. r = [count |-> count, low |-> lba % Byte, mid |-> q1 % Byte,
           high |-> q2 % Byte, top |-> q3]
  <2>. HIDE DEF q2, q3
  <2>. QED
    BY <1>5, <1>6, <1>7 DEF LbaRegisters
<1>. HIDE DEF q1, q2, q3
<1>10. r \in Registers /\ r.count = count
  BY <1>2, <1>3, <1>4, <1>7, <1>8, <1>9 DEF Registers
<1>. QED
  BY <1>2, <1>3, <1>4, <1>9, <1>10

\* Whatever is in the registers, the drive reads an address of the disk.
LEMMA RegistersAddress ==
    ASSUME NEW r \in Registers
    PROVE  r.low + Byte * (r.mid + Byte * (r.high + Byte * r.top)) \in 0 .. LbaLimit - 1
<1>. USE DiskAssumption
<1>1. /\ r.low \in 0 .. Byte - 1 /\ r.mid \in 0 .. Byte - 1
      /\ r.high \in 0 .. Byte - 1 /\ r.top \in 0 .. Nibble - 1
  BY DEF Registers
<1>. DEFINE x == r.high + Byte * r.top
            y == r.mid + Byte * x
<1>2. x \in 0 .. Byte * Nibble - 1 /\ Byte * Nibble \in Nat \ {0}
  BY <1>1, DigitBound, ProductPositive
<1>. HIDE DEF x
<1>3. y \in 0 .. Byte * (Byte * Nibble) - 1 /\ Byte * (Byte * Nibble) \in Nat \ {0}
  BY <1>1, <1>2, DigitBound, ProductPositive
<1>. HIDE DEF y
<1>4. r.low + Byte * y \in 0 .. Byte * (Byte * (Byte * Nibble)) - 1
  BY <1>1, <1>3, DigitBound
<1>5. LbaLimit = Byte * (Byte * (Byte * Nibble))
  BY DEF LbaLimit
<1>. QED
  BY <1>4, <1>5 DEF x, y
-----------------------------------------------------------------------------
(* Types. *)

\* The disk has an address, and a count register a value.
LEMMA LimitPositive == LbaLimit \in Nat \ {0} /\ MaxCount \in Nat \ {0}
BY DiskAssumption, ProductPositive DEF LbaLimit

\* The drive after a sector: one fewer is left, the next one is addressed.
LEMMA SectorMoved ==
    ASSUME Typed, drive.drq
    PROVE  /\ AfterSector \in DriveState
           /\ AfterSector.lba = drive.lba + 1 /\ AfterSector.left = drive.left - 1
           /\ AfterSector.drq = FALSE
           /\ AfterSector.bsy = (drive.left > 1 \/ drive.op = "write")
           /\ AfterSector.op = IF drive.left > 1 \/ drive.op = "write"
                               THEN drive.op ELSE "none"
<1>1. /\ drive \in DriveState /\ drive.left > 0 /\ drive.left \in Nat /\ drive.lba \in Nat
      /\ drive.lba + drive.left <= LbaLimit + MaxCount - 1
  BY LimitPositive DEF Typed, DriveState, Sector
<1>2. drive.lba + 1 \in Sector /\ drive.left - 1 \in 0 .. MaxCount
  BY <1>1, LimitPositive DEF Sector, DriveState
<1>. DEFINE more == drive.left > 1 \/ drive.op = "write"
            op == IF more THEN drive.op ELSE "none"
<1>3. more \in BOOLEAN /\ op \in {"none", "read", "write", "flush"}
  BY <1>1 DEF DriveState
<1>4. AfterSector = [drive EXCEPT !.lba = drive.lba + 1, !.left = drive.left - 1,
                                  !.drq = FALSE, !.bsy = more, !.op = op]
  BY <1>1, Zenon DEF AfterSector
<1>. HIDE DEF more, op
<1>5. /\ AfterSector \in DriveState
      /\ AfterSector.lba = drive.lba + 1 /\ AfterSector.left = drive.left - 1
      /\ AfterSector.drq = FALSE /\ AfterSector.bsy = more /\ AfterSector.op = op
  BY <1>1, <1>2, <1>3, <1>4 DEF DriveState
<1>. QED
  BY <1>5 DEF more, op

\* A command that the drive takes, and one that it ignores.
LEMMA CommandAccepted ==
    ASSUME Typed, NEW op \in {"read", "write", "flush"}, Accept(op)
    PROVE  /\ drive' \in DriveState
           /\ drive'.bsy => ~drive'.drq
           /\ drive'.drq => drive'.left > 0
           /\ drive'.lba + drive'.left <= LbaLimit + MaxCount - 1
           /\ drive.bsy \/ drive.drq => drive' = drive
           /\ ~drive.bsy /\ ~drive.drq =>
                /\ drive'.bsy /\ ~drive'.drq /\ drive'.op = op
                /\ drive'.lba = regs.low + Byte * (regs.mid
                                  + Byte * (regs.high + Byte * regs.top))
                /\ drive'.left = IF op = "flush" THEN 0 ELSE Asked(regs.count)
<1>1. CASE drive.bsy \/ drive.drq
  <2>1. drive' = drive
    BY <1>1 DEF Accept
  <2>. QED
    BY <1>1, <2>1 DEF Typed
<1>2. CASE ~(drive.bsy \/ drive.drq)
  <2>. DEFINE a == regs.low + Byte * (regs.mid + Byte * (regs.high + Byte * regs.top))
              l == IF op = "flush" THEN 0 ELSE Asked(regs.count)
  <2>1. a \in 0 .. LbaLimit - 1
    BY RegistersAddress DEF Typed
  <2>2. l \in 0 .. MaxCount
    BY LimitPositive DEF Typed, Registers, Asked
  <2>3. drive' = [bsy |-> TRUE, drq |-> FALSE, op |-> op, lba |-> a, left |-> l]
    BY <1>2 DEF Accept
  <2>. HIDE DEF a, l
  <2>4. a \in Sector /\ a + l <= LbaLimit + MaxCount - 1
    BY <2>1, <2>2, LimitPositive DEF Sector
  <2>5. drive' \in DriveState /\ drive'.bsy = TRUE /\ drive'.drq = FALSE
        /\ drive'.op = op /\ drive'.lba = a /\ drive'.left = l
    BY <2>2, <2>3, <2>4 DEF DriveState
  <2>. QED
    BY <1>2, <2>4, <2>5 DEF a, l
<1>. QED
  BY <1>1, <1>2

\* The types hold at boot.
LEMMA InitTyped == Init => Typed
<1>. SUFFICES ASSUME Init PROVE Typed
  OBVIOUS
<1>. DEFINE v0 == CHOOSE v \in Values : TRUE
<1>1. v0 \in Values
  BY DiskAssumption
<1>2. req = [op |-> "read", lba |-> ReadLba, count |-> ReadCount, value |-> v0]
  BY DEF Init
<1>. HIDE DEF v0
<1>3. req \in Request /\ req.count < MaxCount
  BY <1>1, <1>2, DiskAssumption DEF Request
<1>4. 0 \in Sector
  BY LimitPositive DEF Sector
<1>5. drive \in DriveState
  BY <1>4, LimitPositive DEF Init, DriveState
<1>6. regs \in Registers
  BY DiskAssumption DEF Init, Registers
<1>7. media \in [Sector -> Content] /\ before \in [Sector -> Content]
  BY DEF Init, Content
<1>8. drive.bsy = FALSE /\ drive.drq = FALSE /\ drive.lba = 0 /\ drive.left = 0
  BY DEF Init
<1>9. drive.lba + drive.left <= LbaLimit + MaxCount - 1
  BY <1>8, LimitPositive
<1>10. buffer \in Seq(Content) /\ s \in 0 .. MaxCount /\ dirty \subseteq Sector
       /\ failed \in BOOLEAN
  <2>1. buffer = <<>> /\ s = 0 /\ dirty = {} /\ failed = FALSE
    BY DEF Init
  <2>2. 0 \in 0 .. MaxCount
    BY LimitPositive
  <2>. QED
    BY <2>1, <2>2, EmptySeq
<1>11. pc = "idle"
  BY DEF Init
<1>. QED
  BY <1>3, <1>5, <1>6, <1>7, <1>8, <1>9, <1>10, <1>11 DEF Typed

\* A call of the shell keeps the types.
LEMMA CallTyped == ASSUME Typed, diskW \/ diskR PROVE Typed'
<1>1. PICK op \in {"read", "write"}, lba \in Lbas \cup {ReadLba},
           count \in Counts \cup {ReadCount}, value \in Values :
        Call(op, lba, count, value)
  BY DEF diskW, diskR, Typed, Request
<1>2. req' = [op |-> op, lba |-> lba, count |-> count, value |-> value]
      /\ pc' = "program" /\ buffer' = <<>> /\ before' = media /\ failed' = FALSE
      /\ s' = s /\ regs' = regs /\ drive' = drive /\ media' = media /\ dirty' = dirty
  BY <1>1 DEF Call
<1>3. req' \in Request /\ req'.count < MaxCount
  BY <1>2, DiskAssumption DEF Request
<1>4. buffer' \in Seq(Content)
  BY <1>2, EmptySeq
<1>. QED
  BY <1>2, <1>3, <1>4 DEF Typed

\* A step of the driver keeps the types.
LEMMA DriverTyped == ASSUME Typed, Driver PROVE Typed'
<1>1. req' = req /\ before' = before /\ failed' = failed
  BY DEF Driver, driveVars, ata_program, ata_command, ata_read_loop, ata_read_return,
         ata_write_loop, ata_flush, ata_write_return, return_to_shell
<1>2. req \in Request /\ req.op \in {"read", "write"} /\ req.lba \in 0 .. LbaLimit - 1
      /\ req.count \in 0 .. MaxCount - 1 /\ req.value \in Values
  BY LimitPositive DEF Typed, Request
<1>3. CASE ata_program
  <2>1. regs' \in Registers
    BY <1>2, <1>3, RegistersRoundTrip DEF ata_program
  <2>. QED
    BY <1>1, <1>3, <2>1 DEF ata_program, Typed, driveVars
<1>4. CASE ata_command
  <2>1. /\ drive' \in DriveState /\ (drive'.bsy => ~drive'.drq)
        /\ (drive'.drq => drive'.left > 0)
        /\ drive'.lba + drive'.left <= LbaLimit + MaxCount - 1
    BY <1>2, <1>4, CommandAccepted DEF ata_command
  <2>2. 0 \in 0 .. MaxCount
    BY LimitPositive
  <2>. QED
    BY <1>1, <1>4, <2>1, <2>2 DEF ata_command, Typed
<1>5. CASE ata_read_loop \/ ata_write_loop
  <2>1. /\ drive' = AfterSector /\ drive.drq /\ s < req.count /\ s' = s + 1
        /\ pc' = pc /\ regs' = regs
    BY <1>5 DEF ata_read_loop, ata_write_loop
  <2>2. /\ drive' \in DriveState /\ drive'.drq = FALSE
        /\ drive'.lba = drive.lba + 1 /\ drive'.left = drive.left - 1
    BY <2>1, SectorMoved
  <2>3. drive'.lba + drive'.left <= LbaLimit + MaxCount - 1
    <3>1. drive.lba \in Int /\ drive.left \in Int
      BY LimitPositive DEF Typed, DriveState, Sector
    <3>2. drive.lba + drive.left <= LbaLimit + MaxCount - 1
      BY DEF Typed
    <3>3. (drive.lba + 1) + (drive.left - 1) = drive.lba + drive.left
      BY <3>1
    <3>. QED
      BY <2>2, <3>2, <3>3
  <2>4. s' \in 0 .. MaxCount
    BY <1>2, <2>1, LimitPositive DEF Typed
  <2>5. drive.lba \in Sector
    BY DEF Typed, DriveState
  <2>6. Data(req.value, s) \in Content
    BY <1>2, LimitPositive DEF Data, Content, Typed
  <2>7. buffer' \in Seq(Content) /\ media' \in [Sector -> Content] /\ dirty' \subseteq Sector
    <3>1. CASE ata_read_loop
      <4>1. media[drive.lba] \in Content
        BY <2>5 DEF Typed
      <4>. QED
        BY <3>1, <4>1 DEF ata_read_loop, Typed
    <3>2. CASE ata_write_loop
      BY <3>2, <2>5, <2>6 DEF ata_write_loop, Typed
    <3>. QED
      BY <1>5, <3>1, <3>2
  <2>. QED
    BY <1>1, <2>1, <2>2, <2>3, <2>4, <2>7 DEF Typed
<1>6. CASE ata_flush
  <2>1. /\ drive' \in DriveState /\ (drive'.bsy => ~drive'.drq)
        /\ (drive'.drq => drive'.left > 0)
        /\ drive'.lba + drive'.left <= LbaLimit + MaxCount - 1
    BY <1>6, CommandAccepted DEF ata_flush
  <2>. QED
    BY <1>1, <1>6, <2>1 DEF ata_flush, Typed
<1>7. CASE ata_read_return \/ ata_write_return \/ return_to_shell
  BY <1>1, <1>7 DEF ata_read_return, ata_write_return, return_to_shell, Typed, driveVars
<1>. QED
  BY <1>3, <1>4, <1>5, <1>6, <1>7 DEF Driver

\* The drive's steps: BSY ends with more to transfer, with nothing left, or
\* with an error.
LEMMA DriveSteps ==
    ASSUME Typed, Drive
    PROVE  /\ drive.bsy /\ drive' \in DriveState /\ drive'.bsy = FALSE
           /\ drive'.lba = drive.lba
           /\ \/ /\ drive_proceeds /\ drive.op # "flush" /\ drive.left # 0
                 /\ drive'.drq = TRUE /\ drive'.left = drive.left /\ drive'.op = drive.op
              \/ /\ drive_proceeds /\ (drive.op = "flush" \/ drive.left = 0)
                 /\ drive'.drq = FALSE /\ drive'.left = drive.left
              \/ drive_fails /\ drive'.drq = FALSE /\ drive'.left = 0
<1>1. drive \in DriveState /\ drive.bsy /\ ~drive.drq /\ 0 \in 0 .. MaxCount
  BY LimitPositive DEF Typed, Drive, drive_proceeds, drive_fails
<1>2. CASE drive_fails
  BY <1>1, <1>2 DEF drive_fails, DriveState
<1>3. CASE drive_proceeds /\ (drive.op = "flush" \/ drive.left = 0)
  BY <1>1, <1>3 DEF drive_proceeds, DriveState
<1>4. CASE drive_proceeds /\ ~(drive.op = "flush" \/ drive.left = 0)
  BY <1>1, <1>4 DEF drive_proceeds, DriveState
<1>. QED
  BY <1>2, <1>3, <1>4 DEF Drive

\* A step of the drive keeps the types.
LEMMA DriveTyped == ASSUME Typed, Drive PROVE Typed'
<1>1. /\ drive.bsy /\ drive' \in DriveState /\ drive'.bsy = FALSE
      /\ drive'.lba = drive.lba
      /\ \/ drive'.left = drive.left
         \/ drive'.left = 0
      /\ drive'.drq => drive'.left > 0
  <2>1. drive.left # 0 => drive.left > 0
    BY LimitPositive DEF Typed, DriveState
  <2>. QED
    BY <2>1, DriveSteps
<1>2. pc' = pc /\ req' = req /\ s' = s /\ buffer' = buffer /\ regs' = regs /\ before' = before
  BY DEF Drive, drive_proceeds, drive_fails, driverVars
<1>3. drive'.lba + drive'.left <= LbaLimit + MaxCount - 1
  <2>1. drive.lba \in Int /\ drive.left \in Nat
    BY LimitPositive DEF Typed, DriveState, Sector
  <2>2. drive.lba + drive.left <= LbaLimit + MaxCount - 1
    BY DEF Typed
  <2>. QED
    BY <1>1, <2>1, <2>2, LimitPositive
<1>4. media' \in [Sector -> Content] /\ dirty' \subseteq Sector /\ failed' \in BOOLEAN
  <2>1. CASE drive_proceeds
    BY <2>1 DEF drive_proceeds, Typed
  <2>2. CASE drive_fails
    <3>1. dirty' = dirty /\ failed' = TRUE
      BY <2>2 DEF drive_fails
    <3>2. media' \in [Sector -> Content]
      <4>. DEFINE n == drive.lba - 1
      <4>1. media' = media \/ media' = [media EXCEPT ![n] = before[n]]
        BY <2>2 DEF drive_fails
      <4>. HIDE DEF n
      <4>2. CASE n \in Sector
        BY <4>1, <4>2 DEF Typed
      <4>3. CASE n \notin Sector
        BY <4>1, <4>3 DEF Typed
      <4>. QED
        BY <4>2, <4>3
    <3>. QED
      BY <3>1, <3>2 DEF Typed
  <2>. QED
    BY <2>1, <2>2 DEF Drive
<1>. QED
  BY <1>1, <1>2, <1>3, <1>4 DEF Typed

\* Every step keeps the types.
LEMMA NextTyped == Typed /\ [Next]_vars => Typed'
<1>. SUFFICES ASSUME Typed, [Next]_vars PROVE Typed'
  OBVIOUS
<1>1. CASE UNCHANGED vars
  BY <1>1 DEF vars, driverVars, driveVars, Typed
<1>. QED
  BY <1>1, CallTyped, DriverTyped, DriveTyped DEF Next

\* The types hold in every state, for every count a caller may pass.
THEOREM TypeInvariance == Spec => []Typed
BY InitTyped, NextTyped, PTL DEF Spec

\* The registers of the driver and of the drive keep their widths and the drive
\* never asks for data while it is busy, for every count a caller may pass,
\* 0 included.
THEOREM TypeCorrect == Spec => []TypeOK
<1>1. Typed => TypeOK
  BY DEF Typed, TypeOK, DriveState, Registers, Content
<1>. QED
  BY <1>1, TypeInvariance, PTL
-----------------------------------------------------------------------------
(* The call in progress. *)

\* A count of 0 is what the driver and the drive take for different numbers.
NonzeroCounts == 0 \notin Counts \cup {ReadCount}

\* The invariant holds at boot.
LEMMA InitIInv == ASSUME NonzeroCounts, Init PROVE IInv
<1>1. Typed
  BY InitTyped
<1>2. pc = "idle" /\ req.count = ReadCount
      /\ drive.left = 0 /\ drive.drq = FALSE /\ drive.bsy = FALSE
  BY DEF Init
<1>3. ReadCount > 0
  BY DiskAssumption DEF NonzeroCounts
<1>. QED
  BY <1>1, <1>2, <1>3 DEF IInv, LoopAgrees, AtRest, Transferred

\* A call of the shell keeps the invariant.
LEMMA CallIInv == ASSUME NonzeroCounts, IInv, diskW \/ diskR PROVE IInv'
<1>1. Typed'
  BY CallTyped DEF IInv
<1>2. PICK op \in {"read", "write"}, lba \in Lbas \cup {ReadLba},
           count \in Counts \cup {ReadCount}, value \in Values :
        Call(op, lba, count, value)
  BY DEF diskW, diskR, IInv, Typed, Request
<1>3. /\ req'.count = count /\ pc = "idle" /\ pc' = "program" /\ buffer' = <<>>
      /\ before' = media /\ failed' = FALSE /\ drive' = drive /\ media' = media
  BY <1>2 DEF Call
<1>4. count > 0
  BY DiskAssumption DEF NonzeroCounts
<1>. QED
  BY <1>1, <1>3, <1>4 DEF IInv, LoopAgrees, AtRest, Transferred

\* Writing the registers and the command keeps the invariant.
LEMMA ProgramIInv == ASSUME IInv, ata_program PROVE IInv'
<1>1. Typed'
  BY DriverTyped DEF IInv, Driver
<1>2. /\ pc = "program" /\ pc' = "command" /\ regs' = LbaRegisters(req.lba, req.count)
      /\ req' = req /\ s' = s /\ buffer' = buffer /\ before' = before
      /\ drive' = drive /\ media' = media /\ failed' = failed
  BY DEF ata_program, driveVars
<1>. QED
  BY <1>1, <1>2 DEF IInv, LoopAgrees, AtRest, Transferred

\* The command starts the drive at the caller's address, for the caller's count.
LEMMA CommandIInv == ASSUME IInv, ata_command PROVE IInv'
<1>1. Typed'
  BY DriverTyped DEF IInv, Driver
<1>2. /\ pc = "command" /\ pc' = "sector" /\ s' = 0 /\ Accept(req.op)
      /\ req' = req /\ buffer' = buffer /\ before' = before
      /\ media' = media /\ failed' = failed
  BY DEF ata_command
<1>3. /\ ~drive.bsy /\ ~drive.drq /\ regs = LbaRegisters(req.lba, req.count)
      /\ media = before /\ ~failed /\ buffer = <<>> /\ req.count > 0
  BY <1>2 DEF IInv, AtRest, Transferred
<1>4. /\ req.op \in {"read", "write"} /\ req.lba \in 0 .. LbaLimit - 1
      /\ req.count \in 0 .. MaxCount - 1
  BY LimitPositive DEF IInv, Typed, Request
<1>5. /\ regs.count = req.count
      /\ regs.low + Byte * (regs.mid + Byte * (regs.high + Byte * regs.top)) = req.lba
  BY <1>3, <1>4, RegistersRoundTrip
<1>6. /\ drive'.bsy /\ ~drive'.drq /\ drive'.op = req.op
      /\ drive'.lba = req.lba /\ drive'.left = req.count
  BY <1>2, <1>3, <1>4, <1>5, CommandAccepted DEF IInv, Asked
<1>7. LoopAgrees'
  BY <1>2, <1>3, <1>4, <1>6 DEF LoopAgrees
<1>8. AtRest'
  BY <1>2 DEF AtRest
<1>9. media' = Written(0)'
  <2>1. \A k \in Sector : k \notin req.lba .. req.lba + 0 - 1
    BY <1>4, LimitPositive DEF Sector
  <2>2. Written(0) = [k \in Sector |-> before[k]]
    BY <2>1 DEF Written
  <2>3. before = [k \in Sector |-> before[k]]
    BY DEF IInv, Typed
  <2>4. Written(0)' = Written(0)
    BY <1>2 DEF Written
  <2>. QED
    BY <1>2, <1>3, <2>2, <2>3, <2>4
<1>10. buffer' = [i \in 1 .. 0 |-> media'[req'.lba + i - 1]]
  BY <1>2, <1>3
<1>11. Transferred'
  BY <1>2, <1>3, <1>9, <1>10 DEF Transferred
<1>. QED
  BY <1>1, <1>7, <1>8, <1>11 DEF IInv

\* A round of the loop: the drive is where the driver thinks it is.
LEMMA RoundIInv == ASSUME IInv, ata_read_loop \/ ata_write_loop PROVE IInv'
<1>1. Typed'
  BY DriverTyped DEF IInv, Driver
<1>2. /\ pc = "sector" /\ pc' = "sector" /\ s < req.count /\ s' = s + 1
      /\ drive.drq /\ drive' = AfterSector
      /\ req' = req /\ before' = before /\ failed' = failed
  BY DEF ata_read_loop, ata_write_loop
<1>3. /\ drive.op = req.op /\ ~failed /\ drive.lba = req.lba + s
      /\ drive.left = req.count - s /\ req.count > 0
  BY <1>2 DEF IInv, LoopAgrees, Transferred
<1>4. /\ s \in Nat /\ req.count \in Nat /\ req.lba \in 0 .. LbaLimit - 1
      /\ req.op \in {"read", "write"}
  BY LimitPositive DEF IInv, Typed, Request
<1>5. /\ drive'.lba = drive.lba + 1 /\ drive'.left = drive.left - 1
      /\ drive'.drq = FALSE
      /\ drive'.bsy = (drive.left > 1 \/ drive.op = "write")
      /\ drive'.op = IF drive.left > 1 \/ drive.op = "write" THEN drive.op ELSE "none"
  BY <1>2, SectorMoved DEF IInv
<1>6. LoopAgrees'
  <2>1. drive'.lba = req.lba + s' /\ drive'.left = req.count - s' /\ s' <= req.count
    BY <1>2, <1>3, <1>4, <1>5
  <2>2. drive'.bsy => drive'.op = req.op
    BY <1>3, <1>5
  <2>3. drive'.bsy /\ req.op = "read" => s' < req.count
    <3>. SUFFICES ASSUME drive'.bsy, req.op = "read" PROVE s' < req.count
      OBVIOUS
    <3>1. drive.left > 1
      BY <1>3, <1>5
    <3>. QED
      BY <1>2, <1>3, <1>4, <3>1
  <2>. QED
    BY <1>2, <1>3, <1>5, <2>1, <2>2, <2>3 DEF LoopAgrees
<1>7. AtRest'
  BY <1>2 DEF AtRest
<1>8. drive.lba \in Sector /\ media \in [Sector -> Content]
  BY DEF IInv, Typed, DriveState
<1>9. CASE ata_read_loop
  <2>1. /\ req.op = "read" /\ media' = media /\ media = before
        /\ buffer = [i \in 1 .. s |-> media[req.lba + i - 1]]
        /\ buffer' = Append(buffer, media[req.lba + s])
    BY <1>2, <1>3, <1>9 DEF ata_read_loop, IInv, Transferred
  <2>2. buffer' = [i \in 1 .. s + 1 |-> media[req.lba + i - 1]]
    <3>. DEFINE F(n) == [i \in 1 .. n |-> media[req.lba + i - 1]]
    <3>1. \A i \in 1 .. s + 1 : req.lba + i - 1 \in Sector
      BY <1>3, <1>4, <1>8, LimitPositive DEF Sector
    <3>2. F(s) \in Seq(Content) /\ Len(F(s)) = s
      BY <1>4, <1>8, <3>1
    <3>3. req.lba + (s + 1) - 1 = req.lba + s
      BY <1>4, LimitPositive
    <3>4. F(s + 1) = Append(F(s), media[req.lba + s])
      BY <1>4, <1>8, <3>1, <3>2, <3>3
    <3>. QED
      BY <2>1, <3>4
  <2>3. Transferred'
    BY <1>2, <1>3, <2>1, <2>2 DEF Transferred
  <2>. QED
    BY <1>1, <1>6, <1>7, <2>3 DEF IInv
<1>10. CASE ata_write_loop
  <2>1. /\ req.op = "write" /\ media = Written(s)
        /\ media' = [media EXCEPT ![req.lba + s] = Data(req.value, s)]
    BY <1>2, <1>3, <1>10 DEF ata_write_loop, IInv, Transferred
  <2>2. media' = Written(s + 1)
    <3>1. \A k \in Sector : k \in req.lba .. req.lba + (s + 1) - 1
                              <=> k \in req.lba .. req.lba + s - 1 \/ k = req.lba + s
      BY <1>4, LimitPositive DEF Sector
    <3>. QED
      <4>. DEFINE n == req.lba + s
      <4>1. DOMAIN media' = Sector /\ DOMAIN media = Sector /\ n \in Sector
        BY <1>3, <1>8, <2>1
      <4>2. ASSUME NEW k \in Sector, k = n
            PROVE  media'[k] = Data(req.value, k - req.lba)
        <5>1. media' = [media EXCEPT ![n] = Data(req.value, s)]
          BY <2>1
        <5>2. n - req.lba = s
          BY <1>4, LimitPositive
        <5>. HIDE DEF n
        <5>3. media'[n] = Data(req.value, s)
          BY <4>1, <5>1
        <5>. QED
          BY <4>2, <5>3, <5>2
      <4>3. ASSUME NEW k \in Sector, k # n
            PROVE  media'[k] = media[k]
        BY <2>1, <4>1, <4>3
      <4>4. media' \in [Sector -> Content]
        BY <1>1 DEF Typed
      <4>. HIDE DEF n
      <4>5. ASSUME NEW k \in Sector
            PROVE  media'[k] = IF k \in req.lba .. req.lba + (s + 1) - 1
                               THEN Data(req.value, k - req.lba) ELSE before[k]
        <5>1. CASE k = n
          BY <3>1, <4>2, <5>1 DEF n
        <5>2. CASE k # n
          <6>1. media[k] = IF k \in req.lba .. req.lba + s - 1
                           THEN Data(req.value, k - req.lba) ELSE before[k]
            BY <2>1 DEF Written
          <6>. QED
            BY <3>1, <4>3, <5>2, <6>1 DEF n
        <5>. QED
          BY <5>1, <5>2
      <4>. QED
        BY <4>4, <4>5 DEF Written
  <2>3. Transferred'
    BY <1>2, <1>3, <2>1, <2>2 DEF Transferred, Written
  <2>. QED
    BY <1>1, <1>6, <1>7, <2>3 DEF IInv
<1>. QED
  BY <1>9, <1>10

\* The driver leaves its loop when it has counted to the caller's count; then
\* the drive has nothing left.  The flush command may still find it busy.
LEMMA ReturnIInv ==
    ASSUME IInv, ata_read_return \/ ata_write_return \/ return_to_shell
    PROVE  IInv'
<1>1. Typed'
  BY DriverTyped DEF IInv, Driver
<1>2. /\ req' = req /\ s' = s /\ buffer' = buffer /\ before' = before /\ regs' = regs
      /\ drive' = drive /\ media' = media /\ failed' = failed
  BY DEF ata_read_return, ata_write_return, return_to_shell, driveVars
<1>3. CASE ata_read_return
  <2>1. pc = "sector" /\ pc' = "done" /\ req.op = "read" /\ s = req.count
    BY <1>3 DEF ata_read_return
  <2>2. s \in Int /\ req.count \in Int /\ (drive.drq => drive.left > 0)
    BY LimitPositive DEF IInv, Typed, Request
  <2>3. ~failed /\ ~drive.bsy /\ drive.left = 0
    BY <2>1, <2>2 DEF IInv, LoopAgrees
  <2>4. ~drive.drq
    BY <2>2, <2>3
  <2>. QED
    BY <1>1, <1>2, <2>1, <2>3, <2>4 DEF IInv, LoopAgrees, AtRest, Transferred
<1>4. CASE ata_write_return
  <2>1. pc = "flush" /\ pc' = "done" /\ ~drive.bsy
    BY <1>4 DEF ata_write_return
  <2>2. req.op = "write" /\ drive.left = 0 /\ ~drive.drq
    BY <2>1 DEF IInv, AtRest
  <2>3. Transferred'
    BY <1>2, <2>1, <2>2 DEF IInv, Transferred, Written
  <2>. QED
    BY <1>1, <1>2, <2>1, <2>2, <2>3 DEF IInv, LoopAgrees, AtRest
<1>5. CASE return_to_shell
  <2>1. pc = "done" /\ pc' = "idle"
    BY <1>5 DEF return_to_shell
  <2>. QED
    BY <1>1, <1>2, <2>1 DEF IInv, LoopAgrees, AtRest, Transferred
<1>. QED
  BY <1>3, <1>4, <1>5

\* The flush keeps the invariant.
LEMMA FlushIInv == ASSUME IInv, ata_flush PROVE IInv'
<1>1. Typed'
  BY DriverTyped DEF IInv, Driver
<1>2. /\ pc = "sector" /\ pc' = "flush" /\ req.op = "write" /\ s = req.count
      /\ Accept("flush") /\ req' = req /\ s' = s /\ before' = before
      /\ media' = media /\ failed' = failed
  BY DEF ata_flush
<1>3. drive.left = 0 /\ ~drive.drq /\ (drive.bsy => drive.op = "write")
  <2>1. s \in Int /\ req.count \in Int /\ (drive.drq => drive.left > 0)
    BY LimitPositive DEF IInv, Typed, Request
  <2>2. drive.left = 0
    BY <1>2, <2>1 DEF IInv, LoopAgrees
  <2>. QED
    BY <1>2, <2>1, <2>2 DEF IInv, LoopAgrees
<1>4. drive'.left = 0 /\ ~drive'.drq /\ (drive'.bsy => drive'.op \in {"write", "flush"})
  <2>1. /\ drive.bsy \/ drive.drq => drive' = drive
        /\ ~drive.bsy /\ ~drive.drq =>
              drive'.bsy /\ ~drive'.drq /\ drive'.op = "flush" /\ drive'.left = 0
    BY <1>2, CommandAccepted DEF IInv
  <2>. QED
    BY <1>3, <2>1
<1>5. Transferred'
  BY <1>2 DEF IInv, Transferred, Written
<1>. QED
  BY <1>1, <1>2, <1>4, <1>5 DEF IInv, LoopAgrees, AtRest

\* The drive goes on by itself, or gives up: then it asks for nothing more.
LEMMA DriveIInv == ASSUME IInv, Drive PROVE IInv'
<1>1. Typed'
  BY DriveTyped DEF IInv
<1>2. /\ pc' = pc /\ req' = req /\ s' = s /\ buffer' = buffer /\ before' = before
      /\ regs' = regs
  BY DEF Drive, drive_proceeds, drive_fails, driverVars
<1>3. drive.bsy /\ drive'.bsy = FALSE /\ drive'.lba = drive.lba
      /\ pc \in {"sector", "flush"}
  BY DriveSteps DEF IInv, AtRest, Typed
<1>4. CASE drive_proceeds
  <2>1. media' = media /\ failed' = failed
    BY <1>4 DEF drive_proceeds
  <2>2. /\ drive'.left = drive.left
        /\ drive'.drq => drive'.op = drive.op /\ drive.left # 0
    <3>1. ~drive_fails \/ drive'.left = drive.left
      BY <1>4 DEF drive_proceeds, drive_fails, IInv, Typed, DriveState
    <3>. QED
      BY <1>4, DriveSteps DEF drive_proceeds, IInv, Typed, DriveState
  <2>3. Transferred'
    BY <1>2, <2>1 DEF IInv, Transferred, Written
  <2>4. AtRest'
    BY <1>2, <1>3, <2>2 DEF IInv, AtRest
  <2>5. LoopAgrees'
    BY <1>2, <1>3, <2>1, <2>2 DEF IInv, LoopAgrees
  <2>. QED
    BY <1>1, <2>3, <2>4, <2>5 DEF IInv
<1>5. CASE drive_fails
  <2>1. /\ failed' = TRUE /\ drive'.left = 0 /\ drive'.drq = FALSE
        /\ drive.op = "read" => media' = media
    BY <1>5 DEF drive_fails, IInv, Typed, DriveState
  <2>2. LoopAgrees'
    BY <1>2, <1>3, <2>1 DEF IInv, LoopAgrees
  <2>3. AtRest'
    BY <1>2, <1>3, <2>1 DEF IInv, AtRest
  <2>4. pc = "sector" /\ req.op = "read" => drive.op = "read"
    BY <1>3 DEF IInv, LoopAgrees
  <2>5. Transferred'
    BY <1>2, <1>3, <2>1, <2>4 DEF IInv, Transferred
  <2>. QED
    BY <1>1, <2>2, <2>3, <2>5 DEF IInv
<1>. QED
  BY <1>4, <1>5 DEF Drive

\* Every step keeps the invariant.
LEMMA NextIInv == ASSUME NonzeroCounts, IInv, [Next]_vars PROVE IInv'
<1>1. CASE diskW \/ diskR
  BY <1>1, CallIInv
<1>2. CASE Driver
  BY <1>2, ProgramIInv, CommandIInv, RoundIInv, ReturnIInv, FlushIInv DEF Driver
<1>3. CASE Drive
  BY <1>3, DriveIInv
<1>4. CASE UNCHANGED vars
  BY <1>4 DEF vars, driverVars, driveVars, IInv, Typed, LoopAgrees, AtRest,
              Transferred, Written
<1>. QED
  BY <1>1, <1>2, <1>3, <1>4 DEF Next

\* Driver and drive agree at every step, for every pace of the drive and every
\* error it answers with.
THEOREM Invariance == ASSUME NonzeroCounts PROVE Spec => []IInv
<1>1. Init => IInv
  BY InitIInv
<1>2. IInv /\ [Next]_vars => IInv'
  BY NextIInv
<1>. QED
  BY <1>1, <1>2, PTL DEF Spec

\* ata_read_sector returns the sectors that were asked for, all of them and in
\* order, and nothing on the disk has changed: the drive does not fall out of
\* step with the loop, and a call that met an error never gets there.
THEOREM ReadIsExact == ASSUME NonzeroCounts PROVE Spec => []ReadExact
<1>1. IInv => ReadExact
  <2>. SUFFICES ASSUME IInv, pc = "done", req.op = "read" PROVE ReadExact
    BY DEF ReadExact
  <2>1. req.count # 0
    BY LimitPositive DEF IInv, Transferred
  <2>. QED
    BY <2>1 DEF IInv, Transferred, ReadExact, Asked
<1>. QED
  BY <1>1, Invariance, PTL

\* ata_write_sector has changed exactly the sectors that were asked for, each
\* to its part of the buffer, when the drive reported no error: although the
\* flush command may be ignored and ERR is never read.
THEOREM WriteIsExact == ASSUME NonzeroCounts PROVE Spec => []WriteExact
<1>1. IInv => WriteExact
  <2>. SUFFICES ASSUME IInv, pc = "done", req.op = "write", ~failed PROVE WriteExact
    BY DEF WriteExact
  <2>1. req.count # 0
    BY LimitPositive DEF IInv, Transferred
  <2>. QED
    BY <2>1 DEF IInv, Transferred, WriteExact, Written, Asked
<1>. QED
  BY <1>1, Invariance, PTL

\* Between two calls the drive is neither busy nor waiting for data, so the
\* driver's next command is not ignored.
THEOREM DriveRests == ASSUME NonzeroCounts PROVE Spec => []DriveAtRest
<1>1. IInv => DriveAtRest
  BY DEF IInv, AtRest, DriveAtRest
<1>. QED
  BY <1>1, Invariance, PTL
=============================================================================
