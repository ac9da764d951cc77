------------------------- MODULE Interrupts_proofs -------------------------
(***************************************************************************)
(* Proofs about the interrupt controllers, the gates and the keyboard      *)
(* handler, for every set of devices, every selector a boot loader may     *)
(* leave in CS, and any number of bytes typed at any time.                 *)
(***************************************************************************)
EXTENDS Interrupts, NumberFacts, SequenceTheorems, FiniteSetTheorems, TLAPS

(* The invariant, in parts.  None of the properties is inductive alone: what *)
(* keeps the handler serial is the in-service bit, that bit is only trusted  *)
(* because no other line gets past the processor, and that is so because of  *)
(* the order of kernel_main's calls.                                         *)

Activation ==
    [handler : {"keyboard"}, at : {"entered", "work", "polling", "end", "iret"},
     byte : Bytes \cup {"key"}, iflag : BOOLEAN]

Controllers ==
    [imr : SUBSET IRQ, irr : SUBSET IRQ, isr : SUBSET IRQ,
     offset1 : {8, 32}, offset2 : {40, 112}]

Typed ==
    /\ pic \in Controllers
    /\ cs \in BootCS \cup {8} /\ iflag \in BOOLEAN /\ ata \in BOOLEAN
    /\ boot \in 1 .. 7
    /\ frames \in Seq(Activation)
    /\ kbd \in [full : BOOLEAN, out : Bytes \cup {"key"}, fifo : Seq(Bytes)]
    /\ typed \in Seq(Bytes) /\ got \in Seq(Bytes \cup {"key"})
    /\ deaf \in BOOLEAN /\ cpu \in {"run", "halted"}

\* What each call of kernel_main leaves for the rest of the boot.
BootDone ==
    /\ boot > 1 => pic.offset1 = 32 /\ pic.offset2 = 40
    /\ boot > 2 => {0, 14} \subseteq pic.imr /\ 1 \notin pic.imr
    /\ boot > 3 => gdt = KernelGdt /\ cs = 8
    /\ boot > 4 => idt = KernelIdt
    /\ boot < 6 => ~iflag /\ frames = <<>> /\ pic.isr = {}

\* The lines that are raised are those with a device; while the processor runs
\* one of them is ever in service.
LinesInUse ==
    /\ pic.irr \subseteq {0, 1, 14} \cup Stray
    /\ cpu = "run" => pic.isr \subseteq {1}

\* Only the innermost activation is before its end of interrupt, and then the
\* controller holds the line back.
OneInService ==
    \A i \in 1 .. Len(frames) :
        frames[i].at # "iret" => i = Len(frames) /\ 1 \in pic.isr

\* A request on line 1 stands for a byte that nobody has read.
RequestMeansByte ==
    /\ 1 \in pic.irr => kbd.full
    /\ \A i \in 1 .. Len(frames) :
          frames[i].at = "entered" =>
              kbd.full /\ 1 \notin pic.irr /\ frames[i].byte = "key"

\* Every byte sent is in one place: read, in the output buffer, or behind it.
Placed(sent, read, w, out, behind) ==
    /\ Len(sent) = Len(read) + w + Len(behind)
    /\ \A i \in 1 .. Len(read) : sent[i] = read[i]
    /\ w = 1 => sent[Len(read) + 1] = out
    /\ \A i \in 1 .. Len(behind) : sent[Len(read) + w + i] = behind[i]
Waiting == IF kbd.full THEN 1 ELSE 0
BytesPlaced == Placed(typed, got, Waiting, kbd.out, kbd.fifo)

\* An activation below another one is "memtest 2", and so is one that runs
\* with interrupts on; there are not more of these than such bytes.
Memtests(g) == {i \in DOMAIN g : g[i] = "memtest2"}
NestedByMemtest ==
    /\ \A i \in 1 .. Len(frames) - 1 : frames[i].byte = "memtest2"
    /\ iflag /\ frames # <<>> => frames[Len(frames)].byte = "memtest2"
    /\ frames # <<>> =>
          Len(frames) <= Cardinality(Memtests(got))
                         + IF frames[Len(frames)].byte = "memtest2" THEN 0 ELSE 1

IInv ==
    /\ Typed /\ NeverHalts /\ BootDone /\ LinesInUse /\ OneInService
    /\ RequestMeansByte /\ BytesPlaced /\ NestedByMemtest
-----------------------------------------------------------------------------
(* The operators. *)

\* The lowest of one line is that line.
LEMMA LowestOfOne == ASSUME NEW i \in Nat PROVE Lowest({i}) = i
BY DEF Lowest

\* The mask bits kernel_main sets and clears: 46 is line 14 of the slave.
LEMMA MaskBits == LineBit(46) = {14} /\ LineBit(0) = {0} /\ LineBit(1) = {1}
<1>1. LineBit(46) = {14}
  <2>1. (46 - 8) % 32 = 6
    OBVIOUS
  <2>2. LineBit(46) = {b \in Slave : b - 8 = 6}
    BY <2>1 DEF LineBit
  <2>. QED
    BY <2>2 DEF Slave
<1>. QED
  BY <1>1 DEF LineBit

\* A controller keeps its shape when bits of it change.
LEMMA ControllersUpdate ==
    ASSUME NEW p \in Controllers, NEW X \in SUBSET IRQ
    PROVE  /\ [p EXCEPT !.imr = X] \in Controllers
           /\ [p EXCEPT !.imr = X].imr = X
           /\ [p EXCEPT !.irr = X] \in Controllers
           /\ [p EXCEPT !.irr = X].irr = X
           /\ [p EXCEPT !.isr = X] \in Controllers
           /\ [p EXCEPT !.isr = X].isr = X
           /\ \A f \in {"irr", "isr", "offset1", "offset2"} : [p EXCEPT !.imr = X][f] = p[f]
           /\ \A f \in {"imr", "isr", "offset1", "offset2"} : [p EXCEPT !.irr = X][f] = p[f]
           /\ \A f \in {"imr", "irr", "offset1", "offset2"} : [p EXCEPT !.isr = X][f] = p[f]
BY DEF Controllers

\* The end of interrupt of the handler ends line 1, the only one in service.
LEMMA EndsLineOne ==
    ASSUME NEW p \in Controllers, p.isr \subseteq {1}
    PROVE  pic_send_eoi(p, 1) = [p EXCEPT !.isr = {}]
<1>1. pic_send_eoi(p, 1) = [p EXCEPT !.isr = EndOfInterrupt(p.isr, Master)]
  BY DEF pic_send_eoi
<1>2. EndOfInterrupt(p.isr, Master) = {}
  <2>1. CASE p.isr = {}
    BY <2>1 DEF EndOfInterrupt
  <2>2. CASE p.isr = {1}
    <3>1. p.isr \cap Master = {1}
      BY <2>2 DEF Master
    <3>. QED
      BY <2>2, <3>1, LowestOfOne DEF EndOfInterrupt
  <2>. QED
    BY <2>1, <2>2
<1>. QED
  BY <1>1, <1>2

\* One byte more is one "memtest 2" more, or none.
LEMMA MemtestsOfAppend ==
    ASSUME NEW S, NEW g \in Seq(S), NEW b \in S
    PROVE  /\ Cardinality(Memtests(g)) \in Nat
           /\ Cardinality(Memtests(Append(g, b))) =
                 Cardinality(Memtests(g)) + IF b = "memtest2" THEN 1 ELSE 0
<1>1. IsFiniteSet(Memtests(g))
  <2>1. Memtests(g) \subseteq 1 .. Len(g)
    BY DEF Memtests
  <2>2. IsFiniteSet(1 .. Len(g))
    BY FS_Interval
  <2>. QED
    BY <2>1, <2>2, FS_Subset
<1>2. Cardinality(Memtests(g)) \in Nat
  BY <1>1, FS_CardinalityType
<1>3. DOMAIN Append(g, b) = DOMAIN g \cup {Len(g) + 1} /\ Len(g) + 1 \notin DOMAIN g
  OBVIOUS
<1>4. /\ \A i \in DOMAIN g : Append(g, b)[i] = g[i]
      /\ Append(g, b)[Len(g) + 1] = b
  OBVIOUS
<1>5. CASE b = "memtest2"
  <2>1. Memtests(Append(g, b)) = Memtests(g) \cup {Len(g) + 1}
    BY <1>3, <1>4, <1>5 DEF Memtests
  <2>2. Len(g) + 1 \notin Memtests(g)
    BY <1>3 DEF Memtests
  <2>. QED
    BY <1>1, <1>2, <1>5, <2>1, <2>2, FS_AddElement
<1>6. CASE b # "memtest2"
  <2>1. Memtests(Append(g, b)) = Memtests(g)
    BY <1>3, <1>4, <1>6 DEF Memtests
  <2>. QED
    BY <1>2, <1>6, <2>1
<1>. QED
  BY <1>5, <1>6

\* A byte that is typed, that enters the output buffer or that is read moves
\* one place on.
LEMMA PlacedMoves ==
    ASSUME NEW S, NEW t \in Seq(S), NEW g \in Seq(S), NEW q \in Seq(S),
           NEW w \in {0, 1}, NEW o \in S, NEW b \in S, Placed(t, g, w, o, q)
    PROVE  /\ Placed(Append(t, b), g, w, o, Append(q, b))
           /\ w = 0 /\ q # <<>> => Placed(t, g, 1, Head(q), Tail(q))
           /\ w = 1 => Placed(t, Append(g, o), 0, o, q)
           /\ Len(g) <= Len(t)
<1>. USE DEF Placed
<1>1. Placed(Append(t, b), g, w, o, Append(q, b))
  <2>1. /\ Len(Append(t, b)) = Len(t) + 1 /\ Append(t, b)[Len(t) + 1] = b
        /\ \A i \in 1 .. Len(t) : Append(t, b)[i] = t[i]
    OBVIOUS
  <2>2. /\ Len(Append(q, b)) = Len(q) + 1 /\ Append(q, b)[Len(q) + 1] = b
        /\ \A i \in 1 .. Len(q) : Append(q, b)[i] = q[i]
    OBVIOUS
  <2>3. Len(Append(t, b)) = Len(g) + w + Len(Append(q, b))
    BY <2>1, <2>2
  <2>4. \A i \in 1 .. Len(g) : Append(t, b)[i] = g[i]
    BY <2>1
  <2>5. w = 1 => Append(t, b)[Len(g) + 1] = o
    BY <2>1
  <2>6. \A i \in 1 .. Len(Append(q, b)) : Append(t, b)[Len(g) + w + i] = Append(q, b)[i]
    <3>. SUFFICES ASSUME NEW i \in 1 .. Len(q) + 1
                  PROVE  Append(t, b)[Len(g) + w + i] = Append(q, b)[i]
      BY <2>2
    <3>1. CASE i = Len(q) + 1
      <4>1. Len(g) + w + i = Len(t) + 1
        BY <3>1
      <4>. QED
        BY <2>1, <2>2, <3>1, <4>1
    <3>2. CASE i \in 1 .. Len(q)
      <4>1. Len(g) + w + i \in 1 .. Len(t)
        BY <3>2
      <4>. QED
        BY <2>1, <2>2, <3>2, <4>1
    <3>3. i = Len(q) + 1 \/ i \in 1 .. Len(q)
      OBVIOUS
    <3>. QED
      BY <3>1, <3>2, <3>3, Zenon
  <2>. QED
    BY <2>3, <2>4, <2>5, <2>6, Zenon
<1>2. ASSUME w = 0, q # <<>> PROVE Placed(t, g, 1, Head(q), Tail(q))
  <2>1. /\ Len(q) \in Nat \ {0} /\ Len(Tail(q)) = Len(q) - 1 /\ Head(q) = q[1]
        /\ \A i \in 1 .. Len(q) - 1 : Tail(q)[i] = q[i + 1]
    BY <1>2
  <2>2. Len(t) = Len(g) + 1 + Len(Tail(q))
    BY <1>2, <2>1
  <2>3. t[Len(g) + 1] = Head(q)
    BY <1>2, <2>1
  <2>4. \A i \in 1 .. Len(Tail(q)) : t[Len(g) + 1 + i] = Tail(q)[i]
    <3>. SUFFICES ASSUME NEW i \in 1 .. Len(Tail(q))
                  PROVE  t[Len(g) + 1 + i] = Tail(q)[i]
      OBVIOUS
    <3>1. i + 1 \in 1 .. Len(q) /\ Len(g) + w + (i + 1) = Len(g) + 1 + i
      BY <1>2, <2>1
    <3>2. t[Len(g) + w + (i + 1)] = q[i + 1]
      BY <3>1
    <3>. QED
      BY <2>1, <3>1, <3>2
  <2>. QED
    BY <2>2, <2>3, <2>4
<1>3. ASSUME w = 1 PROVE Placed(t, Append(g, o), 0, o, q)
  <2>1. /\ Len(Append(g, o)) = Len(g) + 1 /\ Append(g, o)[Len(g) + 1] = o
        /\ \A i \in 1 .. Len(g) : Append(g, o)[i] = g[i]
    OBVIOUS
  <2>2. Len(t) = Len(Append(g, o)) + 0 + Len(q)
    BY <1>3, <2>1
  <2>3. \A i \in 1 .. Len(Append(g, o)) : t[i] = Append(g, o)[i]
    BY <1>3, <2>1
  <2>4. \A i \in 1 .. Len(q) : t[Len(Append(g, o)) + 0 + i] = q[i]
    BY <1>3, <2>1
  <2>5. ~(0 = 1)
    OBVIOUS
  <2>. QED
    BY <2>2, <2>3, <2>4, <2>5, Zenon
<1>4. Len(g) <= Len(t)
  OBVIOUS
<1>. QED
  BY <1>1, <1>2, <1>3, <1>4, Zenon
-----------------------------------------------------------------------------
(* Delivery. *)

\* The lowest of some lines is one of them, and below the others.
LEMMA LowestIsLeast ==
    ASSUME NEW S \in SUBSET IRQ, S # {}
    PROVE  Lowest(S) \in S /\ \A j \in S : Lowest(S) <= j
<1>1. S \subseteq Nat
  BY DEF IRQ
<1>2. \E i \in S : \A j \in S : i <= j
  BY <1>1, MinOfNats
<1>. QED
  BY <1>2 DEF Lowest

\* With interrupts on a line that reaches the processor is the keyboard's, with
\* no activation before its end of interrupt, or the line of a device without a
\* gate that the masks let through.
LEMMA LineDelivered ==
    ASSUME IInv, cpu = "run", iflag, MasterRequests(pic) # {}
    PROVE  /\ boot > 5 /\ pic.isr = {}
           /\ \/ Requested(pic) = 1 /\ 1 \in pic.irr
              \/ Requested(pic) \in Stray /\ ~StraysMasked
<1>1. boot > 5
  BY DEF IInv, BootDone, Typed
<1>2. {0, 14} \subseteq pic.imr
  BY <1>1 DEF IInv, BootDone, Typed
<1>3. Stray \subseteq IRQ
  BY InterruptsAssumption DEF Stray
<1>4. SlaveRequests(pic) \subseteq (Stray \cap Slave) \ pic.imr
  BY <1>2 DEF SlaveRequests, RequestsOf, Slave, IInv, LinesInUse
<1>5. /\ MasterRequests(pic) \subseteq {1, 2} \cup Stray
      /\ 2 \in MasterRequests(pic) => 2 \notin pic.imr /\ SlaveRequests(pic) # {}
      /\ MasterRequests(pic) \cap pic.imr = {}
      /\ 1 \in MasterRequests(pic) => 1 \in pic.irr
  <2>1. 2 \notin pic.irr
    BY DEF IInv, LinesInUse, Stray
  <2>. QED
    BY <1>2, <2>1 DEF MasterRequests, RequestsOf, IInv, LinesInUse, Master
<1>6. PICK i : i = Lowest(MasterRequests(pic))
  OBVIOUS
<1>7. i \in MasterRequests(pic) /\ i \in IRQ
  <2>1. {1, 2} \subseteq IRQ
    BY DEF IRQ
  <2>2. MasterRequests(pic) \subseteq IRQ
    BY ONLY <1>3, <1>5, <2>1
  <2>. QED
    BY <1>6, <2>2, LowestIsLeast
<1>8. i \in Stray => i \in Master
  <2>1. i \in Stray => i # 2
    BY DEF Stray
  <2>. QED
    BY <1>7, <2>1 DEF MasterRequests, RequestsOf
<1>9. pic.isr = {}
  <2>1. pic.isr \subseteq {1}
    BY DEF IInv, LinesInUse
  <2>2. ASSUME 1 \in pic.isr PROVE FALSE
    <3>1. i < 1
      BY <1>7, <2>2 DEF MasterRequests, RequestsOf, Master
    <3>2. i # 0
      BY <1>2, <1>5, <1>7
    <3>. QED
      BY ONLY <1>7, <3>1, <3>2 DEF IRQ
  <2>. QED
    BY <2>1, <2>2
<1>10. CASE i = 2
  <2>1. SlaveRequests(pic) # {} /\ SlaveRequests(pic) \in SUBSET IRQ
    BY <1>3, <1>4, <1>5, <1>7, <1>10
  <2>2. Lowest(SlaveRequests(pic)) \in SlaveRequests(pic)
    BY <2>1, LowestIsLeast
  <2>3. Requested(pic) \in SlaveRequests(pic)
    BY <1>6, <1>10, <2>2 DEF Requested
  <2>4. ~StraysMasked
    BY <1>4, <1>5, <1>7, <1>10, <2>3 DEF StraysMasked
  <2>. QED
    BY <1>1, <1>4, <1>9, <2>3, <2>4
<1>11. CASE i # 2
  <2>1. Requested(pic) = i
    BY <1>6, <1>11 DEF Requested
  <2>2. CASE i = 1
    BY <1>1, <1>5, <1>7, <1>9, <2>1, <2>2
  <2>3. CASE i # 1
    <3>1. i \in Stray /\ i \notin pic.imr
      BY <1>5, <1>7, <1>11, <2>3
    <3>2. i \notin Slave
      BY <1>8, <3>1 DEF Master, Slave
    <3>3. ~StraysMasked
      BY <3>1, <3>2 DEF StraysMasked
    <3>. QED
      BY <1>1, <1>9, <2>1, <3>1, <3>3
  <2>. QED
    BY <2>2, <2>3
<1>. QED
  BY <1>10, <1>11

\* The keyboard's line goes through the keyboard's gate.
LEMMA KeyboardDelivered ==
    ASSUME IInv, boot > 5, pic.isr = {}
    PROVE  /\ Acknowledge(pic, 1) = [pic EXCEPT !.irr = @ \ {1}, !.isr = {1}]
           /\ Vector(pic, 1) = 33 /\ Usable(33)
           /\ idt[33] = [handler |-> "keyboard", selector |-> 8, clearsIF |-> TRUE]
<1>1. pic.offset1 = 32 /\ gdt = KernelGdt /\ cs = 8 /\ idt = KernelIdt
  BY DEF IInv, BootDone, Typed
<1>2. Acknowledge(pic, 1) = [pic EXCEPT !.irr = @ \ {1}, !.isr = {1}]
  BY DEF Acknowledge, Slave, IInv, Typed
<1>3. Vector(pic, 1) = 33
  BY <1>1 DEF Vector, Master
<1>4. 33 \in DOMAIN idt
       /\ idt[33] = [handler |-> "keyboard", selector |-> 8, clearsIF |-> TRUE]
  BY <1>1 DEF KernelIdt, InterruptGate
<1>5. 8 \in DOMAIN gdt /\ gdt[8] = "kernel code"
  <2>1. 8 # 0 /\ 8 # 16 /\ 8 # 24 /\ 8 # 32 /\ 8 # 40
    OBVIOUS
  <2>2. KernelGdt[8] = "kernel code"
    BY <2>1, Zenon DEF KernelGdt
  <2>. QED
    BY <1>1, <2>2, Zenon DEF KernelGdt
<1>6. Usable(33)
  <2>1. idt[33].selector = 8
    BY <1>4
  <2>. QED
    BY <1>4, <1>5, <2>1, Zenon DEF Usable
<1>. QED
  BY <1>2, <1>3, <1>4, <1>6

\* The other devices' lines have no gate.
LEMMA StrayHasNoGate ==
    ASSUME IInv, boot > 5, NEW irq \in Stray
    PROVE  ~Usable(Vector(pic, irq))
<1>1. pic.offset1 = 32 /\ pic.offset2 = 40 /\ idt = KernelIdt
  BY DEF IInv, BootDone, Typed
<1>2. irq \in 0 .. 15 /\ irq \notin {0, 1, 2, 14}
  BY InterruptsAssumption DEF Stray, IRQ
<1>3. Vector(pic, irq) \in 35 .. 47
  <2>1. CASE irq \in Master
    BY <1>1, <1>2, <2>1 DEF Vector, Master
  <2>2. CASE irq \notin Master
    BY <1>1, <1>2, <2>2 DEF Vector, Master
  <2>. QED
    BY <2>1, <2>2
<1>4. \A v \in 35 .. 47 : v \notin {0, 8, 13, 14, 32, 33, 129, 130}
  OBVIOUS
<1>5. DOMAIN idt = {0, 8, 13, 14, 32, 33, 129, 130}
  BY <1>1 DEF KernelIdt
<1>. QED
  BY <1>3, <1>4, <1>5 DEF Usable
-----------------------------------------------------------------------------
(* The boot. *)

\* The invariant holds when the boot loader jumps to the kernel.
LEMMA InitIInv == Init => IInv
<1>. SUFFICES ASSUME Init PROVE IInv
  OBVIOUS
<1>1. pic \in Controllers /\ pic.irr = {} /\ pic.isr = {}
  <2>1. pic \in [imr : SUBSET (Device \cup {2}), irr : {{}}, isr : {{}},
                  offset1 : {8}, offset2 : {112}]
    BY DEF Init
  <2>2. Device \cup {2} \subseteq IRQ
    BY InterruptsAssumption DEF IRQ
  <2>. QED
    BY <2>1, <2>2 DEF Controllers
<1>2. kbd \in [full : BOOLEAN, out : Bytes \cup {"key"}, fifo : Seq(Bytes)]
  BY DEF Init
<1>3. Typed
  <2>1. cs \in BootCS \cup {8} /\ iflag = FALSE /\ ata = FALSE /\ boot = 1
        /\ frames = <<>> /\ typed = <<>> /\ got = <<>> /\ deaf = FALSE
    BY DEF Init
  <2>2. frames \in Seq(Activation) /\ typed \in Seq(Bytes) /\ got \in Seq(Bytes \cup {"key"})
    BY <2>1, EmptySeq
  <2>3. boot \in 1 .. 7
    BY <2>1
  <2>4. cpu = "run"
    BY DEF Init
  <2>. QED
    BY <1>1, <1>2, <2>1, <2>2, <2>3, <2>4, Zenon DEF Typed
<1>4. BytesPlaced
  BY DEF Init, BytesPlaced, Placed, Waiting
<1>. QED
  BY <1>1, <1>3, <1>4
     DEF Init, IInv, NeverHalts, BootDone, LinesInUse, OneInService,
         RequestMeansByte, NestedByMemtest

\* Until the prompt is printed kernel_main runs with no handler on the stack.
LEMMA MainIInv == ASSUME IInv, kernel_main PROVE IInv'
<1>1. /\ frames = <<>> /\ frames' = <<>> /\ cpu = "run" /\ cpu' = "run"
      /\ boot' = boot + 1 /\ UNCHANGED <<kbd, ata, typed, got>>
  BY DEF kernel_main, InMain, main_remap, main_masks, init_gdt, init_interrupts,
         main_sti, main_prompt
<1>2. BytesPlaced'
  BY <1>1 DEF IInv, BytesPlaced, Waiting
<1>3. NeverHalts' /\ OneInService' /\ NestedByMemtest'
  BY <1>1 DEF NeverHalts, OneInService, NestedByMemtest
<1>4. boot \in 1 .. 6
  BY DEF kernel_main, InMain, main_remap, main_masks, init_gdt, init_interrupts,
         main_sti, main_prompt, Calls, BootOrder
<1>5. frames' \in Seq(Activation) /\ boot' \in 1 .. 7
  BY <1>1, <1>4
<1>. DEFINE Rest == Typed' /\ BootDone' /\ LinesInUse' /\ (1 \in pic'.irr => kbd'.full)
<1>6. SUFFICES Rest
  BY <1>1, <1>2, <1>3 DEF IInv, RequestMeansByte
<1>7. CASE main_remap
  <2>1. boot = 1
    BY <1>4, <1>7 DEF main_remap, InMain, Calls, BootOrder
  <2>2. pic' \in Controllers /\ pic'.irr = {} /\ pic'.isr = {} /\ pic'.offset1 = 32
        /\ pic'.offset2 = 40
    BY <1>7 DEF main_remap, pic_remap, IInv, Typed, Controllers
  <2>3. Typed'
    BY <1>1, <1>5, <1>7, <2>2 DEF IInv, Typed, main_remap
  <2>. QED
    BY <1>1, <1>7, <2>1, <2>2, <2>3 DEF main_remap, IInv, BootDone, LinesInUse
<1>8. CASE main_masks
  <2>1. boot = 2
    BY <1>4, <1>8 DEF main_masks, InMain, Calls, BootOrder
  <2>. DEFINE M == ((pic.imr \cup {14}) \cup {0}) \ {1}
  <2>2. M \in SUBSET IRQ
    BY DEF IInv, Typed, Controllers, IRQ
  <2>3. pic' = [pic EXCEPT !.imr = M]
    BY <1>8, MaskBits
       DEF main_masks, pic_enable_irq, pic_disable_irq, IInv, Typed, Controllers
  <2>4. pic' \in Controllers /\ pic'.imr = M /\ pic'.irr = pic.irr
        /\ pic'.isr = pic.isr /\ pic'.offset1 = pic.offset1
        /\ pic'.offset2 = pic.offset2
    <3>1. pic \in Controllers
      BY DEF IInv, Typed
    <3>. HIDE DEF M
    <3>. QED
      BY <2>2, <2>3, <3>1, ControllersUpdate
  <2>5. Typed'
    BY <1>1, <1>5, <1>8, <2>4 DEF IInv, Typed, main_masks
  <2>. QED
    BY <1>1, <1>8, <2>1, <2>4, <2>5
       DEF main_masks, IInv, BootDone, LinesInUse, RequestMeansByte
<1>9. CASE init_gdt
  <2>1. boot = 3
    BY <1>4, <1>9 DEF init_gdt, InMain, Calls, BootOrder
  <2>2. Typed'
    BY <1>1, <1>5, <1>9 DEF IInv, Typed, init_gdt
  <2>. QED
    BY <1>1, <1>9, <2>1, <2>2
       DEF init_gdt, IInv, BootDone, LinesInUse, RequestMeansByte
<1>10. CASE init_interrupts
  <2>1. boot = 4
    BY <1>4, <1>10 DEF init_interrupts, InMain, Calls, BootOrder
  <2>2. Typed'
    BY <1>1, <1>5, <1>10 DEF IInv, Typed, init_interrupts
  <2>3. KernelIdt' = KernelIdt
    BY <1>10 DEF init_interrupts, KernelIdt, InterruptGate
  <2>. QED
    BY <1>1, <1>10, <2>1, <2>2, <2>3
       DEF init_interrupts, IInv, BootDone, LinesInUse, RequestMeansByte
<1>11. CASE main_sti
  <2>1. boot = 5
    BY <1>4, <1>11 DEF main_sti, InMain, Calls, BootOrder
  <2>2. Typed'
    BY <1>1, <1>5, <1>11 DEF IInv, Typed, main_sti
  <2>3. KernelIdt' = KernelIdt
    BY <1>11 DEF main_sti, KernelIdt, InterruptGate
  <2>. QED
    BY <1>1, <1>11, <2>1, <2>2, <2>3
       DEF main_sti, IInv, BootDone, LinesInUse, RequestMeansByte
<1>12. CASE main_prompt
  <2>1. boot = 6
    BY <1>4, <1>12 DEF main_prompt, InMain, Calls, BootOrder
  <2>2. Typed'
    BY <1>1, <1>5, <1>12 DEF IInv, Typed, main_prompt
  <2>3. KernelIdt' = KernelIdt
    BY <1>12 DEF main_prompt, KernelIdt, InterruptGate
  <2>. QED
    BY <1>1, <1>12, <2>1, <2>2, <2>3
       DEF main_prompt, IInv, BootDone, LinesInUse, RequestMeansByte
<1>. QED
  BY <1>7, <1>8, <1>9, <1>10, <1>11, <1>12 DEF kernel_main
-----------------------------------------------------------------------------
(* Interrupts on. *)

\* A step that leaves the boot and the tables alone keeps what the boot did, if
\* the masks and offsets stay.
LEMMA BootKept ==
    ASSUME BootDone, boot > 5 \/ (pic'.isr = pic.isr /\ iflag' = iflag /\ frames' = frames),
           boot \in 1 .. 7, pic'.imr = pic.imr, pic'.offset1 = pic.offset1,
           pic'.offset2 = pic.offset2, gdt' = gdt, idt' = idt, cs' = cs, boot' = boot
    PROVE  BootDone'
<1>1. KernelIdt' = KernelIdt
  BY DEF KernelIdt, InterruptGate
<1>2. /\ boot' > 1 => pic'.offset1 = 32 /\ pic'.offset2 = 40
      /\ boot' > 2 => {0, 14} \subseteq pic'.imr /\ 1 \notin pic'.imr
      /\ boot' > 3 => gdt' = KernelGdt /\ cs' = 8
      /\ boot' > 4 => idt' = KernelIdt'
  BY <1>1 DEF BootDone
<1>3. boot' < 6 => ~iflag' /\ frames' = <<>> /\ pic'.isr = {}
  BY DEF BootDone
<1>. QED
  BY <1>2, <1>3 DEF BootDone

\* The line of a device without a gate stops the processor, and leaves the
\* activations and the bytes as they are.
LEMMA StrayIInv == ASSUME IInv, deliver, Requested(pic) # 1 PROVE IInv'
<1>1. iflag /\ MasterRequests(pic) # {} /\ cpu = "run"
  BY DEF deliver
<1>2. PICK irq \in Stray : irq = Requested(pic) /\ ~StraysMasked /\ boot > 5 /\ pic.isr = {}
  BY <1>1, LineDelivered
<1>3. ~Usable(Vector(pic, irq))
  BY <1>2, StrayHasNoGate
<1>4. /\ pic' = Acknowledge(pic, irq) /\ cpu' = "halted" /\ UNCHANGED <<frames, iflag>>
      /\ UNCHANGED <<gdt, idt, cs, boot, kbd, ata, typed, got, deaf>>
  BY <1>2, <1>3 DEF deliver, general_protection_fault_handler, Halts
<1>5. irq # 1 /\ irq \in IRQ
  BY InterruptsAssumption DEF Stray
<1>6. /\ pic' \in Controllers /\ pic'.irr = pic.irr \ {irq}
      /\ pic'.imr = pic.imr /\ pic'.offset1 = pic.offset1
      /\ pic'.offset2 = pic.offset2
      /\ \A i \in pic.isr : i \in pic'.isr
  <2>. DEFINE X == pic.irr \ {irq}
              Y == pic.isr \cup {irq} \cup (IF irq \in Slave THEN {2} ELSE {})
              p == [pic EXCEPT !.irr = X]
  <2>1. pic \in Controllers
    BY DEF IInv, Typed
  <2>2. X \in SUBSET IRQ /\ Y \in SUBSET IRQ
    BY <1>5, <2>1 DEF Controllers, IRQ
  <2>3. pic' = [p EXCEPT !.isr = Y]
    BY <1>4, <2>1 DEF Acknowledge, Controllers
  <2>4. \A i \in pic.isr : i \in Y
    OBVIOUS
  <2>. HIDE DEF X, Y
  <2>5. /\ p \in Controllers /\ p.irr = X /\ p.imr = pic.imr
        /\ p.offset1 = pic.offset1 /\ p.offset2 = pic.offset2
    BY <2>1, <2>2, ControllersUpdate
  <2>. HIDE DEF p
  <2>6. /\ pic' \in Controllers /\ pic'.isr = Y /\ pic'.irr = p.irr
        /\ pic'.imr = p.imr /\ pic'.offset1 = p.offset1
        /\ pic'.offset2 = p.offset2
    BY <2>2, <2>3, <2>5, ControllersUpdate
  <2>. QED
    BY <2>4, <2>5, <2>6 DEF X
<1>7. Typed'
  BY <1>4, <1>6 DEF IInv, Typed
<1>8. NeverHalts'
  BY <1>2, <1>6 DEF NeverHalts, StraysMasked
<1>9. BootDone'
  BY <1>2, <1>4, <1>6, BootKept DEF IInv, Typed
<1>10. LinesInUse'
  BY <1>4, <1>6 DEF IInv, LinesInUse
<1>11. OneInService'
  BY <1>4, <1>6 DEF IInv, OneInService
<1>12. RequestMeansByte'
  BY <1>4, <1>6 DEF IInv, RequestMeansByte
<1>13. BytesPlaced' /\ NestedByMemtest'
  BY <1>4 DEF IInv, BytesPlaced, Waiting, NestedByMemtest
<1>. QED
  BY <1>7, <1>8, <1>9, <1>10, <1>11, <1>12, <1>13 DEF IInv

\* The keyboard's line is delivered only when the activation below is past its
\* end of interrupt and was opened by "memtest 2".
LEMMA DeliverIInv == ASSUME IInv, deliver, Requested(pic) = 1 PROVE IInv'
<1>. DEFINE act == [handler |-> "keyboard", at |-> "entered", byte |-> "key",
                    iflag |-> iflag]
<1>1. iflag /\ MasterRequests(pic) # {} /\ cpu = "run"
  BY DEF deliver
<1>2. /\ boot > 5
      /\ 1 \in pic.irr /\ 1 \notin pic.isr
      /\ Acknowledge(pic, 1) = [pic EXCEPT !.irr = @ \ {1}, !.isr = {1}]
      /\ Vector(pic, 1) = 33 /\ Usable(33)
      /\ idt[33] = [handler |-> "keyboard", selector |-> 8, clearsIF |-> TRUE]
  <2>1. boot > 5 /\ pic.isr = {} /\ 1 \in pic.irr
    BY <1>1, LineDelivered DEF Stray
  <2>. QED
    BY <2>1, KeyboardDelivered
<1>3. pic' = Acknowledge(pic, 1) /\ Enter(idt[33])
  <2>1. idt[33].handler # "timer"
    BY <1>2
  <2>. QED
    BY <1>2, <2>1 DEF deliver
<1>4. frames' = Append(frames, act) /\ iflag' = FALSE /\ cpu' = "run"
  <2>1. idt[33].handler = "keyboard" /\ idt[33].clearsIF = TRUE
    BY <1>2
  <2>. QED
    BY <1>1, <1>3, <2>1, Zenon DEF Enter
<1>5. UNCHANGED <<gdt, idt, cs, boot, kbd, ata, typed, got, deaf>>
  BY DEF deliver
<1>6. /\ pic' \in Controllers /\ pic'.irr = pic.irr \ {1} /\ pic'.isr = {1}
      /\ pic'.imr = pic.imr /\ pic'.offset1 = pic.offset1
      /\ pic'.offset2 = pic.offset2
  <2>1. pic' = [[pic EXCEPT !.irr = pic.irr \ {1}] EXCEPT !.isr = {1}]
    BY <1>2, <1>3
  <2>2. pic \in Controllers /\ pic.irr \ {1} \in SUBSET IRQ /\ {1} \in SUBSET IRQ
    BY DEF IInv, Typed, Controllers, IRQ
  <2>. DEFINE p == [pic EXCEPT !.irr = pic.irr \ {1}]
  <2>3. /\ p \in Controllers /\ p.irr = pic.irr \ {1}
        /\ p.imr = pic.imr /\ p.offset1 = pic.offset1
        /\ p.offset2 = pic.offset2
    BY <2>2, ControllersUpdate
  <2>. DEFINE X == {1}
  <2>4. pic' = [p EXCEPT !.isr = X] /\ X \in SUBSET IRQ
    BY <2>1, <2>2
  <2>. HIDE DEF p, X
  <2>5. /\ pic' \in Controllers /\ pic'.isr = X /\ pic'.irr = p.irr
        /\ pic'.imr = p.imr /\ pic'.offset1 = p.offset1
        /\ pic'.offset2 = p.offset2
    BY <2>3, <2>4, ControllersUpdate
  <2>. QED
    BY <2>3, <2>5 DEF X
<1>7. act \in Activation
  BY DEF IInv, Typed, Activation
<1>8. /\ frames' \in Seq(Activation) /\ Len(frames') = Len(frames) + 1
      /\ \A i \in 1 .. Len(frames) : frames'[i] = frames[i]
      /\ frames'[Len(frames) + 1] = act
  BY <1>4, <1>7 DEF IInv, Typed
<1>9. \A i \in 1 .. Len(frames) : frames[i].at = "iret"
  BY <1>2 DEF IInv, OneInService
<1>10. Typed'
  BY <1>4, <1>5, <1>6, <1>8 DEF IInv, Typed
<1>11. NeverHalts'
  BY <1>4 DEF NeverHalts
<1>12. BootDone'
  <2>1. BootDone /\ boot \in 1 .. 7
    BY DEF IInv, Typed
  <2>2. UNCHANGED <<gdt, idt, cs, boot>>
    BY <1>5
  <2>3. boot > 5 /\ pic'.imr = pic.imr /\ pic'.offset1 = pic.offset1 /\ pic'.offset2 = pic.offset2
    BY <1>2, <1>6
  <2>. QED
    BY <2>1, <2>2, <2>3, BootKept
<1>13. LinesInUse'
  BY <1>6 DEF IInv, LinesInUse
<1>14. OneInService'
  <2>1. \A i \in 1 .. Len(frames') : i # Len(frames') => i \in 1 .. Len(frames)
    BY <1>8 DEF IInv, Typed
  <2>2. \A i \in 1 .. Len(frames) : frames'[i].at = "iret"
    BY <1>8, <1>9
  <2>. QED
    BY <1>6, <2>1, <2>2 DEF OneInService
<1>15. RequestMeansByte'
  <2>1. kbd'.full /\ 1 \notin pic'.irr
    BY <1>2, <1>5, <1>6 DEF IInv, RequestMeansByte
  <2>2. \A i \in 1 .. Len(frames') : i # Len(frames') => i \in 1 .. Len(frames)
    BY <1>8 DEF IInv, Typed
  <2>3. \A i \in 1 .. Len(frames) : frames'[i].at # "entered"
    BY <1>8, <1>9
  <2>4. frames'[Len(frames')].byte = "key"
    BY <1>8
  <2>. QED
    BY <2>1, <2>2, <2>3, <2>4 DEF RequestMeansByte
<1>16. BytesPlaced'
  BY <1>5 DEF BytesPlaced, Waiting, IInv
<1>17. NestedByMemtest'
  <2>1. \A i \in 1 .. Len(frames) : frames[i].byte = "memtest2"
    BY <1>1 DEF IInv, NestedByMemtest, Typed
  <2>2. frames'[Len(frames')].byte = "key" /\ frames' # <<>>
    BY <1>8
  <2>3. Cardinality(Memtests(got)) \in Nat
    BY MemtestsOfAppend DEF IInv, Typed
  <2>4. Len(frames') <= Cardinality(Memtests(got)) + 1
    <3>1. CASE frames = <<>>
      BY <1>8, <2>3, <3>1
    <3>2. CASE frames # <<>>
      BY <1>8, <2>1, <2>3, <3>2 DEF IInv, NestedByMemtest, Typed
    <3>. QED
      BY <3>1, <3>2
  <2>. QED
    BY <1>4, <1>5, <1>8, <2>1, <2>2, <2>4 DEF NestedByMemtest, IInv, Typed
<1>. QED
  BY <1>10, <1>11, <1>12, <1>13, <1>14, <1>15, <1>16, <1>17 DEF IInv

\* A handler runs only after the boot, and its activation is the last one.
LEMMA HandlerRuns ==
    ASSUME IInv, frames # <<>>
    PROVE  boot > 5 /\ Len(frames) \in 1 .. Len(frames) /\ frames[Len(frames)] \in Activation
BY DEF IInv, BootDone, Typed

\* The step of a handler to its next place changes the last activation only.
LEMMA LastChanges ==
    ASSUME NEW F \in Seq(Activation), F # <<>>, NEW a \in Activation,
           NEW G, G = [F EXCEPT ![Len(F)] = a]
    PROVE  /\ G \in Seq(Activation) /\ Len(G) = Len(F) /\ G # <<>>
           /\ \A i \in 1 .. Len(F) - 1 : G[i] = F[i]
           /\ G[Len(G)] = a
OBVIOUS

\* iret removes the last activation.
LEMMA LastRemoved ==
    ASSUME NEW F \in Seq(Activation), F # <<>>,
           NEW G, G = SubSeq(F, 1, Len(F) - 1)
    PROVE  /\ G \in Seq(Activation) /\ Len(G) = Len(F) - 1
           /\ \A i \in 1 .. Len(F) - 1 : G[i] = F[i]
<1>. DEFINE m == Len(F) - 1
<1>1. m \in Nat /\ \A i \in 1 .. m : F[i] \in Activation
  OBVIOUS
<1>2. /\ SubSeq(F, 1, m) \in Seq(Activation)
      /\ Len(SubSeq(F, 1, m)) = IF 1 <= m THEN m - 1 + 1 ELSE 0
      /\ \A i \in 1 .. m - 1 + 1 : SubSeq(F, 1, m)[i] = F[1 + i - 1]
  <2>. HIDE DEF m
  <2>. QED
    BY <1>1, SubSeqProperties
<1>3. m - 1 + 1 = m /\ \A i \in 1 .. m : 1 + i - 1 = i
  BY <1>1
<1>4. Len(SubSeq(F, 1, m)) = m
  <2>1. m \in Nat
    BY <1>1
  <2>. HIDE DEF m
  <2>2. CASE 1 <= m
    <3>1. m - 1 + 1 = m
      BY <2>1
    <3>. QED
      BY <1>2, <2>2, <3>1
  <2>3. CASE ~(1 <= m)
    <3>1. m = 0
      BY <2>1, <2>3
    <3>. QED
      BY <1>2, <2>3, <3>1
  <2>. QED
    BY <2>2, <2>3
<1>5. \A i \in 1 .. m : SubSeq(F, 1, m)[i] = F[i]
  BY <1>2, <1>3
<1>. QED
  BY <1>2, <1>4, <1>5

\* Where the bytes are, as PlacedMoves wants it.
LEMMA PlacedNow ==
    ASSUME IInv
    PROVE  /\ typed \in Seq(Bytes \cup {"key"}) /\ got \in Seq(Bytes \cup {"key"})
           /\ kbd.fifo \in Seq(Bytes \cup {"key"}) /\ kbd.out \in Bytes \cup {"key"}
           /\ Waiting \in {0, 1}
           /\ Placed(typed, got, Waiting, kbd.out, kbd.fifo)
<1>1. typed \in Seq(Bytes) /\ got \in Seq(Bytes \cup {"key"}) /\ kbd.fifo \in Seq(Bytes)
      /\ kbd.out \in Bytes \cup {"key"}
  BY DEF IInv, Typed
<1>2. Waiting \in {0, 1}
  BY DEF Waiting
<1>. QED
  BY <1>1, <1>2 DEF IInv, BytesPlaced

\* The byte leaves the output buffer for the list of those taken.
LEMMA ReadIInv == ASSUME IInv, keyboard_read PROVE IInv'
<1>. DEFINE n == Len(frames)
            act == [frames[n] EXCEPT !.at = "work", !.byte = kbd.out]
<1>1. /\ frames # <<>> /\ frames[n].at = "entered" /\ cpu = "run"
      /\ UNCHANGED <<pic, gdt, idt, cs, iflag, boot, ata, cpu, typed, deaf>>
      /\ kbd' = [kbd EXCEPT !.full = FALSE] /\ got' = Append(got, kbd.out)
  BY DEF keyboard_read, At, Top
<1>2. boot > 5 /\ n \in 1 .. n /\ frames[n] \in Activation
  BY <1>1, HandlerRuns
<1>3. act \in Activation /\ act.at = "work" /\ act.byte = kbd.out
  BY <1>2 DEF IInv, Typed, Activation
<1>4. frames' = [frames EXCEPT ![n] = act]
  BY DEF keyboard_read
<1>5. /\ frames' \in Seq(Activation) /\ Len(frames') = n /\ frames' # <<>>
      /\ \A i \in 1 .. n - 1 : frames'[i] = frames[i]
      /\ frames'[n] = act
  <2>. HIDE DEF act
  <2>. QED
    BY <1>1, <1>3, <1>4, LastChanges DEF IInv, Typed
<1>. HIDE DEF act
<1>6. /\ kbd' \in [full : BOOLEAN, out : Bytes \cup {"key"}, fifo : Seq(Bytes)]
      /\ kbd'.full = FALSE /\ kbd'.out = kbd.out /\ kbd'.fifo = kbd.fifo
  BY <1>1 DEF IInv, Typed
<1>7. kbd.full /\ 1 \notin pic.irr /\ frames[n].byte = "key" /\ 1 \in pic.isr
  BY <1>1, <1>2 DEF IInv, RequestMeansByte, OneInService
<1>8. \A i \in 1 .. n - 1 : frames[i].at = "iret" /\ frames[i].byte = "memtest2"
  BY <1>2 DEF IInv, OneInService, NestedByMemtest, Typed
<1>9. /\ got' \in Seq(Bytes \cup {"key"}) /\ Len(got') = Len(got) + 1
      /\ \A i \in 1 .. Len(got) : got'[i] = got[i]
      /\ got'[Len(got) + 1] = kbd.out
  BY <1>1 DEF IInv, Typed
<1>10. Typed'
  BY <1>1, <1>5, <1>6, <1>9 DEF IInv, Typed
<1>11. NeverHalts'
  BY <1>1 DEF NeverHalts
<1>12. BootDone'
  BY <1>1, <1>2, BootKept DEF IInv, Typed
<1>13. LinesInUse'
  BY <1>1 DEF IInv, LinesInUse
<1>14. OneInService'
  BY <1>1, <1>2, <1>5, <1>7, <1>8 DEF OneInService
<1>15. RequestMeansByte'
  BY <1>1, <1>2, <1>3, <1>5, <1>7, <1>8 DEF RequestMeansByte
<1>16. BytesPlaced'
  <2>1. Waiting = 1 /\ Waiting' = 0
    BY <1>6, <1>7 DEF Waiting
  <2>2. "key" \in Bytes \cup {"key"}
    OBVIOUS
  <2>. QED
    BY <1>1, <1>6, <2>1, <2>2, PlacedNow, PlacedMoves DEF BytesPlaced
<1>17. NestedByMemtest'
  <2>1. kbd.out \in Bytes \cup {"key"} /\ got \in Seq(Bytes \cup {"key"})
    BY DEF IInv, Typed
  <2>2. /\ Cardinality(Memtests(got)) \in Nat
        /\ Cardinality(Memtests(got')) =
              Cardinality(Memtests(got)) + IF kbd.out = "memtest2" THEN 1 ELSE 0
    BY <1>1, <2>1, MemtestsOfAppend
  <2>3. ~iflag /\ n <= Cardinality(Memtests(got)) + 1
    BY <1>1, <1>7 DEF IInv, NestedByMemtest
  <2>4. n <= Cardinality(Memtests(got')) + IF act.byte = "memtest2" THEN 0 ELSE 1
    BY <1>2, <1>3, <2>2, <2>3 DEF IInv, Typed
  <2>. QED
    BY <1>1, <1>5, <1>8, <2>3, <2>4 DEF NestedByMemtest
<1>. QED
  BY <1>10, <1>11, <1>12, <1>13, <1>14, <1>15, <1>16, <1>17 DEF IInv

\* The command may turn interrupts on: only "memtest 2" does.
LEMMA WorkIInv == ASSUME IInv, keyboard_work PROVE IInv'
<1>. DEFINE n == Len(frames)
<1>0. PICK place \in {"end", "polling"} : Goto(place)
  BY DEF keyboard_work
<1>. DEFINE act == [frames[n] EXCEPT !.at = place]
<1>1. /\ frames # <<>> /\ frames[n].at = "work" /\ cpu = "run"
      /\ UNCHANGED <<pic, gdt, idt, cs, boot, kbd, cpu, typed, got, deaf>>
      /\ frames' = [frames EXCEPT ![n] = act]
  BY <1>0 DEF keyboard_work, At, Top, Goto
<1>2. boot > 5 /\ n \in 1 .. n /\ frames[n] \in Activation
  BY <1>1, HandlerRuns
<1>3. act \in Activation /\ act.at = place /\ act.byte = frames[n].byte
  BY <1>0, <1>2 DEF Activation
<1>4. /\ frames' \in Seq(Activation) /\ Len(frames') = n /\ frames' # <<>>
      /\ \A i \in 1 .. n - 1 : frames'[i] = frames[i]
      /\ frames'[n] = act
  <2>. HIDE DEF act
  <2>. QED
    BY <1>1, <1>3, LastChanges DEF IInv, Typed
<1>. HIDE DEF act
<1>5. iflag' \in BOOLEAN /\ ata' \in BOOLEAN
      /\ (iflag' => iflag \/ frames[n].byte = "memtest2")
  BY DEF keyboard_work, Top, IInv, Typed
<1>6. 1 \in pic.isr
      /\ \A i \in 1 .. n - 1 : frames[i].at = "iret" /\ frames[i].byte = "memtest2"
  <2>1. frames \in Seq(Activation)
    BY DEF IInv, Typed
  <2>2. 1 \in pic.isr
    BY <1>1, <1>2 DEF IInv, OneInService
  <2>3. \A i \in 1 .. n - 1 : i \in 1 .. Len(frames) /\ i # Len(frames)
    BY <2>1
  <2>. QED
    BY <2>2, <2>3 DEF IInv, OneInService, NestedByMemtest
<1>7. Typed'
  BY <1>1, <1>4, <1>5 DEF IInv, Typed
<1>8. BootDone'
  BY <1>1, <1>2, BootKept DEF IInv, Typed
<1>9. NeverHalts' /\ LinesInUse'
  BY <1>1 DEF IInv, LinesInUse, NeverHalts
<1>10. OneInService'
  <2>1. \A i \in 1 .. n : i # n => i \in 1 .. n - 1
    BY <1>2
  <2>. QED
    BY <1>1, <1>4, <1>6, <2>1 DEF OneInService
<1>11. RequestMeansByte'
  <2>1. \A i \in 1 .. n : i # n => i \in 1 .. n - 1
    BY <1>2
  <2>2. \A i \in 1 .. n : frames'[i].at # "entered"
    BY <1>0, <1>3, <1>4, <1>6, <2>1
  <2>. QED
    BY <1>1, <1>4, <2>2 DEF RequestMeansByte, IInv
<1>12. BytesPlaced'
  BY <1>1 DEF BytesPlaced, Waiting, IInv
<1>13. NestedByMemtest'
  BY <1>1, <1>3, <1>4, <1>5, <1>6 DEF NestedByMemtest, IInv
<1>. QED
  BY <1>7, <1>8, <1>9, <1>10, <1>11, <1>12, <1>13 DEF IInv

\* The end of interrupt frees the line and ends the handler's claim to it.
LEMMA EoiIInv == ASSUME IInv, keyboard_eoi PROVE IInv'
<1>. DEFINE n == Len(frames)
            act == [frames[n] EXCEPT !.at = "iret"]
<1>1. /\ frames # <<>> /\ frames[n].at = "end" /\ cpu = "run"
      /\ UNCHANGED <<gdt, idt, cs, iflag, boot, kbd, ata, cpu, typed, got, deaf>>
      /\ frames' = [frames EXCEPT ![n] = act] /\ pic' = pic_send_eoi(pic, 1)
  BY DEF keyboard_eoi, At, Top, Goto
<1>2. boot > 5 /\ n \in 1 .. n /\ frames[n] \in Activation
  BY <1>1, HandlerRuns
<1>3. act \in Activation /\ act.at = "iret" /\ act.byte = frames[n].byte
  BY <1>2 DEF Activation
<1>4. /\ frames' \in Seq(Activation) /\ Len(frames') = n /\ frames' # <<>>
      /\ \A i \in 1 .. n - 1 : frames'[i] = frames[i]
      /\ frames'[n] = act
  <2>. HIDE DEF act
  <2>. QED
    BY <1>1, <1>3, LastChanges DEF IInv, Typed
<1>. HIDE DEF act
<1>5. /\ pic' \in Controllers /\ pic'.irr = pic.irr /\ pic'.isr = {}
      /\ pic'.imr = pic.imr /\ pic'.offset1 = pic.offset1
      /\ pic'.offset2 = pic.offset2
  <2>1. pic' = [pic EXCEPT !.isr = {}]
    BY <1>1, EndsLineOne DEF IInv, Typed, LinesInUse
  <2>2. pic \in Controllers /\ {} \in SUBSET IRQ
    BY DEF IInv, Typed
  <2>. QED
    BY <2>1, <2>2, ControllersUpdate
<1>6. \A i \in 1 .. n - 1 : frames[i].at = "iret" /\ frames[i].byte = "memtest2"
  BY <1>2 DEF IInv, OneInService, NestedByMemtest, Typed
<1>7. Typed'
  BY <1>1, <1>4, <1>5 DEF IInv, Typed
<1>8. BootDone'
  BY <1>1, <1>2, <1>5, BootKept DEF IInv, Typed
<1>9. NeverHalts' /\ LinesInUse'
  BY <1>1, <1>5 DEF IInv, LinesInUse, NeverHalts
<1>10. OneInService'
  BY <1>2, <1>3, <1>4, <1>6 DEF OneInService
<1>11. RequestMeansByte'
  <2>1. \A i \in 1 .. n : i # n => i \in 1 .. n - 1
    BY <1>2
  <2>2. \A i \in 1 .. n : frames'[i].at # "entered"
    BY <1>3, <1>4, <1>6, <2>1
  <2>. QED
    BY <1>1, <1>5, <1>4, <2>2 DEF RequestMeansByte, IInv
<1>12. BytesPlaced'
  BY <1>1 DEF BytesPlaced, Waiting, IInv
<1>13. NestedByMemtest'
  BY <1>1, <1>3, <1>4, <1>6 DEF NestedByMemtest, IInv
<1>. QED
  BY <1>7, <1>8, <1>9, <1>10, <1>11, <1>12, <1>13 DEF IInv

\* iret returns to the activation below, which is a "memtest 2".
LEMMA IretIInv == ASSUME IInv, keyboard_iret PROVE IInv'
<1>. DEFINE n == Len(frames)
<1>1. /\ frames # <<>> /\ frames[n].at = "iret" /\ cpu = "run"
      /\ UNCHANGED <<pic, gdt, idt, cs, boot, kbd, ata, cpu, typed, got, deaf>>
      /\ frames' = SubSeq(frames, 1, n - 1) /\ iflag' = frames[n].iflag
  BY DEF keyboard_iret, At, Top
<1>2. boot > 5 /\ n \in 1 .. n /\ frames[n] \in Activation
  BY <1>1, HandlerRuns
<1>3. /\ frames' \in Seq(Activation) /\ Len(frames') = n - 1
      /\ \A i \in 1 .. n - 1 : frames'[i] = frames[i]
  <2>1. frames \in Seq(Activation)
    BY DEF IInv, Typed
  <2>. QED
    BY <1>1, <2>1, LastRemoved
<1>4. iflag' \in BOOLEAN
  BY <1>1, <1>2 DEF Activation
<1>5. \A i \in 1 .. n - 1 : frames[i].at = "iret" /\ frames[i].byte = "memtest2"
  BY <1>2 DEF IInv, OneInService, NestedByMemtest, Typed
<1>6. Typed'
  BY <1>1, <1>3, <1>4 DEF IInv, Typed
<1>7. BootDone'
  BY <1>1, <1>2, BootKept DEF IInv, Typed
<1>8. NeverHalts' /\ LinesInUse'
  BY <1>1 DEF IInv, LinesInUse, NeverHalts
<1>9. OneInService'
  BY <1>3, <1>5 DEF OneInService
<1>10. RequestMeansByte'
  BY <1>1, <1>3, <1>5 DEF RequestMeansByte, IInv
<1>11. BytesPlaced'
  BY <1>1 DEF BytesPlaced, Waiting, IInv
<1>12. NestedByMemtest'
  <2>1. Cardinality(Memtests(got)) \in Nat
    BY MemtestsOfAppend DEF IInv, Typed
  <2>2. n - 1 <= Cardinality(Memtests(got))
    BY <1>1, <1>2, <2>1 DEF IInv, NestedByMemtest
  <2>3. frames' # <<>> => n - 1 \in 1 .. n - 1
    BY <1>2, <1>3
  <2>. QED
    BY <1>1, <1>3, <1>5, <2>1, <2>2, <2>3 DEF NestedByMemtest
<1>. QED
  BY <1>6, <1>7, <1>8, <1>9, <1>10, <1>11, <1>12 DEF IInv
-----------------------------------------------------------------------------
(* The devices. *)

\* A device that raises its line changes a request bit of the controller.
LEMMA RaiseKeeps ==
    ASSUME IInv, NEW irq \in {0, 1, 14} \cup Stray, Raise(irq),
           gdt' = gdt, idt' = idt, cs' = cs, boot' = boot, iflag' = iflag,
           frames' = frames, cpu' = cpu
    PROVE  /\ pic' \in Controllers /\ pic'.irr = pic.irr \cup {irq}
           /\ pic'.isr = pic.isr
           /\ NeverHalts' /\ BootDone' /\ LinesInUse' /\ OneInService'
<1>1. pic \in Controllers /\ boot \in 1 .. 7 /\ BootDone
  BY DEF IInv, Typed
<1>2. pic.irr \cup {irq} \in SUBSET IRQ
  BY <1>1, InterruptsAssumption DEF Controllers, IRQ, Stray
<1>3. pic' = [pic EXCEPT !.irr = pic.irr \cup {irq}]
  BY DEF Raise
<1>4. /\ pic' \in Controllers /\ pic'.irr = pic.irr \cup {irq} /\ pic'.isr = pic.isr
      /\ pic'.imr = pic.imr /\ pic'.offset1 = pic.offset1
      /\ pic'.offset2 = pic.offset2
  <2>. DEFINE X == pic.irr \cup {irq}
  <2>1. X \in SUBSET IRQ /\ pic' = [pic EXCEPT !.irr = X]
    BY <1>3, <1>2
  <2>. HIDE DEF X
  <2>2. /\ pic' \in Controllers /\ pic'.irr = X /\ pic'.isr = pic.isr
        /\ pic'.imr = pic.imr /\ pic'.offset1 = pic.offset1
        /\ pic'.offset2 = pic.offset2
    BY <1>1, <2>1, ControllersUpdate
  <2>. QED
    BY <2>2 DEF X
<1>5. BootDone'
  BY <1>1, <1>4, BootKept
<1>. QED
  BY <1>4, <1>5 DEF IInv, NeverHalts, StraysMasked, LinesInUse, OneInService

\* A key goes behind the bytes that wait.
LEMMA TypedIInv == ASSUME IInv, key_typed PROVE IInv'
<1>1. PICK b \in Bytes : typed' = Append(typed, b)
                         /\ kbd' = [kbd EXCEPT !.fifo = Append(kbd.fifo, b)]
  BY DEF key_typed
<1>2. /\ pic' = pic /\ gdt' = gdt /\ idt' = idt /\ cs' = cs /\ iflag' = iflag
      /\ boot' = boot /\ frames' = frames /\ cpu' = cpu /\ ata' = ata /\ got' = got
      /\ deaf' = deaf
  BY DEF key_typed, system
<1>3. /\ kbd' \in [full : BOOLEAN, out : Bytes \cup {"key"}, fifo : Seq(Bytes)]
      /\ kbd'.full = kbd.full /\ kbd'.out = kbd.out /\ kbd'.fifo = Append(kbd.fifo, b)
  <2>1. Append(kbd.fifo, b) \in Seq(Bytes)
    BY DEF IInv, Typed
  <2>. QED
    BY <1>1, <2>1 DEF IInv, Typed
<1>4. typed' \in Seq(Bytes)
  BY <1>1 DEF IInv, Typed
<1>5. Typed'
  BY <1>2, <1>3, <1>4 DEF IInv, Typed
<1>6. BootDone'
  BY <1>2, BootKept DEF IInv, Typed
<1>7. NeverHalts' /\ LinesInUse' /\ OneInService'
  BY <1>2 DEF IInv, NeverHalts, StraysMasked, LinesInUse, OneInService
<1>8. RequestMeansByte'
  BY <1>2, <1>3 DEF IInv, RequestMeansByte
<1>9. BytesPlaced'
  <2>1. Waiting' = Waiting
    BY <1>3 DEF Waiting
  <2>2. b \in Bytes \cup {"key"}
    OBVIOUS
  <2>3. Placed(Append(typed, b), got, Waiting, kbd.out, Append(kbd.fifo, b))
    BY <2>2, PlacedNow, PlacedMoves
  <2>. QED
    BY <1>1, <1>2, <1>3, <2>1, <2>3, Zenon DEF BytesPlaced
<1>10. NestedByMemtest'
  BY <1>2 DEF IInv, NestedByMemtest
<1>. QED
  BY <1>5, <1>6, <1>7, <1>8, <1>9, <1>10 DEF IInv

\* The line rises for a byte that no activation is about to read.
LEMMA NextByteIInv == ASSUME IInv, kbd_next_byte PROVE IInv'
<1>1. /\ ~kbd.full /\ kbd.fifo # <<>> /\ Raise(1)
      /\ kbd' = [full |-> TRUE, out |-> Head(kbd.fifo), fifo |-> Tail(kbd.fifo)]
  BY DEF kbd_next_byte
<1>2. /\ gdt' = gdt /\ idt' = idt /\ cs' = cs /\ iflag' = iflag
      /\ boot' = boot /\ frames' = frames /\ cpu' = cpu /\ ata' = ata /\ got' = got
      /\ typed' = typed /\ deaf' = deaf
  BY DEF kbd_next_byte
<1>3. /\ pic' \in Controllers
      /\ NeverHalts' /\ BootDone' /\ LinesInUse' /\ OneInService'
  BY <1>1, <1>2, RaiseKeeps
<1>4. /\ kbd' \in [full : BOOLEAN, out : Bytes \cup {"key"}, fifo : Seq(Bytes)]
      /\ kbd'.full = TRUE /\ kbd'.out = Head(kbd.fifo) /\ kbd'.fifo = Tail(kbd.fifo)
  BY <1>1 DEF IInv, Typed
<1>5. Typed'
  BY <1>2, <1>3, <1>4 DEF IInv, Typed
<1>6. RequestMeansByte'
  BY <1>1, <1>2, <1>4 DEF IInv, RequestMeansByte
<1>7. BytesPlaced'
  <2>1. Waiting = 0 /\ Waiting' = 1
    BY <1>1, <1>4 DEF Waiting
  <2>2. "key" \in Bytes \cup {"key"}
    OBVIOUS
  <2>3. Placed(typed, got, 1, Head(kbd.fifo), Tail(kbd.fifo))
    BY <1>1, <2>1, <2>2, PlacedNow, PlacedMoves
  <2>. QED
    BY <1>2, <1>4, <2>1, <2>3, Zenon DEF BytesPlaced
<1>8. NestedByMemtest'
  BY <1>2 DEF IInv, NestedByMemtest
<1>. QED
  BY <1>3, <1>5, <1>6, <1>7, <1>8 DEF IInv

\* The requests of the other lines are no byte of the keyboard.
LEMMA TickIInv ==
    ASSUME IInv, timer_tick \/ ata_interrupt \/ other_interrupt
    PROVE  IInv'
<1>1. /\ gdt' = gdt /\ idt' = idt /\ cs' = cs /\ iflag' = iflag
      /\ boot' = boot /\ frames' = frames /\ cpu' = cpu /\ got' = got
      /\ typed' = typed /\ deaf' = deaf /\ kbd' = kbd
  BY DEF timer_tick, ata_interrupt, other_interrupt
<1>2. ata' \in BOOLEAN
  BY DEF timer_tick, ata_interrupt, other_interrupt, IInv, Typed
<1>3. PICK irq \in {0, 14} \cup Stray : Raise(irq)
  BY DEF timer_tick, ata_interrupt, other_interrupt
<1>4. irq # 1
  BY DEF Stray
<1>5. /\ pic' \in Controllers /\ pic'.irr = pic.irr \cup {irq}
      /\ NeverHalts' /\ BootDone' /\ LinesInUse' /\ OneInService'
  BY <1>1, <1>3, RaiseKeeps
<1>6. Typed'
  BY <1>1, <1>2, <1>5 DEF IInv, Typed
<1>7. RequestMeansByte'
  BY <1>1, <1>5, <1>4 DEF IInv, RequestMeansByte
<1>8. BytesPlaced' /\ NestedByMemtest'
  BY <1>1 DEF IInv, BytesPlaced, Waiting, NestedByMemtest
<1>. QED
  BY <1>5, <1>6, <1>7, <1>8 DEF IInv
-----------------------------------------------------------------------------
(* The theorems. *)

\* Every step keeps the invariant.
LEMMA NextIInv == IInv /\ [Next]_vars => IInv'
<1>. SUFFICES ASSUME IInv, [Next]_vars PROVE IInv'
  OBVIOUS
<1>1. CASE kernel_main
  BY <1>1, MainIInv
<1>2. CASE deliver
  BY <1>2, DeliverIInv, StrayIInv
<1>3. CASE isr_wrapper_33
  BY <1>3, ReadIInv, WorkIInv, EoiIInv, IretIInv DEF isr_wrapper_33
<1>4. CASE key_typed
  BY <1>4, TypedIInv
<1>5. CASE kbd_next_byte
  BY <1>5, NextByteIInv
<1>6. CASE timer_tick \/ ata_interrupt \/ other_interrupt
  BY <1>6, TickIInv
<1>7. CASE UNCHANGED vars
  <2>1. /\ pic' = pic /\ gdt' = gdt /\ idt' = idt /\ cs' = cs /\ iflag' = iflag
        /\ boot' = boot /\ frames' = frames /\ cpu' = cpu /\ ata' = ata /\ got' = got
        /\ typed' = typed /\ deaf' = deaf /\ kbd' = kbd
    BY <1>7 DEF vars
  <2>2. BootDone'
    BY <2>1, BootKept DEF IInv, Typed
  <2>. QED
    BY <2>1, <2>2 DEF IInv, Typed, NeverHalts, StraysMasked, LinesInUse, OneInService,
                      RequestMeansByte, BytesPlaced, Waiting, NestedByMemtest
<1>. QED
  BY <1>1, <1>2, <1>3, <1>4, <1>5, <1>6, <1>7 DEF Next, Processor

\* The invariant holds at every step of every run, however the devices, the
\* boot and the handlers interleave.
THEOREM Invariance == Spec => []IInv
BY InitIInv, NextIInv, PTL DEF Spec

\* Every register, gate and activation stays in its range.
THEOREM TypeCorrect == Spec => []TypeOK
<1>1. IInv => TypeOK
  <2>. SUFFICES ASSUME IInv PROVE TypeOK
    OBVIOUS
  <2>1. Len(BootOrder) + 1 = 7
    BY DEF BootOrder
  <2>2. \A i \in DOMAIN frames : frames[i] \in Activation
    BY DEF IInv, Typed
  <2>3. kbd.full \in BOOLEAN /\ kbd.out \in Bytes \cup {"key"}
    BY DEF IInv, Typed
  <2>. QED
    BY <2>1, <2>2, <2>3 DEF IInv, Typed, TypeOK, Controllers, Activation
<1>. QED
  BY <1>1, Invariance, PTL

\* Whatever the BIOS left in the masks of the timer's, keyboard's and drive's
\* lines and whenever a line rises, the processor is only sent through a gate
\* that exists, to kernel code, and never into the scheduler, unless the BIOS
\* left open the line of a device that the kernel has no gate for.
THEOREM KernelNeverHalts == Spec => []NeverHalts
BY Invariance, PTL DEF IInv

\* At most one activation of keyboard_interrupt_handler is before its
\* pic_send_eoi, whatever cmd_memtest_v2 does to IF in the middle of it.
THEOREM HandlerIsSerial == Spec => []HandlersSerial
<1>1. IInv => HandlersSerial
  <2>. SUFFICES ASSUME IInv PROVE HandlersSerial
    OBVIOUS
  <2>. DEFINE A == {i \in DOMAIN frames : frames[i].at # "iret"}
  <2>1. A \subseteq {Len(frames)}
    BY DEF IInv, Typed, OneInService
  <2>2. IsFiniteSet({Len(frames)}) /\ Cardinality({Len(frames)}) = 1
    BY FS_Singleton
  <2>3. Cardinality(A) <= 1
    BY <2>1, <2>2, FS_Subset
  <2>. QED
    BY <2>3 DEF HandlersSerial
<1>. QED
  BY <1>1, Invariance, PTL

\* The activations on the boot stack are at most one more than the "memtest 2"
\* commands read.
THEOREM StackIsBounded == Spec => []NestingBounded
<1>1. IInv => NestingBounded
  <2>. SUFFICES ASSUME IInv PROVE NestingBounded
    OBVIOUS
  <2>1. Cardinality(Memtests(got)) \in Nat
    BY MemtestsOfAppend DEF IInv, Typed
  <2>2. Len(frames) <= 1 + Cardinality(Memtests(got))
    BY <2>1 DEF IInv, Typed, NestedByMemtest
  <2>. QED
    BY <2>2 DEF NestingBounded, Memtests
<1>. QED
  BY <1>1, Invariance, PTL

\* keyboard_interrupt_handler reads the bytes the keyboard sent, each once and
\* in order, from before pic_remap to the last nested activation.
THEOREM BytesAreInOrder == Spec => []BytesInOrder
<1>1. IInv => BytesInOrder
  <2>. SUFFICES ASSUME IInv PROVE BytesInOrder
    OBVIOUS
  <2>1. typed \in Seq(Bytes) /\ got \in Seq(Bytes \cup {"key"})
    BY DEF IInv, Typed
  <2>2. Len(got) <= Len(typed) /\ \A i \in 1 .. Len(got) : typed[i] = got[i]
    <3>1. "key" \in Bytes \cup {"key"}
      OBVIOUS
    <3>. QED
      BY <3>1, PlacedNow, PlacedMoves DEF Placed
  <2>3. got = SubSeq(typed, 1, Len(got))
    BY <2>1, <2>2
  <2>. QED
    BY <2>2, <2>3 DEF BytesInOrder
<1>. QED
  BY <1>1, Invariance, PTL
=============================================================================
