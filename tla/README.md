# RaxzusOS and the Raxzus Flow heap in TLA+

RaxzusOS is a 32-bit, single-core x86 kernel whose point is its heap, "Raxzus
Flow": one page directory per size class, every page mapped both there and in
the kernel's directory, free lists inside the free blocks, and `kfree` finding
the size class from the address alone. This project models the memory side of
the kernel (frames, page tables, heap and the commands that use it), its
interrupts, its console and its disk driver, checks small instances with TLC, and
proves with TLAPS, for every size of memory, every choice of size classes, every
screen and every line, the safety properties of the frame manager, the heap, the
interrupts, the disk driver, the console and the command lines.

Paths and lines below are relative to the repository (`src/`).

## 1. Inventory

| Component | State | Operations | Talks to | What is hard |
|---|---|---|---|---|
| Physical memory manager, `lib/pmm.c` | `bitmap[32768]`, `used_frames` | `init_pmm`, `get_next_free_kernel_frame`, `get_next_free_process_frame`, `set_frame`, `clear_frame` | called by paging, heap, process creation | two searches with different starts over one bitmap; `int` arithmetic on addresses; 0 is both "no frame" and a frame |
| Paging, `lib/paging_manager.c`, `map_page` in `lib/pmm.c` | kernel directory and tables, CR3, TLB | `init_paging`, `map_page`, `large_unmap_page`, `create_process_page_directory` | frames from the manager; the MMU reads what it writes | tables are taken from the same frames as data and are not cleared; the frame for a table may be missing |
| Domain heap, `lib/heap_domain.c` | per class: directory, free-list head, address cursor; the links inside free blocks; large domain: directory, cursor, list of freed slots inside their first pages | `init_all_heaps`, `kmalloc`, `kfree` and below them `heap_domain_alloc`, `heap_domain_free`, `kmalloc_large`, `kfree_large` | manager and paging below; shell, process manager, memory tests above | data structures inside the memory they manage; double mapping; running out in the middle of a call; regions and sizes at their limit |
| Console, `lib/vga.c`, `lib/keyboard.c`, `lib/keymap.c`, `lib/raxzus_shell.c`, `lib/kutils.c` | cursor, text cells, `command_buffer`, `buffer_pos`, shift flags | keyboard interrupt; `print_char`, `kprintf`, `backspace`, `clearScreen`; `process_input` | the interrupt handler runs the shell, which prints on the same screen | one cursor shared by echo, output and editing; edges of the screen; a key during the boot prompt |
| Interrupts, `lib/pic.c`, `lib/gdt.c`, `lib/interrupts.c`, `lib/exceptions.c`, `interrupt_stubs.s` | masks, requests and in-service bits of two 8259s, GDT, IDT, CS, IF | `pic_remap`, `pic_enable_irq`, `pic_disable_irq`, `pic_send_eoi`, `init_gdt`, `init_interrupts`, the keyboard stub | devices raise lines at any time; the keyboard handler runs the shell | what the BIOS left; the order of set-up; lines without a gate; `sti` inside a handler; edges that are missed |
| Shell commands and memory tests, `lib/raxzus_shell.c`, `lib/memtest.c` | pointers to heap blocks | `process_input`, `cmd_memtest_v1`, `cmd_memtest_v2` | call the heap from the keyboard handler | long sessions; early returns that keep memory; verdicts that depend on what ran before |
| Process manager, `lib/process_manager.c`, `interrupt_stubs.s` | process list, `current_process`, `next_process`, sleep times | `create_process`, `schedule`, the timer interrupt | heap, paging, TSS | not started (`kernel.c:115`) |
| ATA driver, `lib/ata_disk_driver.c` | the drive's registers | `ata_read_sector`, `ata_write_sector` | shell commands `diskR`, `diskW` | polling without a limit against a drive with its own pace; commands the drive ignores while busy; errors that are not read; sector count 0 |
| RTC, port I/O, system calls, boot | | | | pure I/O, not started, or the initial states of the above |

What makes the parts correct:

* manager: a frame has at most one owner, the bitmap says exactly which frames
  are owned, the image is never given away, a free frame is found when there is
  one;
* paging and heap: both directories agree, every frame has one use, a pointer
  keeps its memory and its contents until it is freed, free lists hold exactly
  the free blocks, large ranges never overlap, calls return, the kernel never
  faults on its own structures;
* interrupts: no interrupt goes to a missing gate or into the scheduler, one
  activation of the keyboard handler works at a time, bytes are served in order
  and all of them;
* commands: the memory tests judge a working heap as working and give back what
  they took;
* console: what the user sees is what the shell gets, and a command acts on the
  words and numbers that were typed;
* disk: the sectors asked for and no others, the drive ready for the next call,
  calls return, data on the medium when a write says so.

The hazards behind these are listed with their lines in `PROJECT.json`.

## 2. Modules

`FrameBitmap` gives the operations of `pmm.c` as operators on a bitmap, which is
the set of frames whose bit is 1. Both searches, the stop on physical address 0
and the reach of the `int` helpers (`AddressableFrames`) are here, once, for
everybody. The helpers turn an address of 2 GB or more into a negative index, so
the frame's own bit is untouched; what the stray write hits is not modelled.

`PMM` is the manager with any callers. `grants` is a ghost: the hand-outs of a
frame that were not given back. Callers give back only what they hold.

`Paging` is physical memory as words per frame, with page directories and tables
among them, the MMU's walk, `map_page`, `large_unmap_page` and new directories. The
unit of address is the 4-byte word, an entry is `frame * PageWords + flags`, and
addresses wrap at `AddressLimit`, the 2^32 of the instance. Because tables, links
and user data are words of the same memory, a frame with two uses does in the
model what it does in the machine. The TLB holds, for a page whose entry in the
kernel's directory was changed, the translation from before, until `invlpg`; it goes
before the tables in every access. That is the worst case: the processor may have
dropped it earlier.

`HeapDomains` is `heap_domain.c` over `Paging`. Calls on a size class are one
action; the page loops of boot, `kmalloc_large` and `kfree_large` are one action per
page, with the locals in `op`. After a call returns memory its caller fills all of
it (`user_fill`); callers free what they hold, once, which is what the `kfree` macro
is for. A page fault and a `while(1)` are the final states `fault` and `hung`.
`kfree(NULL)` and `kmalloc_large(0)` do nothing and have no action.

`LifoHeap` is what the size classes promise: per class a stack of free blocks and
a set of held ones. `HeapRefinesLifo` reads the stack out of memory by following the
links through the kernel's tables and states that `HeapDomains` implements
`LifoHeap`.

`HeapClients` composes the heap with its callers in the running kernel. A shell
command is the sequence of its `kmalloc` and `kfree` calls and of the verdicts it
prints: `argv` in every command, the buffer of `diskR`, and the two memory tests. The
user types any commands in any order. What the code does with a NULL is part of
each allocation: `memtest 1`, `tokinize_words` and `diskR` write through it (a page
fault), `memtest 2` reports it or never looks. The heap's own steps are those of
`HeapDomains`.

`Interrupts` runs from the first call of `kernel_main` to the idle loop: `pic.c` on two
8259 controllers (external: masks, priorities, cascade, edge detection), the GDT
and the IDT that a delivered interrupt goes through, the keyboard stub and handler
in four steps (read the port, work, end of interrupt, `iret`), and the timer, the
keyboard controller, the drive and devices the kernel has no code for (`Stray`), which
raise their lines at any time. What a key does is known by what the command it ends
does to interrupts: nothing, `cli` and `sti` (`memtest 2`), or a command to the drive. A
disk command may stay in one of the driver's waits for ever (`polling`): they have no
limit and do not look at ERR. `HandlersSerial` is what the other
modules rest on when they take a key, or a call of the heap, for one step.

`Console` is the screen, the keyboard handler and the output of the shell. A key
is one step. `kernel_main` prints its prompt after `sti`; there `print_char` is cut into
eight pieces, with keys in between: the test of the row, each row of the scroll, the
cursor after it, the position, the cell, the read and the write of `cursor_col++`, and the
end of the row. The two accesses of `cursor_row` and `cursor_col` in the third, the fourth
and the last piece are not separated.
Commands are known by what they leave on the screen: each line may be any command.
The handler's paths for key releases and for keys without a character change
nothing and have no action.

`CommandLine` follows one line from the keyboard buffer to the call it becomes:
`tokinize_words` cutting the words out in place, one character a step, `is_valid_number`
and `string_to_int` in `int` arithmetic, the checks of `diskW` and `diskR`, and
`int_to_string` for the message. Its properties compare these with reference
definitions of words and numerals. Commands other than the two have no numbers and
are one case.

`Disk` is `ata_disk_driver.c` and the disk commands against a drive that is
external: BSY and DRQ, a count of sectors left, a write cache, errors, and commands
ignored while BSY or DRQ is set, as the ATA protocol has it. Each action of the
driver is the end of one polling loop with the port accesses after it; the drive's
steps come in between at any time. A sector is one value moved as a whole. `diskR`
checks its two numbers and then reads 10 sectors at LBA 49, whatever they are; so
does the model (`ReadLba`, `ReadCount`). `diskW`'s caller buffer is known as "part `i` of
what the caller passed".

`MCPMM`, `MCHeap`, `MCHeapClients`, `MCInterrupts`, `MCConsole`, `MCCommandLine` and
`MCDisk` give the sequences and sets for the `.cfg` files.
Operators marked "Mutant" are deliberately wrong versions of the definition after
them; no specification uses them, they are kept to test the properties.

### Correspondence

| Model | Code |
|---|---|
| `bitmap`, `m.bitmap` | `bitmap[]` |
| `m.ram[KernelDir]`, `KernelTable`, `KernelHalf` | `_kernel_page_dir`, `_kernel_page_table`, `_kernel_page_tables_base` (256 tables, one constant frame here) |
| `dir[h]`, `cursor[h]`, `head[d]` | `page_directory`, `next_virt_addr`, `next_free_block` |
| `head[Large]` | `large_domain.next_free_virt` |
| `m.tlb` | translations the processor may still hold |
| `op` | the call in progress: loop counter, page count, start address |
| `live`, `lost`, `grants`, `answer` | ghosts: what callers hold, pages a failed call left mapped, outstanding frames, the last answer |
| `program`, `held` | the place in the running command, its pointer variables |
| `pic.imr`, `.irr`, `.isr`, `gdt`, `idt`, `cs`, `iflag` | registers of the 8259s, `gdt[]`, `idt[]`, CS, IF |
| `frames` | activations of handlers on the stack |
| `kbd`, `typed`, `got` | the keyboard controller's output buffer and what is behind it; ghosts: bytes sent, bytes read |
| `main` | the place in the `print_char` of `kernel_main`'s prompt and its locals |
| `screen.row`, `.col`, `.cells` | `cursor_row`, `cursor_col`, `video_memory` without colours |
| `line` | `command_buffer[0 .. buffer_pos - 1]` |
| `Disk`: `pc`, `req`, `s`, `buffer` | place in `ata_read_sector` or `ata_write_sector`, its arguments, `s`, `buffer` |
| `CommandLine`: `input`, `sim_input`, `argv` | `command_buffer`, `sim_input` and `argv` as positions in it |
| `regs` | ports 0x1F2 to 0x1F6 |
| `before`, `failed` | ghosts: the disk at the start of the call, ERR (never read by the code) |

## 3. Runs

| Run | Checks | Instance |
|---|---|---|
| `pmm` | `TypeOK`, `BitmapExact`, `SingleOwner`, `ImageNeverGranted`, `NeverHangs`, `NoneMeansFull` | 9 frames, bitmap words of 2 bits, an image of one and a half words |
| `heap_classes` | `TypeOK`, `NeverStops`, `FreeListExact`, `UserDataIntact`, `FramesPartitioned`, `RouteMatchesClass` | two classes (two blocks and one block to a page), large requests, 19 frames |
| `heap_large` | `UserDataIntact`, `LargeRangesDisjoint`, `PointersStable`, `CallsReturn` | large requests of two and three pages next to one class |
| `heap_lifo` | `LifoPromise` | two classes, up to four blocks held, a large request |
| `console` | `TypeOK`, `LineShown`, `NothingBehind`, `LeftEndKept` | 3 x 4 screen, prompt of 2, buffer of 3, up to two keys during the boot prompt |
| `clients` | `NoFalseAlarm`, `OnlyKnownLeaks`, `FreeListExact` | every session of five commands, 52 frames |
| `interrupts` | `TypeOK`, `NeverHalts`, `HandlersSerial`, `NestingBounded`, `BytesInOrder`, `BytesServed` | timer, keyboard, drive and two devices without a gate, any BIOS masks, three bytes |
| `command_line` | `TypeOK`, `ArgvExact`, `WriteAsTyped`, `MessageTrue`, `LineAnswered` | every line of up to 7 characters |
| `disk` | `TypeOK`, `ReadExact`, `WriteExact`, `DriveAtRest`, `CallEnds` | registers of 2 values, overlapping reads and writes of one and two sectors |

The bounds. A 2-bit bitmap word makes the word loop and the bit loop both count.
Tables of two or four entries make a domain need a second table, and a directory
frame, a table frame and a data frame compete for the last frames. `MaxLive` and
`MaxLargePages` bound what callers hold and the large cursor; 19 frames run out
within these bounds, so a call that fails half way is in the state space.
`ResetWord` is odd, so that every word of an uncleared table is a present entry.
In these runs the bitmap ends within the reach of the `int` helpers
(`NumFrames = AddressableFrames`). In the code the bitmap always covers 4 GB, and
frames from 2 GB on are handed out for ever: the answer "no frame" is then not
reached at all, which is the finding of `pmm_high`.

The heap's invariants are stated under `TablesBacked`: `map_page` was not asked for
a table when no frame was left. It does not look at that answer and would use
frame 0; nothing is claimed of the kernel after that. `heap_classes`, `heap_large` and
`clients` switch the deadlock check off for the same reason, and because within the
bounds callers may have nothing left to ask for and a session ends.

In `clients` the sizes keep the order they have in the code, which decides which
freed slot fits what: `tbuf8` < `buf64k` < a table of `memtest 1` < `buf1m` = `tbig`, and a
`diskR` buffer that is shorter than all of them or just fits a table. `argv` and the
256-byte blocks of `memtest 1` share a class, as in the code. 52 frames are enough
for any one test and run out in sessions that leak, so both tests also meet NULL.
What it shows about `memtest 2`: its verdict "Region addresses overlap!" compares two
addresses, and is right only because of the order of its five `kfree` calls. `tbuf8` is
freed between `tbig` and `buf64k`, so a slot long enough for `buf1m` never lies directly
under the one `buf64k` takes. With `tbig` freed after `tbuf8`, three times `memtest 2`, a
`diskR` and a fourth `memtest 2` report a failure of a heap that works; this is the
shortest such session, hence five commands. `diskR` with fewer than 10
sectors reads past its buffer, and is left out.

The flush after a mapping (`heap_domain.c:79`, `136`, `271`) is what `UserDataIntact` needs;
the one in `large_unmap_page` (line 303) is redundant for callers, since an unmapped
page is flushed again before anyone gets it.

In `interrupts` the BIOS may have left any of the devices' lines and the cascade
masked or not, and CS may be a selector that is not the kernel's. Besides lines 0, 1
and 14 there is one device on each controller that the kernel has no gate for.
`pic_remap` writes the BIOS's masks back and `kernel_main` masks 0 and 14 only: a line
that was open stays open, and its first interrupt ends in the general protection
handler. `NeverHalts` is therefore about masks that keep those lines out
(`StraysMasked`: masked themselves, or behind a masked cascade); spurious interrupts on
lines 7 and 15, which no mask stops, are not modelled. Three bytes, each
a plain key, a `memtest 2` or a disk command, let one activation of the handler be
interrupted before its `iret` by the next. What it shows: `pic_disable_irq(46)` in
`kernel.c:81` names a vector, not a line, and masks the drive's line only because the
processor takes a shift count modulo 32 (`LineBit`; with the bit shifted out
`NeverHalts` fails); `sti` in the handler lets activations pile up on the stack but
never overlap in their work, because the end of interrupt comes last. A byte in the
keyboard's output buffer when `pic_remap` runs makes the keyboard deaf: the edge is
forgotten and the port never read. `BytesServed` excepts that case, and two more: a
disk command whose drive reports an error or is missing polls inside the handler and
before its end of interrupt, so no later byte is served (`Polling`); and a halted
processor, which is what `NeverHalts` is about. A command that stores through the NULL of
a failed `kmalloc` stops the kernel as well; that is `got_null` of `HeapClients`, and this
module has the commands return.

The console run has lines that wrap, a screen that is full at boot and commands
that end with a newline. Two things damage the screen, and `clean`, `fresh` and
`raced` say when: a key during the boot prompt, and Backspace at the left edge of a
wrapped line (`vga.c:316`), which erases nothing and puts the cursor behind the last
column while the letter leaves the buffer. `LineShown` says that the next Enter ends
the damage. Commands that end without a newline are left out. There are two: `mem`,
which prints nothing, and a `diskR` that read its sectors, which prints their printable
characters (`raxzus_shell.c:118`). After either, the next prompt does not end at the
column `vga.c:321` compares with, `LeftEndKept` and `LineShown` fail, and backspace erases
the prompt.

`command_line` takes every line of up to seven characters over an alphabet with a
space, a quote, two digits and a character on either side of the digits. An `int` of
three bits wraps within these lines.

The disk run has LBA registers of two values, so that every register matters for
an address, and transfers of one and two sectors, so that the loops have a first
and a last round. A sector count of 0 passes the shell's check and is left out:
the drive takes it for 256, the loops for none, and `WriteExact` and `DriveAtRest`
both fail on it. The deadlock check is off because the driver polls for ever after
a drive error; `CallEnds` says that this is the only such case.

Fairness: `WF_vars(Step)` in `HeapDomains`, that a started call runs on. Interrupts
are off in a handler, or on but blocked by the controller, and nothing else in the
kernel preempts; a caller that never calls again is allowed. In `Interrupts` the
processor executes (`WF` of `kernel_main` and the handler), takes a request that stays
pending (`WF` of `deliver`), and the keyboard controller fills its empty buffer; nobody
has to type, and no device need raise its line. Fairness of the handler does not mean
that a disk command returns: `keyboard_work` may lead to `polling`, which no step leaves. `WF_vars(Next)` in `CommandLine` and `WF_vars(Driver)` in `Disk`
rest on the same reason. `WF_vars(Drive)` in `Disk` is about the hardware: a drive ends
every BSY, with data or with an error.

### What the code does differently from what it says

| Run | Property violated | Where |
|---|---|---|
| `pmm_high` | `SingleOwner` | `lib/pmm.c:193`: the bit of a frame at or above 2 GB is never set |
| `heap_stale` | `DomainIsolated` | `lib/pmm.c:170`: a new page table is not cleared |
| `disk_flush` | `WriteDurable` | `lib/ata_disk_driver.c:84`: the flush command may come while the drive is busy |

Each one contradicts a sentence of the README, a comment or a message, quoted in
`PROJECT.json`. `heap_stale` breaks isolation, not correctness: in `heap_classes` with
the same uncleared tables no caller loses data and no two pages share a frame.
Two further disagreements have no run of their own: backspace at column 0 (above),
and a domain that grows past its 256 MB region (`heap_domain.c:158`), whose blocks
`kfree` gives to the next domain; with a region of two pages `RouteMatchesClass` fails.

## 4. Proofs

A theorem holds for every value of the constants that satisfies the named
assumptions of its modules (`PagingAssumption`, `HeapAssumption` and so on, which TLC
evaluates on every run). Each component has one inductive invariant, one lemma per action that
it is kept, and the theorems follow from it by temporal logic.

| Module | Theorems | For every |
|---|---|---|
| `PMM_proofs` | all six properties of the `pmm` run | memory, image and bitmap word size |
| `Interrupts_proofs` | `TypeOK`, `NeverHalts`, `HandlersSerial`, `NestingBounded`, `BytesInOrder` | state the BIOS left, devices, number and kind of bytes typed |
| `Disk_proofs` | `TypeOK`; `ReadExact`, `WriteExact`, `DriveAtRest` for counts other than 0 | disk size, register width, requests |
| `CommandLine_proofs` | `TypeOK`, `ArgvExact`, `WriteAsTyped`, `MessageTrue` | line length, alphabet, number base, `int` width, limits of the drive |
| `Console_proofs` | `TypeOK`, `LineShown`, `NothingBehind`, `LeftEndKept` | screen size, prompt, buffer size, outputs of commands that end with a newline |
| `HeapDomains_proofs` | `TypeOK`, `NeverStops`, `FreeListExact`, `UserDataIntact`, `FramesPartitioned`, `RouteMatchesClass`, `LargeRangesDisjoint`, `PointersStable` | size classes, page, table, region and memory size, number of callers |
| `HeapClients_proofs` | `LifoPromise`; `OnlyKnownLeaks`, `NoFalseAlarm` | the same, and number of blocks, sizes and commands |

`NumberFacts` (least elements, quotients, functions that change step by step) holds the
lemmas they share. `HeapDomains_proofs` begins with those of `Paging`: what `map_page`,
`large_unmap_page`, a new directory and a store do to the translation of every other
address. What the two searches of the bitmap return is proved where it is used, there
and in `PMM_proofs`.

**Frames.** `IInv` of `PMM_proofs`: types, `BitmapExact`, at most one grant of each
addressable frame, no grant of an image frame, not hung. Single ownership alone
is not inductive: it needs the bitmap to contain every held frame. Not hanging
needs the image to be in the bitmap, so that word 0 is full, which needs that no
image frame is ever given back, which needs that none is held.
`NoFrameSharedBelow2GB` supposes that the bitmap ends at or below 2 GB; `pmm_high`
is the counterexample without it.

**Interrupts.** `HandlersSerial` needs `OneInService` (an activation before its end of
interrupt is the innermost one and line 1 is in service, so the controller holds it
back) and `LinesInUse` (no other line is ever in service, so a non-specific end of
interrupt ends line 1). `NeverHalts` needs `BootDone`: what each call of `kernel_main`
has left behind, in their order, before `sti`. Where a stray line is open the processor
may halt, and the invariant holds up to there (`StrayIInv`). `BytesInOrder` needs the whole path of a byte
(`BytesPlaced`: read, in the output buffer, behind it) and `RequestMeansByte` (a
request stands for a byte nobody has read). `NestingBounded` counts the `memtest 2`
commands among the bytes read (`NestedByMemtest`).

**Disk.** `LoopAgrees` ties the driver's loop counter to the drive's own count of
sectors left, `Transferred` says what the call has moved so far, `AtRest` that nothing
is pending between calls. `RegistersAddress` shows that the shifts and masks put the
address asked for into the registers. With a count of 0 the drive transfers 256
sectors and the driver none: the types still hold (`TypeCorrect`), the others do not,
and are proved under `NonzeroCounts`. The shell's check lets 0 pass (section 5).

**Command lines.** The in-string flag is the parity of the quotes passed
(`ParityKnown`), the buffer is the line with a NUL for each separator passed
(`CutSoFar`), and `argv` holds the starts behind them in order (`StartsSoFar`). At the
end of the scan these determine the words, which is `ArgvExact`.
For the numbers, `string_to_int` and the reference `Value` are compared through the
values of all prefixes of a numeral (`Values`): these grow, so when the last one fits
in an `int` no multiplication on the way has wrapped (`ParsedExactly`), and the checks
of `diskW` see the number typed. `int_to_string` collects digits from the least one up and
turns them round; `DigitsTo` gives the digits below a bound as a function that
satisfies its equation, and the numeral shown has the value it was made from and no
leading zero (`DigitsShown`). `Answered` says that a finished line got the reply that its
words determine (`Reply`), which together with `ArgvExact` gives `WriteAsTyped`.

**Console.** `IInv` of `Console_proofs` has four parts: `Typed`; `Ghosts` (what `clean`,
`fresh` and `raced` record); `BootPrompt` (how much of the first prompt is printed while
keys already come in) and `Running` (where the prompt starts, that it and the line
typed so far stand before the cursor, and that nothing stands behind it). `kprintf` is
the repetition of `print_char`, so its lemmas say what holds after every prefix of the
text: which cells are written, how often the screen has scrolled, where the cursor is.
The hypotheses:

* `OutputsEndLines`: a command ends its output with a newline. `mem` and a successful
  `diskR` do not (section 3);
* `LineFits`, for `LineShown`: prompt and full line fit on the screen, as 11 + 256 of 2000
  cells do;
* `[]NearScreen`, for `LineShown`: the cursor is at most one row above the screen. It
  holds while `clean`. After a race at boot or a Backspace at the left edge of a wrapped
  line, typing and erasing can make the cursor climb row by row, and a prompt printed above
  the screen is not seen; `MCConsole`'s bounds are within the hypothesis.

**Heap.** `Inv` of `HeapDomains_proofs` speaks of memory through ghosts bound by an
existential (`IInv`): the members of each free list as a stack (`stk`, `dep`), the
length of each freed slot (`len`), and for each page of the large domain what it is
used for and by whom (`use`, `from`). Its parts, and why they are needed:

* `Sound`: every frame in use is the image, one directory, one table
  of one directory entry, or one page of one heap that the heap's and the
  kernel's directory both map to it, and the TLB holds nothing stale. Without it no
  store could be said to leave other words alone, because links, tables and user
  data share one memory;
* `Lists`: following the links from `head` gives the stack, without repetition;
  `BlocksSplit`: a block is on its list or held by one caller;
* `Uses`, `SlotUses`, `CallUses`: every page of the large region belongs to one held
  range, one slot, the call in progress or the pages a failed call left; headers
  and slot lengths in memory say the same;
* `DataKept`, `Cursors`, `BootOrder`, `Typed`: what callers wrote; cursors are page
  aligned and within their regions; heaps are set up in order before anything is
  allocated; types.

`FreeListExact` and `LargeRangesDisjoint` are stated with a walk of the list
(`Chain`). `ChainWalks` gives the walk in closed form, and a list is no longer than the finite
set its members come from (`ListBound`, `SlotBound`). `PointersStable` is an action
property: `StepStays` shows for each action that pages held before and after keep
their frames.

`FramesPartitioned` counts: the uses `Sound` gives to frames are one-to-one, so the
number of frames in use is the sum of the four kinds. It needs
`TableEntries <= RegionPages` (1024 and 65536 in the code): no heap address then falls
into the span of entry 0 of the kernel's directory, so that the image's own table is
not counted twice. `StacksAsPromised` is the refinement of `LifoHeap`: with the stack of
the abstract heap read off the walk of the list (`Stack` in `HeapRefinesLifo`), which the
invariant shows to be `stk`, an action on a size class is a push, a pop or a page of new
blocks, and every other action stutters.

The theorems have two hypotheses. `Fits`: `size + PageWords` does not pass 2^32 for
any size asked for, and memory ends at or below 2 GB. `[]Supplied`: `map_page` has
found a frame for every table it needed, boot does not run out of frames, and callers
hold at most as many blocks of a class as its region has room for (`FewHeld`). The code
checks none of these; without them the statements are false (a size near 2^32 rounds
to 0 pages; a table on frame 0 is the hazard at `pmm.c:170`; boot without frames ends
in a `while(1)`; one block too many lies in the next class's region, where
`RouteMatchesClass` fails). Each is an ordinary state of the runs: `heap_classes` starts in
states that satisfy them and exhausts memory during calls, which the theorems cover,
since a data page that finds no frame is not excluded.

That the cursor of a class stays below the next region (`Room`), which the code does
not check either (`heap_domain.c:158`), is proved and not supposed. `heap_domain_alloc` takes
a page only when the list is empty; by the invariant every block cut so far is then
held (`ClassFull`), the blocks are numbered one to one (`CarvedBlocks`), so a class with
`t` pages has `t * BlocksPerPage` callers, and one more that `FewHeld` admits means `t` is
less than `RegionPages` (`RoomForOne`, `GrownSlow`). The cursor never moves back, so this
rests on the whole history: a free list that lost a block would let a class outgrow
its region with few blocks held. `Settled` is the invariant of this argument, kept by the
heap's steps (`RoomKept`) and by the commands (`ClientSettled`). In the code a region has
65536 pages, so room for at least that many blocks, and `memtest 1` holds `FRAG_N` (40000)
of each of five classes.

**Callers of the heap.** A command is data (a sequence of instructions), so the
invariant must speak of what is left of it without knowing which command it is.
`Runs(R, prog, a, z)` says that the instructions of `prog` can be annotated with notes,
from `a` to `z`, such that each instruction and the notes around it are in `R`. For
`OnlyKnownLeaks` a note is the set of variables that may hold memory, and `OwnRule` says
what an instruction does to it: `kmalloc` adds its variable, which was not there, `kfree`
removes it. Each command is shown once to run from no variables to the ones it leaves
behind (`OwnCommand`, from lemmas on sequences of instructions and no induction);
`ClientInv` then says that the rest of the program runs from a note that covers `held`,
that `held` and the blocks left by earlier commands are all of `live`, and how many
those are of each kind (`kept`). A `verify` that stops early must not happen for this, so
`ClientInv` also has that no test ever finds a value changed, by `UserDataIntact`. The
hypotheses are those of the heap and that no disk buffer has the size of `argv`
(200 bytes; a buffer has at least 5120), by which the property tells the two leaks apart.

**The verdicts of the memory tests.** `NoFalseAlarm` has two halves. That no test finds a
value changed is in `ClientInv`. That `buf1m` lies above `buf64k` is not a property of the
heap: the large domain takes the last freed slot whenever it is long enough, so the
address of `buf1m` depends on what every command before left on the list. `SaysInv` adds
the lengths of the freed slots, in their order, and two facts about them. Always
(`Adjacent`): under a slot that is long enough for `buf64k` there is none long enough for
`buf1m`. At the places that matter (`Short`): the last slot is too short for `buf1m`. By the
first, taking `buf64k` or a table establishes the second, and by the second `buf1m` comes
from the cursor, which is behind everything that is held. What could break the first is
the freed slot of `tbig`, which is as long as `buf1m`; memtest 2 frees `tbig` first and then
`tbuf8`, whose slot covers it and is too short for `buf64k`. If `tbuf8` was NULL, `tbig` must
have been NULL as well: then no frame was free, taking a slot gives back at most one,
and `tbig` needs two (`Tight`). So that `tbuf8` comes before `tbig` on the way out, and is
asked for before it, is what the verdict rests on. The places are notes again: `SaysRule`
says which of six (`none`, `calm`, `above`, `spent`, `paired`, `cover`) each instruction
leads to. Besides the hypotheses above the theorem has `Ordered`: the small sizes fit a
class, and in pages `tbuf8 < buf64k <= table < buf1m = tbig`. In the code these are
9, 17, 40 and 257, and the instance of the `clients` run keeps the order. TLC checked
`Adjacent`, and that a waiting caller of an idle heap has no frame left, on that
instance before the proof.

Where a textbook proof would use induction on naturals, these use `MinOfNats` (a
nonempty set of naturals has a least element), and a recursive function is handled
by giving a function that satisfies its equation and showing that it is the only one.

Only model-checked:

* liveness (`CallsReturn`, `CallEnds`, `LineAnswered`, `BytesServed`): outside this
  prover's reach;
* `DomainIsolated`, `WriteDurable` and `SingleOwner` at 2 GB are violated.

## 5. Not modelled

CR0 and CR4; the direct map's limit of 1 GB; `used_frames` outside `PMM` (nothing
reads it); `allocate_page` (no callers); colours, number formatting other than `%d`,
the boot menu; the words of a disk sector and a sector count of 0; a `diskR` buffer of
fewer than 10 sectors; the 65th word of a line; the byte behind a full
`command_buffer`; RTC and port I/O.

Processes and system calls do not run. `kernel_main` has `init_process_scheduler`
commented out (`kernel.c:115`), no process is ever created, IRQ 0 is masked, and the
functions of `forgeproc.c` that execute `int 0x81` have no callers that run. If the timer did fire, `schedule` would read
`current_process->next` through NULL, which is what `Interrupts` makes of it; and with
processes, `schedule` and the timer stub would read PCBs, which come from `kmalloc`,
under a directory that does not map the heap. A model of the scheduler would have
no reachable state of this program to start from.
`PROJECT.json` gives the reason for each component.

## 6. Plan

Done: `FrameBitmap`, `PMM`, `Paging` with the TLB, `HeapDomains`, `LifoHeap` and the
refinement, `HeapClients`, `Interrupts`, `Console` with the boot window, `CommandLine`,
`Disk`; the proofs of section 4.

Left: nothing of the plan. Every safety property that a passing run checks is stated by a
theorem; what remains with TLC is liveness.
