------------------------------- MODULE Paging -------------------------------
(***************************************************************************)
(* Physical memory and the page tables that live in it: map_page of        *)
(* src/lib/pmm.c, large_unmap_page of src/lib/heap_domain.c, the kernel    *)
(* directory of src/lib/paging_manager.c, and the MMU that walks them.     *)
(*                                                                         *)
(* A machine is a record [bitmap, ram, tlb]: the frames in use, the words  *)
(* of every frame, and the old translations the processor may still hold.  *)
(* Page directories, page tables, free lists and user data are all words   *)
(* of ram, so a frame used for two purposes shows as what it would do to   *)
(* the real machine.  used_frames, which no code reads, is left to module  *)
(* PMM.                                                                    *)
(*                                                                         *)
(* The unit of address and size is the 4-byte word.  An address is an      *)
(* integer below AddressLimit; its page is addr \div PageWords.  An entry  *)
(* of a directory or table is frame * PageWords + flags.  The direct map   *)
(* at 0xC0000000 is access to ram by frame number, which is what it is for *)
(* the frames below 1 GB that it covers.                                   *)
(***************************************************************************)
EXTENDS FrameBitmap

CONSTANTS
    PageWords,     \* words of a page (1024)
    TableEntries,  \* entries of a table that are used (1024)
    KernelEntry,   \* first directory entry of the kernel half (768)
    KernelDir,     \* frame of _kernel_page_dir
    KernelTable,   \* frame of _kernel_page_table
    KernelHalf     \* frame of _kernel_page_tables_base

ASSUME PagingAssumption ==
    /\ PageWords \in Nat /\ PageWords >= 4 /\ PageWords % 2 = 0
    /\ TableEntries \in 1 .. PageWords
    /\ KernelEntry \in 1 .. PageWords - 1
    /\ {KernelDir, KernelTable, KernelHalf} \subseteq Image \ {0}
    /\ Cardinality({KernelDir, KernelTable, KernelHalf}) = 3

Offset == 0 .. PageWords - 1
PAGE_KERNEL == 3                      \* present and writable

\* Addresses and sizes are uint32_t: 2^32 bytes are PageWords directory
\* entries of TableEntries pages.
AddressLimit == PageWords * TableEntries * PageWords
Word == 0 .. AddressLimit - 1

PageOf(virt) == virt \div PageWords

\* tlb: for some pages, the frame an entry named before it was changed.
NoneCached == [page \in {} |-> NoFrame]
IsMachine(mem) ==
    /\ mem.bitmap \subseteq Frame
    /\ mem.ram \in [Frame -> [Offset -> Nat]]
    /\ mem.tlb \in [DOMAIN mem.tlb -> Frame]

Present(entry)       == entry % 2 = 1
FrameOf(entry)       == entry \div PageWords
Entry(frame, flags)  == frame * PageWords + flags
DirIndex(virt)       == virt \div (PageWords * TableEntries)
TableIndex(virt)     == (virt \div PageWords) % TableEntries
\* Memory after init_paging: setup_entries cleared the kernel's directory and
\* table, map_kernel_memory filled in the kernel half.  Its 256 tables are part
\* of the image, never change and are one frame here, KernelHalf.
KernelMemory(reset) ==
    [f \in Frame |->
        [i \in Offset |->
            IF f \notin Image THEN reset
            ELSE IF f = KernelDir /\ i >= KernelEntry
                 THEN Entry(KernelHalf, PAGE_KERNEL)
                 ELSE 0]]
-----------------------------------------------------------------------------
(* The MMU. *)

\* The table entry a walk of the directory in frame dir finds for an address:
\* 0 when the directory has no table there.
PageEntry(ram, dir, virt) ==
    LET pde == ram[dir][DirIndex(virt)]
    IN  IF Present(pde) /\ FrameOf(pde) \in Frame
        THEN ram[FrameOf(pde)][TableIndex(virt)]
        ELSE 0

MappedIn(ram, dir, virt) ==
    LET pte == PageEntry(ram, dir, virt)
    IN  Present(pte) /\ FrameOf(pte) \in Frame

\* CR3 holds the kernel's directory at all times, and the TLB its entries only.
Mapped(mem, virt) ==
    PageOf(virt) \in DOMAIN mem.tlb \/ MappedIn(mem.ram, KernelDir, virt)

\* The physical word behind an address; meaningful when Mapped.  A translation
\* that is still cached goes before the tables.
Translate(mem, virt) ==
    <<IF PageOf(virt) \in DOMAIN mem.tlb THEN mem.tlb[PageOf(virt)]
      ELSE IF MappedIn(mem.ram, KernelDir, virt)
      THEN FrameOf(PageEntry(mem.ram, KernelDir, virt)) ELSE 0,
      virt % PageWords>>

Read(mem, virt) ==
    LET at == Translate(mem, virt) IN mem.ram[at[1]][at[2]]

Write(mem, virt, value) ==
    LET at == Translate(mem, virt)
    IN  [mem EXCEPT !.ram[at[1]][at[2]] = value]

\* The TLB when the kernel's entry for an address is about to change: the
\* processor may have cached the present translation, used or not.
Outdated(mem, virt) ==
    IF MappedIn(mem.ram, KernelDir, virt)
    THEN [page \in DOMAIN mem.tlb \cup {PageOf(virt)} |->
             IF page \in DOMAIN mem.tlb THEN mem.tlb[page]
             ELSE FrameOf(PageEntry(mem.ram, KernelDir, virt))]
    ELSE mem.tlb

Invlpg(mem, virt) ==
    [mem EXCEPT !.tlb = [page \in DOMAIN @ \ {PageOf(virt)} |-> @[page]]]
-----------------------------------------------------------------------------
(* map_page and large_unmap_page. *)

\* A search that found nothing marks nothing.
Mark(bitmap, f) == IF f = NoFrame THEN bitmap ELSE SetFrame(bitmap, f)

\* map_page.  The answer of get_next_free_kernel_frame is not looked at, so
\* with no frame left the new "table" is physical frame 0; and a new table
\* keeps the words the frame held before.
MapPage(mem, dir, virt, phys) ==
    LET pde    == mem.ram[dir][DirIndex(virt)]
        exists == Present(pde)
        static == dir = KernelDir /\ DirIndex(virt) = 0
        table  == IF exists THEN FrameOf(pde)
                  ELSE IF static THEN KernelTable
                  ELSE NextKernelFrame(mem.bitmap)
    IN  [bitmap |-> IF exists \/ static THEN mem.bitmap
                    ELSE Mark(mem.bitmap, table),
         ram |-> [mem.ram EXCEPT
                    ![dir][DirIndex(virt)] =
                        IF exists THEN @ ELSE Entry(table, PAGE_KERNEL),
                    ![table][TableIndex(virt)] = Entry(phys, PAGE_KERNEL)],
         tlb |-> IF dir = KernelDir THEN Outdated(mem, virt) ELSE mem.tlb]

\* Clear the entry for virt in one directory, when it has a table for it.
ClearEntry(ram, dir, virt) ==
    LET pde == ram[dir][DirIndex(virt)]
    IN  IF Present(pde)
        THEN [ram EXCEPT ![FrameOf(pde)][TableIndex(virt)] = 0]
        ELSE ram

\* Mutant: the frame behind the page is not given back.
UnmapPageKeepsFrame(mem, dir, virt) ==
    Invlpg([mem EXCEPT
               !.ram = ClearEntry(ClearEntry(@, dir, virt), KernelDir, virt),
               !.tlb = Outdated(mem, virt)], virt)

\* large_unmap_page(virt, 1): the frame that is freed is the one the kernel's
\* entry names after the domain's entry has been cleared.
UnmapPage(mem, dir, virt) ==
    LET ram1 == ClearEntry(mem.ram, dir, virt)
        pde  == ram1[KernelDir][DirIndex(virt)]
    IN  Invlpg([bitmap |-> IF Present(pde)
                    THEN ClearFrame(mem.bitmap,
                             FrameOf(ram1[FrameOf(pde)][TableIndex(virt)]))
                    ELSE mem.bitmap,
                ram |-> ClearEntry(ram1, KernelDir, virt),
                tlb |-> Outdated(mem, virt)], virt)

\* The directory init_heap_domain, init_large_domain and
\* create_process_page_directory build in a frame: zero, then the kernel half.
NewDirectory(mem, f) ==
    [mem EXCEPT !.bitmap = Mark(@, f),
                !.ram[f] = [i \in Offset |-> IF i < KernelEntry THEN 0
                                             ELSE mem.ram[KernelDir][i]]]
=============================================================================
