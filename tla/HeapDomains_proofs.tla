------------------------- MODULE HeapDomains_proofs -------------------------
(***************************************************************************)
(* Proofs about the heap, for every set of size classes, page and table    *)
(* size, and any sequence of allocations and frees: first what map_page,   *)
(* large_unmap_page and writes to data pages do to a set of page           *)
(* directories, then the invariant of the heap and what follows from it.   *)
(***************************************************************************)
EXTENDS HeapDomains, NumberFacts, SequenceTheorems, FiniteSetTheorems, TLAPS

-----------------------------------------------------------------------------
(* The searches of the frame bitmap, for every bitmap. *)

\* Only word 0 decides whether the process scan stops, and the image fills it.
LEMMA ImageFillsWordZero ==
    ASSUME NEW bm, Image \subseteq bm
    PROVE  ~ProcessFrameHangs(bm)
BY FrameConstants, ImageAssumption DEF ProcessFrameHangs, Image

\* What get_next_free_kernel_frame returns: a free frame outside the image, or
\* 0 when every frame outside the image is taken.
LEMMA KernelFrameFound ==
    ASSUME NEW bm \in SUBSET Frame, NEW f, f = NextKernelFrame(bm)
    PROVE  \/ f # NoFrame /\ f \in Frame \ (bm \cup Image)
           \/ f = NoFrame /\ Frame \ Image \subseteq bm
<1>. DEFINE S == {g \in Frame : g >= ImageFrames /\ g \notin bm}
<1>1. S \in SUBSET Nat
  BY FrameConstants DEF Frame
<1>2. f = LowestOrNone(S)
  BY DEF NextKernelFrame
<1>3. CASE S = {}
  BY <1>2, <1>3, FrameConstants DEF LowestOrNone, Frame, Image
<1>4. CASE S # {}
  <2>1. f \in S
    BY <1>1, <1>2, <1>4, MinOfNats DEF LowestOrNone
  <2>. QED
    BY <2>1, FrameConstants, ImageAssumption DEF NoFrame, Image, Frame
<1>. QED
  BY <1>3, <1>4

\* What get_next_free_process_frame returns, under a bitmap that has the image.
LEMMA ProcessFrameFound ==
    ASSUME NEW bm \in SUBSET Frame, Image \subseteq bm,
           NEW f, f = NextProcessFrame(bm)
    PROVE  \/ f # NoFrame /\ f \in Frame \ (bm \cup Image)
           \/ f = NoFrame /\ bm = Frame
<1>. DEFINE S == Frame \ bm
<1>1. S \in SUBSET Nat
  BY FrameConstants DEF Frame
<1>2. f = LowestOrNone(S)
  BY DEF NextProcessFrame
<1>3. CASE S = {}
  BY <1>2, <1>3 DEF LowestOrNone
<1>4. CASE S # {}
  <2>1. f \in S
    BY <1>1, <1>2, <1>4, MinOfNats DEF LowestOrNone
  <2>2. 0 \in Image
    BY FrameConstants, ImageAssumption DEF Image
  <2>. QED
    BY <2>1, <2>2 DEF NoFrame
<1>. QED
  BY <1>3, <1>4

\* The bitmap has a bit for every frame of the image.
LEMMA ImageInFrame == Image \subseteq Frame
BY FrameConstants, ImageAssumption DEF Image, Frame

-----------------------------------------------------------------------------
(* Addresses and entries. *)

\* The pages below the kernel half, by number.
LowPages == 0 .. KernelEntry * TableEntries - 1

\* The addresses below the kernel half.
LowAddress == {virt \in Nat : PageOf(virt) \in LowPages}

\* An entry that map_page writes is present and names its frame.
LEMMA EntryNames ==
    ASSUME NEW f \in Nat
    PROVE  /\ Entry(f, PAGE_KERNEL) \in Nat
           /\ Present(Entry(f, PAGE_KERNEL))
           /\ FrameOf(Entry(f, PAGE_KERNEL)) = f
<1>. DEFINE e == Entry(f, PAGE_KERNEL)
<1>1. e = 3 + PageWords * f /\ PageWords \in Nat \ {0} /\ PageWords >= 4
  BY PagingAssumption DEF Entry, PAGE_KERNEL
<1>2. e \in Nat
  BY <1>1
<1>3. e \div PageWords = f
  <2>1. 3 \in 0 .. PageWords - 1
    BY <1>1
  <2>. HIDE DEF e
  <2>. QED
    BY <1>1, <1>2, <2>1, QuotientUnique
<1>4. e % 2 = 1
  <2>1. PICK h \in Nat : PageWords = 2 * h
    BY PagingAssumption
  <2>2. h * f \in Nat /\ PageWords * f = 2 * (h * f)
    BY <2>1
  <2>3. e = 1 + 2 * (1 + h * f) /\ 1 + h * f \in Nat
    BY <1>1, <2>2
  <2>. HIDE DEF e
  <2>. QED
    BY <1>2, <2>3, QuotientUnique
<1>. QED
  BY <1>2, <1>3, <1>4 DEF Present, FrameOf

\* The two indices of an address only depend on its page, and tell pages apart.
LEMMA Indices ==
    ASSUME NEW virt \in LowAddress
    PROVE  /\ PageOf(virt) \in LowPages /\ PageOf(virt) \in Nat
           /\ DirIndex(virt) = PageOf(virt) \div TableEntries
           /\ TableIndex(virt) = PageOf(virt) % TableEntries
           /\ virt % PageWords \in Offset
<1>1. PageWords \in Nat \ {0} /\ TableEntries \in Nat \ {0}
  BY PagingAssumption
<1>2. virt \div (PageWords * TableEntries) = (virt \div PageWords) \div TableEntries
  BY <1>1, DivideTwice DEF LowAddress
<1>3. virt % PageWords \in 0 .. PageWords - 1 /\ virt \div PageWords \in Nat
  BY <1>1, Division DEF LowAddress
<1>. QED
  BY <1>2, <1>3 DEF LowAddress, DirIndex, TableIndex, PageOf, Offset

\* The indices of a page below the kernel half are within the tables.
LEMMA PageSlots ==
    ASSUME NEW p \in LowPages
    PROVE  /\ p \in Nat
           /\ p \div TableEntries \in 0 .. KernelEntry - 1
           /\ p \div TableEntries \in Offset
           /\ p % TableEntries \in Offset
<1>1. TableEntries \in Nat \ {0} /\ KernelEntry \in Nat \ {0} /\ TableEntries <= PageWords
      /\ KernelEntry <= PageWords - 1 /\ PageWords \in Nat
  BY PagingAssumption
<1>2. p \in Nat /\ p < KernelEntry * TableEntries
  BY <1>1 DEF LowPages
<1>. DEFINE d == p \div TableEntries
            r == p % TableEntries
<1>3. d \in Nat /\ r \in 0 .. TableEntries - 1 /\ p = r + TableEntries * d
  BY <1>1, <1>2, Division
<1>. HIDE DEF d, r
<1>4. d < KernelEntry
  <2>. SUFFICES ASSUME d >= KernelEntry PROVE FALSE
    BY <1>1, <1>3
  <2>1. TableEntries * KernelEntry <= TableEntries * d
    BY <1>1, <1>3, ProductMonotone
  <2>2. TableEntries * KernelEntry = KernelEntry * TableEntries
        /\ TableEntries * d \in Int /\ TableEntries * KernelEntry \in Int
    BY <1>1, <1>3
  <2>. QED
    BY <1>1, <1>2, <1>3, <2>1, <2>2
<1>. QED
  BY <1>1, <1>2, <1>3, <1>4 DEF d, r, Offset

\* Two pages with the same indices are one.
LEMMA SlotsDiffer ==
    ASSUME NEW p \in LowPages, NEW q \in LowPages,
           p \div TableEntries = q \div TableEntries,
           p % TableEntries = q % TableEntries
    PROVE  p = q
<1>1. TableEntries \in Nat \ {0}
  BY PagingAssumption
<1>2. p \in Nat /\ q \in Nat
  BY PageSlots
<1>3. /\ p = (p % TableEntries) + TableEntries * (p \div TableEntries)
      /\ q = (q % TableEntries) + TableEntries * (q \div TableEntries)
  BY <1>1, <1>2, Division
<1>. QED
  BY <1>3

-----------------------------------------------------------------------------
(* Directories and their tables. *)

Memory == [Frame -> [Offset -> Nat]]
LowEntries == 0 .. KernelEntry - 1

\* The directory entry and the table entry of a page, by number.
PdeOf(ram, D, p) == ram[D][p \div TableEntries]
PteOf(ram, D, p) == ram[FrameOf(PdeOf(ram, D, p))][p % TableEntries]

\* A frame that some directory names as a page table.
IsTable(ram, Dirs, f) ==
    \E D \in Dirs : \E i \in LowEntries : Present(ram[D][i]) /\ FrameOf(ram[D][i]) = f

\* A set of directories with page tables of their own: every table is a frame
\* in use, no directory, and belongs to one entry of one directory; of the
\* image only KernelTable is one, for the first entry of the kernel's directory.
Tables(bm, ram, Dirs) ==
    /\ bm \in SUBSET Frame /\ Image \subseteq bm
    /\ ram \in Memory
    /\ Dirs \subseteq bm /\ KernelDir \in Dirs
    /\ \A D \in Dirs : D \in Image => D = KernelDir
    /\ \A D \in Dirs : \A i \in LowEntries : Present(ram[D][i]) =>
          /\ FrameOf(ram[D][i]) \in bm \ Dirs
          /\ FrameOf(ram[D][i]) \in Image =>
                D = KernelDir /\ i = 0 /\ FrameOf(ram[D][i]) = KernelTable
    /\ \A D, E \in Dirs : \A i, j \in LowEntries :
          Present(ram[D][i]) /\ Present(ram[E][j])
          /\ FrameOf(ram[D][i]) = FrameOf(ram[E][j]) => D = E /\ i = j

\* What is left of that when map_page has taken frame 0 for a table: the walk
\* of a directory still meets no directory.
Walkable(bm, ram, Dirs) ==
    /\ bm \in SUBSET Frame /\ ram \in Memory
    /\ Dirs \subseteq bm /\ KernelDir \in Dirs
    /\ \A D \in Dirs : D \in Image => D = KernelDir
    /\ \A D \in Dirs : \A i \in LowEntries :
          Present(ram[D][i]) => FrameOf(ram[D][i]) \in Frame \ Dirs

\* Tables of one's own can be walked.
LEMMA TablesWalkable ==
    ASSUME NEW bm, NEW ram, NEW Dirs, Tables(bm, ram, Dirs)
    PROVE  Walkable(bm, ram, Dirs)
BY DEF Tables, Walkable

\* The frame of the table that map_page uses.
TableFor(mem, D, virt) ==
    IF Present(mem.ram[D][DirIndex(virt)]) THEN FrameOf(mem.ram[D][DirIndex(virt)])
    ELSE IF D = KernelDir /\ DirIndex(virt) = 0 THEN KernelTable
    ELSE NextKernelFrame(mem.bitmap)

\* The frames of the image that paging uses are three, and none is frame 0.
LEMMA ImageFrames3 ==
    /\ KernelDir \in Image /\ KernelTable \in Image /\ Image \subseteq Frame
    /\ KernelDir # 0 /\ KernelTable # 0 /\ KernelDir # KernelTable
    /\ 0 \in Image /\ Frame \subseteq Nat
<1>1. KernelDir # KernelTable
  <2>. SUFFICES ASSUME KernelDir = KernelTable PROVE FALSE
    OBVIOUS
  <2>1. {KernelDir, KernelTable, KernelHalf} = {KernelTable, KernelHalf}
    OBVIOUS
  <2>2. Cardinality({KernelTable, KernelHalf}) <= 2
    <3>1. IsFiniteSet({KernelTable}) /\ Cardinality({KernelTable}) = 1
      BY FS_Singleton
    <3>2. Cardinality({KernelTable} \cup {KernelHalf}) \in {1, 2}
      <4>1. CASE KernelHalf \in {KernelTable}
        <5>1. {KernelTable} \cup {KernelHalf} = {KernelTable}
          BY <4>1
        <5>. QED
          BY <3>1, <5>1
      <4>2. CASE KernelHalf \notin {KernelTable}
        BY <3>1, <4>2, FS_AddElement
      <4>. QED
        BY <4>1, <4>2
    <3>3. {KernelTable} \cup {KernelHalf} = {KernelTable, KernelHalf}
      OBVIOUS
    <3>. QED
      BY <3>2, <3>3
  <2>. QED
    BY <2>1, <2>2, PagingAssumption
<1>2. Frame \subseteq Nat /\ 0 \in Image
  BY FrameConstants, ImageAssumption DEF Frame, Image
<1>. QED
  BY <1>1, <1>2, ImageInFrame, PagingAssumption

\* What map_page does to memory, whether it finds a frame for a table or not:
\* one entry of the directory, if it was not there, and one of the table.
MapWrites(ram, ram2, Dirs, D, p, t, phys) ==
    /\ t \in Frame \ Dirs
    /\ ram2 \in Memory
    /\ \A i \in Offset : ram2[D][i] =
          IF i = p \div TableEntries /\ ~Present(PdeOf(ram, D, p))
          THEN Entry(t, PAGE_KERNEL) ELSE ram[D][i]
    /\ \A i \in Offset : ram2[t][i] =
          IF i = p % TableEntries THEN Entry(phys, PAGE_KERNEL) ELSE ram[t][i]
    /\ \A f \in Frame : f # D /\ f # t => ram2[f] = ram[f]

\* map_page writes no more than that.
LEMMA MapPageWrites ==
    ASSUME NEW mem, NEW Dirs, Walkable(mem.bitmap, mem.ram, Dirs),
           NEW D \in Dirs, NEW virt \in LowAddress, NEW phys \in Nat
    PROVE  MapWrites(mem.ram, MapPage(mem, D, virt, phys).ram, Dirs, D,
                     PageOf(virt), TableFor(mem, D, virt), phys)
<1>. DEFINE mm == MapPage(mem, D, virt, phys)
            d == PageOf(virt) \div TableEntries
            r == PageOf(virt) % TableEntries
            t == TableFor(mem, D, virt)
<1>1. /\ PageOf(virt) \in LowPages /\ DirIndex(virt) = d /\ TableIndex(virt) = r
      /\ d \in LowEntries /\ d \in Offset /\ r \in Offset
  BY Indices, PageSlots DEF LowEntries
<1>2. mem.ram \in Memory /\ D \in Frame /\ mem.bitmap \in SUBSET Frame
  BY DEF Walkable
<1>3. t \in Frame \ Dirs
  <2>1. CASE Present(mem.ram[D][d])
    BY <1>1, <2>1 DEF Walkable, TableFor
  <2>2. CASE ~Present(mem.ram[D][d]) /\ D = KernelDir /\ d = 0
    BY <1>1, <2>2, ImageFrames3 DEF Walkable, TableFor
  <2>3. CASE ~Present(mem.ram[D][d]) /\ ~(D = KernelDir /\ d = 0)
    <3>1. t = NextKernelFrame(mem.bitmap)
      BY <1>1, <2>3 DEF TableFor
    <3>2. \/ t # NoFrame /\ t \in Frame \ (mem.bitmap \cup Image)
          \/ t = NoFrame
      BY <1>2, <3>1, KernelFrameFound
    <3>. QED
      BY <3>2, ImageFrames3 DEF Walkable, NoFrame
  <2>. QED
    BY <2>1, <2>2, <2>3
<1>4. mm.ram = [mem.ram EXCEPT
                  ![D][d] = IF Present(mem.ram[D][d]) THEN @ ELSE Entry(t, PAGE_KERNEL),
                  ![t][r] = Entry(phys, PAGE_KERNEL)]
  BY <1>1, Zenon DEF MapPage, TableFor
<1>5. Entry(t, PAGE_KERNEL) \in Nat /\ Entry(phys, PAGE_KERNEL) \in Nat
  BY <1>3, EntryNames, ImageFrames3
<1>. DEFINE e == IF Present(mem.ram[D][d]) THEN mem.ram[D][d] ELSE Entry(t, PAGE_KERNEL)
            ram1 == [mem.ram EXCEPT ![D][d] = e]
<1>6. mm.ram = [ram1 EXCEPT ![t][r] = Entry(phys, PAGE_KERNEL)] /\ t # D /\ e \in Nat
  BY <1>1, <1>2, <1>3, <1>4, <1>5 DEF Memory
<1>. HIDE DEF e
<1>7. /\ ram1 \in Memory
      /\ ram1[D] = [mem.ram[D] EXCEPT ![d] = e]
      /\ \A f \in Frame : f # D => ram1[f] = mem.ram[f]
  BY <1>1, <1>2, <1>6 DEF Memory
<1>. HIDE DEF ram1
<1>8. /\ mm.ram \in Memory
      /\ mm.ram[t] = [ram1[t] EXCEPT ![r] = Entry(phys, PAGE_KERNEL)]
      /\ \A f \in Frame : f # t => mm.ram[f] = ram1[f]
  BY <1>1, <1>3, <1>5, <1>6, <1>7 DEF Memory
<1>9. ram1[t] = mem.ram[t] /\ mm.ram[D] = ram1[D]
  BY <1>2, <1>3, <1>6, <1>7, <1>8
<1>10. mem.ram[D] \in [Offset -> Nat] /\ mem.ram[t] \in [Offset -> Nat]
  BY <1>2, <1>3 DEF Memory
<1>. HIDE DEF mm, d, r, t
<1>11. /\ \A i \in Offset : mm.ram[D][i] =
             IF i = d /\ ~Present(mem.ram[D][d]) THEN Entry(t, PAGE_KERNEL)
                                                ELSE mem.ram[D][i]
       /\ \A i \in Offset : mm.ram[t][i] =
             IF i = r THEN Entry(phys, PAGE_KERNEL) ELSE mem.ram[t][i]
       /\ \A f \in Frame : f # D /\ f # t => mm.ram[f] = mem.ram[f]
  BY <1>1, <1>3, <1>6, <1>7, <1>8, <1>9, <1>10 DEF e
<1>. QED
  BY <1>3, <1>8, <1>11 DEF MapWrites, PdeOf, mm, d, r, t

\* map_page keeps the directories walkable.
LEMMA MapPageWalkable ==
    ASSUME NEW mem, NEW Dirs, Walkable(mem.bitmap, mem.ram, Dirs),
           NEW D \in Dirs, NEW virt \in LowAddress, NEW phys \in Nat
    PROVE  Walkable(MapPage(mem, D, virt, phys).bitmap, MapPage(mem, D, virt, phys).ram, Dirs)
<1>. DEFINE p == PageOf(virt)
            d == p \div TableEntries
            t == TableFor(mem, D, virt)
            bm == mem.bitmap
            ram == mem.ram
            bm2 == MapPage(mem, D, virt, phys).bitmap
            ram2 == MapPage(mem, D, virt, phys).ram
<1>1. MapWrites(ram, ram2, Dirs, D, p, t, phys)
  BY MapPageWrites
<1>2. bm2 = bm \/ bm2 = Mark(bm, t)
  BY DEF MapPage, TableFor
<1>3. Walkable(bm, ram, Dirs)
  OBVIOUS
<1>. HIDE DEF p, t, bm, ram, bm2, ram2
<1>4. bm2 \in SUBSET Frame /\ bm \subseteq bm2
  BY <1>1, <1>2, <1>3 DEF MapWrites, Walkable, Mark, SetFrame
<1>5. ASSUME NEW E \in Dirs, NEW i \in LowEntries, Present(ram2[E][i])
      PROVE  FrameOf(ram2[E][i]) \in Frame \ Dirs
  <2>1. i \in Offset
    BY PagingAssumption DEF LowEntries, Offset
  <2>2. E \in Frame /\ E # t
    BY <1>1, <1>3 DEF Walkable, MapWrites
  <2>3. \/ ram2[E][i] = ram[E][i]
        \/ ram2[E][i] = Entry(t, PAGE_KERNEL)
    BY <1>1, <2>1, <2>2 DEF MapWrites
  <2>4. FrameOf(Entry(t, PAGE_KERNEL)) = t /\ t \in Frame \ Dirs
    BY <1>1, EntryNames, ImageFrames3 DEF MapWrites
  <2>. QED
    BY <1>3, <1>5, <2>3, <2>4 DEF Walkable
<1>6. ram2 \in Memory
  BY <1>1 DEF MapWrites
<1>7. Walkable(bm2, ram2, Dirs)
  BY <1>3, <1>4, <1>5, <1>6 DEF Walkable
<1>. QED
  BY <1>7 DEF bm2, ram2

\* map_page with a frame for its table: the directories keep tables of their
\* own, the page is mapped, every other page keeps its entry, and no frame
\* that is neither directory nor table is written.
MapEffect(bm, ram, bm2, ram2, Dirs, D, p, phys) ==
    /\ Tables(bm2, ram2, Dirs)
    /\ bm \subseteq bm2
    /\ Present(PdeOf(ram2, D, p)) /\ PteOf(ram2, D, p) = Entry(phys, PAGE_KERNEL)
    /\ \A E \in Dirs : \A q \in LowPages : Present(PdeOf(ram, E, q)) =>
          /\ PdeOf(ram2, E, q) = PdeOf(ram, E, q)
          /\ E # D \/ q # p => PteOf(ram2, E, q) = PteOf(ram, E, q)
    /\ \A f \in bm \ (Dirs \cup Image) : ~IsTable(ram, Dirs, f) =>
          ram2[f] = ram[f] /\ ~IsTable(ram2, Dirs, f)
    /\ \A f \in bm2 : f \in bm \/ IsTable(ram2, Dirs, f)
    /\ \A f : IsTable(ram, Dirs, f) => IsTable(ram2, Dirs, f)

\* map_page has that effect when it finds a frame for the table it needs.
LEMMA MapPageTables ==
    ASSUME NEW mem, NEW Dirs, Tables(mem.bitmap, mem.ram, Dirs),
           NumFrames <= AddressableFrames,
           NEW D \in Dirs, NEW virt \in LowAddress, NEW phys \in Nat,
           TableFor(mem, D, virt) # NoFrame
    PROVE  MapEffect(mem.bitmap, mem.ram, MapPage(mem, D, virt, phys).bitmap,
                     MapPage(mem, D, virt, phys).ram, Dirs, D, PageOf(virt), phys)
<1>. DEFINE p == PageOf(virt)
            d == p \div TableEntries
            r == p % TableEntries
            t == TableFor(mem, D, virt)
            bm == mem.bitmap
            ram == mem.ram
            bm2 == MapPage(mem, D, virt, phys).bitmap
            ram2 == MapPage(mem, D, virt, phys).ram
<1>1. /\ p \in LowPages /\ DirIndex(virt) = d /\ TableIndex(virt) = r
      /\ d \in LowEntries /\ d \in Offset /\ r \in Offset
  BY Indices, PageSlots DEF LowEntries
<1>a. MapWrites(ram, ram2, Dirs, D, p, t, phys)
  BY MapPageWrites, TablesWalkable
<1>2. /\ t \in Frame \ Dirs
      /\ ram2 \in Memory
      /\ \A i \in Offset : ram2[D][i] =
            IF i = d /\ ~Present(ram[D][d]) THEN Entry(t, PAGE_KERNEL) ELSE ram[D][i]
      /\ \A i \in Offset : ram2[t][i] =
            IF i = r THEN Entry(phys, PAGE_KERNEL) ELSE ram[t][i]
      /\ \A f \in Frame : f # D /\ f # t => ram2[f] = ram[f]
  <2>. HIDE DEF t, p, ram, ram2
  <2>. QED
    BY <1>a DEF MapWrites, PdeOf
<1>3. bm2 = IF Present(ram[D][d]) \/ (D = KernelDir /\ d = 0) THEN bm ELSE Mark(bm, t)
  BY <1>1, Zenon DEF MapPage, TableFor
<1>4. t # NoFrame
  OBVIOUS
<1>5. Tables(bm, ram, Dirs)
  OBVIOUS
<1>6. /\ Present(ram[D][d]) => t = FrameOf(ram[D][d])
      /\ ~Present(ram[D][d]) /\ D = KernelDir /\ d = 0 => t = KernelTable
      /\ ~Present(ram[D][d]) /\ ~(D = KernelDir /\ d = 0) =>
            t = NextKernelFrame(bm)
  BY <1>1 DEF TableFor
<1>. HIDE DEF t, bm, ram, bm2, ram2, d, r, p
<1>7. bm \in SUBSET Frame /\ Image \subseteq bm /\ ram \in Memory /\ Dirs \subseteq bm
  BY <1>5 DEF Tables
<1>8. ~Present(ram[D][d]) /\ ~(D = KernelDir /\ d = 0) =>
         t \in Frame \ (bm \cup Image) /\ bm2 = bm \cup {t}
  <2>. SUFFICES ASSUME ~Present(ram[D][d]), ~(D = KernelDir /\ d = 0)
                PROVE  t \in Frame \ (bm \cup Image) /\ bm2 = bm \cup {t}
    OBVIOUS
  <2>1. t \in Frame \ (bm \cup Image)
    BY <1>4, <1>6, <1>7, KernelFrameFound
  <2>2. t < AddressableFrames
    BY <2>1, FrameConstants DEF Frame
  <2>. QED
    BY <1>3, <1>4, <2>1, <2>2 DEF Mark, SetFrame
<1>9. bm2 \in SUBSET Frame /\ bm \subseteq bm2
      /\ (Present(ram[D][d]) \/ (D = KernelDir /\ d = 0) => bm2 = bm)
  BY <1>3, <1>7, <1>8
\* the low entries of all directories
<1>10. ASSUME NEW E \in Dirs, NEW i \in LowEntries
       PROVE  ram2[E][i] = IF E = D /\ i = d /\ ~Present(ram[D][d])
                           THEN Entry(t, PAGE_KERNEL) ELSE ram[E][i]
  <2>1. i \in Offset
    BY PagingAssumption DEF LowEntries, Offset
  <2>2. E \in Frame /\ E # t
    BY <1>2, <1>7
  <2>. QED
    BY <1>2, <2>1, <2>2
<1>11. Present(Entry(t, PAGE_KERNEL)) /\ FrameOf(Entry(t, PAGE_KERNEL)) = t
  BY <1>2, EntryNames, ImageFrames3
<1>12. Present(ram2[D][d]) /\ FrameOf(ram2[D][d]) = t
  BY <1>1, <1>6, <1>10, <1>11
\* no other entry has this table
<1>13. ASSUME NEW E \in Dirs, NEW i \in LowEntries, E # D \/ i # d, Present(ram[E][i])
       PROVE  FrameOf(ram[E][i]) # t
  <2>1. CASE Present(ram[D][d])
    BY <1>1, <1>5, <1>6, <1>13, <2>1 DEF Tables
  <2>2. CASE ~Present(ram[D][d]) /\ D = KernelDir /\ d = 0
    <3>1. t = KernelTable
      BY <1>6, <2>2
    <3>. QED
      BY <1>5, <1>13, <2>2, <3>1, ImageFrames3 DEF Tables
  <2>3. CASE ~Present(ram[D][d]) /\ ~(D = KernelDir /\ d = 0)
    BY <1>5, <1>8, <1>13, <2>3 DEF Tables
  <2>. QED
    BY <2>1, <2>2, <2>3
<1>14. t \in bm2 /\ (t \in Image => D = KernelDir /\ d = 0 /\ t = KernelTable)
  <2>1. CASE Present(ram[D][d])
    BY <1>1, <1>5, <1>6, <1>9, <2>1 DEF Tables
  <2>2. CASE ~Present(ram[D][d]) /\ D = KernelDir /\ d = 0
    BY <1>6, <1>7, <1>9, <2>2, ImageFrames3
  <2>3. CASE ~Present(ram[D][d]) /\ ~(D = KernelDir /\ d = 0)
    BY <1>8, <2>3
  <2>. QED
    BY <2>1, <2>2, <2>3
<1>15. Tables(bm2, ram2, Dirs)
  <2>1. ASSUME NEW E \in Dirs, NEW i \in LowEntries, Present(ram2[E][i])
        PROVE  /\ FrameOf(ram2[E][i]) \in bm2 \ Dirs
               /\ FrameOf(ram2[E][i]) \in Image =>
                     E = KernelDir /\ i = 0 /\ FrameOf(ram2[E][i]) = KernelTable
    <3>1. CASE E = D /\ i = d
      BY <1>2, <1>12, <1>14, <3>1
    <3>2. CASE ~(E = D /\ i = d)
      <4>1. ram2[E][i] = ram[E][i]
        BY <1>10, <3>2
      <4>. QED
        BY <1>5, <1>9, <2>1, <4>1 DEF Tables
    <3>. QED
      BY <3>1, <3>2
  <2>2. ASSUME NEW E \in Dirs, NEW F \in Dirs, NEW i \in LowEntries, NEW j \in LowEntries,
               Present(ram2[E][i]), Present(ram2[F][j]),
               FrameOf(ram2[E][i]) = FrameOf(ram2[F][j])
        PROVE  E = F /\ i = j
    <3>1. CASE E = D /\ i = d /\ ~(F = D /\ j = d)
      <4>1. ram2[F][j] = ram[F][j]
        BY <1>10, <3>1
      <4>. QED
        BY <1>12, <1>13, <2>2, <3>1, <4>1
    <3>2. CASE F = D /\ j = d /\ ~(E = D /\ i = d)
      <4>1. ram2[E][i] = ram[E][i]
        BY <1>10, <3>2
      <4>. QED
        BY <1>12, <1>13, <2>2, <3>2, <4>1
    <3>3. CASE ~(F = D /\ j = d) /\ ~(E = D /\ i = d)
      <4>1. ram2[E][i] = ram[E][i] /\ ram2[F][j] = ram[F][j]
        BY <1>10, <3>3
      <4>. QED
        BY <1>5, <2>2, <4>1 DEF Tables
    <3>. QED
      BY <3>1, <3>2, <3>3
  <2>. QED
    BY <1>2, <1>5, <1>9, <2>1, <2>2 DEF Tables
<1>16. Present(PdeOf(ram2, D, p)) /\ PteOf(ram2, D, p) = Entry(phys, PAGE_KERNEL)
  BY <1>1, <1>2, <1>12 DEF PdeOf, PteOf, d, r
<1>17. ASSUME NEW E \in Dirs, NEW q \in LowPages, Present(PdeOf(ram, E, q))
       PROVE  /\ PdeOf(ram2, E, q) = PdeOf(ram, E, q)
              /\ E # D \/ q # p => PteOf(ram2, E, q) = PteOf(ram, E, q)
  <2>. DEFINE i == q \div TableEntries
              s == q % TableEntries
  <2>1. i \in LowEntries /\ s \in Offset
    BY PageSlots DEF LowEntries
  <2>2. PdeOf(ram2, E, q) = PdeOf(ram, E, q)
    BY <1>10, <1>17, <2>1 DEF PdeOf
  <2>3. ASSUME E # D \/ q # p
        PROVE  PteOf(ram2, E, q) = PteOf(ram, E, q)
    <3>1. FrameOf(ram[E][i]) \in Frame \ Dirs
      BY <1>5, <1>7, <1>17, <2>1 DEF Tables, PdeOf
    <3>2. CASE E = D /\ i = d
      <4>1. s # r
        BY <1>1, <2>3, <3>2, SlotsDiffer DEF d, r
      <4>2. FrameOf(ram[E][i]) = t
        BY <1>6, <1>17, <3>2 DEF PdeOf
      <4>3. ram2[t][s] = ram[t][s]
        BY <1>2, <2>1, <4>1
      <4>. QED
        BY <2>2, <4>2, <4>3 DEF PteOf, PdeOf
    <3>3. CASE ~(E = D /\ i = d)
      <4>1. FrameOf(ram[E][i]) # t
        BY <1>13, <1>17, <2>1, <3>3 DEF PdeOf
      <4>2. FrameOf(ram[E][i]) # D
        BY <3>1
      <4>3. ram2[FrameOf(ram[E][i])] = ram[FrameOf(ram[E][i])]
        BY <1>2, <3>1, <4>1, <4>2
      <4>. QED
        BY <2>2, <4>3 DEF PteOf, PdeOf
    <3>. QED
      BY <3>2, <3>3
  <2>. QED
    BY <2>2, <2>3
<1>18. ASSUME NEW f \in bm \ (Dirs \cup Image), ~IsTable(ram, Dirs, f)
       PROVE  ram2[f] = ram[f] /\ ~IsTable(ram2, Dirs, f)
  <2>1. f # t
    <3>1. CASE Present(ram[D][d])
      BY <1>1, <1>6, <1>18, <3>1 DEF IsTable
    <3>2. CASE ~Present(ram[D][d]) /\ D = KernelDir /\ d = 0
      BY <1>6, <3>2, ImageFrames3
    <3>3. CASE ~Present(ram[D][d]) /\ ~(D = KernelDir /\ d = 0)
      BY <1>8, <3>3
    <3>. QED
      BY <3>1, <3>2, <3>3
  <2>2. ram2[f] = ram[f]
    BY <1>2, <1>7, <2>1
  <2>3. ASSUME NEW E \in Dirs, NEW i \in LowEntries, Present(ram2[E][i]),
               FrameOf(ram2[E][i]) = f
        PROVE  FALSE
    <3>1. ~(E = D /\ i = d)
      BY <1>12, <2>1, <2>3
    <3>2. ram2[E][i] = ram[E][i]
      BY <1>10, <3>1
    <3>. QED
      BY <1>18, <2>3, <3>2 DEF IsTable
  <2>. QED
    BY <2>2, <2>3 DEF IsTable
<1>19. \A f \in bm2 : f \in bm \/ IsTable(ram2, Dirs, f)
  BY <1>1, <1>8, <1>9, <1>12 DEF IsTable
<1>20. ASSUME NEW f, IsTable(ram, Dirs, f) PROVE IsTable(ram2, Dirs, f)
  <2>1. PICK E \in Dirs, i \in LowEntries : Present(ram[E][i]) /\ FrameOf(ram[E][i]) = f
    BY <1>20 DEF IsTable
  <2>2. ram2[E][i] = ram[E][i]
    BY <1>10, <2>1
  <2>. QED
    BY <2>1, <2>2 DEF IsTable
<1>. QED
  BY <1>9, <1>15, <1>16, <1>17, <1>18, <1>19, <1>20
  DEF MapEffect, bm, ram, bm2, ram2, p

-----------------------------------------------------------------------------
(* Data pages. *)

\* A machine whose TLB holds no translation that differs from the tables.
Machines == [bitmap : SUBSET Frame, ram : Memory, tlb : {NoneCached}]

\* The frame behind a page.
FrameAt(ram, p) == FrameOf(PteOf(ram, KernelDir, p))

\* A page that a directory D and the kernel's both map to a frame of its own.
DataPage(mem, Dirs, D, p) ==
    /\ Present(PdeOf(mem.ram, D, p)) /\ Present(PdeOf(mem.ram, KernelDir, p))
    /\ PteOf(mem.ram, D, p) = Entry(FrameAt(mem.ram, p), PAGE_KERNEL)
    /\ PteOf(mem.ram, KernelDir, p) = Entry(FrameAt(mem.ram, p), PAGE_KERNEL)
    /\ FrameAt(mem.ram, p) \in mem.bitmap \ (Image \cup Dirs)
    /\ ~IsTable(mem.ram, Dirs, FrameAt(mem.ram, p))

DirSet(dirs, S) == {KernelDir} \cup {dirs[h] : h \in S}

\* A machine with the directories dirs[h], h \in S, that map the pages own[h]:
\* every frame in use has one use.
Sound(mem, dirs, S, own) ==
    /\ mem \in Machines
    /\ Tables(mem.bitmap, mem.ram, DirSet(dirs, S))
    /\ \A h \in S : dirs[h] # KernelDir
    /\ \A g, h \in S : dirs[g] = dirs[h] => g = h
    /\ \A h \in S : \A p \in own[h] :
          p \in LowPages /\ DataPage(mem, DirSet(dirs, S), dirs[h], p)
    /\ \A g, h \in S : \A p \in own[g] : p \in own[h] => g = h
    /\ \A g, h \in S : \A p \in own[g], q \in own[h] :
          FrameAt(mem.ram, p) = FrameAt(mem.ram, q) => p = q
    /\ \A f \in mem.bitmap :
          \/ f \in Image \cup DirSet(dirs, S)
          \/ IsTable(mem.ram, DirSet(dirs, S), f)
          \/ \E h \in S : \E p \in own[h] : FrameAt(mem.ram, p) = f

\* The pages own[h] keep their frames, and the frames their words.
KeepsPages(mem, mem2, S, own) ==
    \A h \in S : \A p \in own[h] :
        /\ FrameAt(mem2.ram, p) = FrameAt(mem.ram, p)
        /\ mem2.ram[FrameAt(mem.ram, p)] = mem.ram[FrameAt(mem.ram, p)]

\* invlpg leaves nothing in the TLB when it held the flushed page at most.
LEMMA Flushed ==
    ASSUME NEW mem, NEW b, NEW r, NEW tlb, NEW virt,
           mem = [bitmap |-> b, ram |-> r, tlb |-> tlb],
           DOMAIN tlb \subseteq {PageOf(virt)}
    PROVE  Invlpg(mem, virt) = [bitmap |-> b, ram |-> r, tlb |-> NoneCached]
<1>1. [page \in DOMAIN tlb \ {PageOf(virt)} |-> tlb[page]] = NoneCached
  BY DEF NoneCached
<1>2. Invlpg(mem, virt) = [bitmap |-> b, ram |-> r,
                           tlb |-> [page \in DOMAIN tlb \ {PageOf(virt)} |-> tlb[page]]]
  BY DEF Invlpg
<1>. QED
  BY <1>1, <1>2

\* An address of a data page is mapped, to its word of the page's frame.
LEMMA DataAddress ==
    ASSUME NEW mem, mem.tlb = NoneCached, NEW virt \in LowAddress,
           Present(PdeOf(mem.ram, KernelDir, PageOf(virt))),
           FrameOf(PdeOf(mem.ram, KernelDir, PageOf(virt))) \in Frame,
           NEW f \in Frame,
           PteOf(mem.ram, KernelDir, PageOf(virt)) = Entry(f, PAGE_KERNEL)
    PROVE  /\ Mapped(mem, virt)
           /\ Translate(mem, virt) = <<f, virt % PageWords>>
           /\ FrameAt(mem.ram, PageOf(virt)) = f
<1>1. PageEntry(mem.ram, KernelDir, virt) = Entry(f, PAGE_KERNEL)
  BY Indices DEF PageEntry, PdeOf, PteOf
<1>2. Present(Entry(f, PAGE_KERNEL)) /\ FrameOf(Entry(f, PAGE_KERNEL)) = f
  BY EntryNames, ImageFrames3
<1>3. MappedIn(mem.ram, KernelDir, virt)
  BY <1>1, <1>2 DEF MappedIn
<1>4. PageOf(virt) \notin DOMAIN mem.tlb
  BY DEF NoneCached
<1>. QED
  BY <1>1, <1>2, <1>3, <1>4 DEF Mapped, Translate, FrameAt

\* The two calls of map_page and the invlpg that add a page to a heap.
MapTwice(mem, D, virt, f) ==
    Invlpg(MapPage(MapPage([mem EXCEPT !.bitmap = SetFrame(@, f)], D, virt, f),
                   KernelDir, virt, f), virt)

\* The tables they use.
FirstTable(mem, D, virt, f) ==
    TableFor([mem EXCEPT !.bitmap = SetFrame(@, f)], D, virt)
SecondTable(mem, D, virt, f) ==
    TableFor(MapPage([mem EXCEPT !.bitmap = SetFrame(@, f)], D, virt, f), KernelDir, virt)

\* The entries that map_page leaves: the directory's names the table t.
MapLeaves(ram, ram2, Dirs, D, p, t, phys) ==
    /\ Present(PdeOf(ram2, D, p)) /\ FrameOf(PdeOf(ram2, D, p)) = t
    /\ t \in Frame \ Dirs
    /\ PteOf(ram2, D, p) = Entry(phys, PAGE_KERNEL)
    /\ \A E \in Dirs : E # D => ram2[E] = ram[E]

\* Whatever frame map_page took for a table, the directory's entry names it.
LEMMA MapPageEntry ==
    ASSUME NEW mem, NEW Dirs, Walkable(mem.bitmap, mem.ram, Dirs),
           NEW D \in Dirs, NEW virt \in LowAddress, NEW phys \in Nat,
           NEW ram2, ram2 = MapPage(mem, D, virt, phys).ram
    PROVE  MapLeaves(mem.ram, ram2, Dirs, D, PageOf(virt), TableFor(mem, D, virt), phys)
<1>. DEFINE p == PageOf(virt)
            d == p \div TableEntries
            r == p % TableEntries
            t == TableFor(mem, D, virt)
<1>1. MapWrites(mem.ram, ram2, Dirs, D, p, t, phys)
  BY MapPageWrites
<1>2. p \in LowPages /\ d \in Offset /\ r \in Offset /\ DirIndex(virt) = d
  BY Indices, PageSlots
<1>3. Present(mem.ram[D][d]) => t = FrameOf(mem.ram[D][d])
  BY <1>2 DEF TableFor
<1>. HIDE DEF p, t
<1>4. t \in Frame \ Dirs /\ Dirs \subseteq Frame
  BY <1>1 DEF MapWrites, Walkable
<1>5. Present(Entry(t, PAGE_KERNEL)) /\ FrameOf(Entry(t, PAGE_KERNEL)) = t
  BY <1>4, EntryNames, ImageFrames3
<1>6. Present(PdeOf(ram2, D, p)) /\ FrameOf(PdeOf(ram2, D, p)) = t
  BY <1>1, <1>2, <1>3, <1>5 DEF MapWrites, PdeOf
<1>7. PteOf(ram2, D, p) = Entry(phys, PAGE_KERNEL)
  BY <1>1, <1>2, <1>6 DEF MapWrites, PteOf
<1>8. \A E \in Dirs : E # D => ram2[E] = mem.ram[E]
  BY <1>1, <1>4 DEF MapWrites
<1>. QED
  BY <1>4, <1>6, <1>7, <1>8 DEF p, t, MapLeaves

\* The result of the two calls as a record.
LEMMA MapTwiceRecord ==
    ASSUME NEW mem \in Machines, NEW D, D # KernelDir, NEW virt, NEW f,
           NEW taken, taken = [mem EXCEPT !.bitmap = SetFrame(@, f)],
           NEW m1, m1 = MapPage(taken, D, virt, f),
           NEW m2, m2 = MapPage(m1, KernelDir, virt, f)
    PROVE  MapTwice(mem, D, virt, f) =
               [bitmap |-> m2.bitmap, ram |-> m2.ram, tlb |-> NoneCached]
<1>1. taken.tlb = NoneCached
  BY DEF Machines
<1>2. m1.tlb = NoneCached
  BY <1>1 DEF MapPage
<1>3. m2.tlb = Outdated(m1, virt)
  BY DEF MapPage
<1>4. DOMAIN Outdated(m1, virt) \subseteq {PageOf(virt)}
  BY <1>2 DEF Outdated, NoneCached
<1>5. m2 = [bitmap |-> m2.bitmap, ram |-> m2.ram, tlb |-> m2.tlb]
  BY DEF MapPage
<1>6. Invlpg(m2, virt) = [bitmap |-> m2.bitmap, ram |-> m2.ram, tlb |-> NoneCached]
  <2>. DEFINE b == m2.bitmap
              r == m2.ram
              l == m2.tlb
  <2>1. m2 = [bitmap |-> b, ram |-> r, tlb |-> l] /\ DOMAIN l \subseteq {PageOf(virt)}
    BY <1>3, <1>4, <1>5
  <2>. HIDE DEF b, r, l
  <2>2. Invlpg(m2, virt) = [bitmap |-> b, ram |-> r, tlb |-> NoneCached]
    BY <2>1, Flushed
  <2>. QED
    BY <2>2 DEF b, r
<1>. QED
  BY <1>6 DEF MapTwice

\* Whatever frames the two calls found, the entries they leave tell which, and
\* the address leads to the new frame.
LEMMA MapTwiceEntries ==
    ASSUME NEW mem \in Machines, NEW Dirs, Walkable(mem.bitmap, mem.ram, Dirs),
           NEW D \in Dirs, D # KernelDir, NEW virt \in LowAddress, NEW f \in Frame,
           NEW mem2, mem2 = MapTwice(mem, D, virt, f), NEW p, p = PageOf(virt)
    PROVE  /\ mem2 \in Machines
           /\ Present(PdeOf(mem2.ram, D, p))
           /\ FrameOf(PdeOf(mem2.ram, D, p)) = FirstTable(mem, D, virt, f)
           /\ Present(PdeOf(mem2.ram, KernelDir, p))
           /\ FrameOf(PdeOf(mem2.ram, KernelDir, p)) = SecondTable(mem, D, virt, f)
           /\ Mapped(mem2, virt) /\ Translate(mem2, virt) = <<f, virt % PageWords>>
<1>. DEFINE taken == [mem EXCEPT !.bitmap = SetFrame(@, f)]
            m1 == MapPage(taken, D, virt, f)
            m2 == MapPage(m1, KernelDir, virt, f)
<1>1. f \in Nat /\ KernelDir \in Dirs
  BY ImageFrames3 DEF Walkable
<1>2. taken.ram = mem.ram /\ taken.bitmap = SetFrame(mem.bitmap, f)
  BY DEF Machines
<1>3. Walkable(taken.bitmap, taken.ram, Dirs)
  <2>1. SetFrame(mem.bitmap, f) \in SUBSET Frame /\ mem.bitmap \subseteq SetFrame(mem.bitmap, f)
    BY DEF SetFrame, Machines
  <2>. HIDE DEF taken
  <2>. QED
    BY <1>2, <2>1 DEF Walkable
<1>a. /\ taken = [mem EXCEPT !.bitmap = SetFrame(@, f)]
      /\ m1 = MapPage(taken, D, virt, f)
      /\ m2 = MapPage(m1, KernelDir, virt, f)
  OBVIOUS
<1>4. mem2 = [bitmap |-> m2.bitmap, ram |-> m2.ram, tlb |-> NoneCached]
  <2>. HIDE DEF taken, m1, m2
  <2>. QED
    BY <1>a, MapTwiceRecord
<1>5. FirstTable(mem, D, virt, f) = TableFor(taken, D, virt)
      /\ SecondTable(mem, D, virt, f) = TableFor(m1, KernelDir, virt)
  BY DEF FirstTable, SecondTable
<1>. HIDE DEF taken
<1>6. Walkable(m1.bitmap, m1.ram, Dirs)
  BY <1>1, <1>3, MapPageWalkable
<1>7. MapLeaves(taken.ram, m1.ram, Dirs, D, PageOf(virt), TableFor(taken, D, virt), f)
  BY <1>1, <1>3, MapPageEntry
<1>. HIDE DEF m1
<1>8. Walkable(m2.bitmap, m2.ram, Dirs)
  BY <1>1, <1>6, MapPageWalkable
<1>9. MapLeaves(m1.ram, m2.ram, Dirs, KernelDir, PageOf(virt),
                TableFor(m1, KernelDir, virt), f)
  BY <1>1, <1>6, MapPageEntry
<1>. HIDE DEF m2
<1>10. PdeOf(m2.ram, D, p) = PdeOf(m1.ram, D, p)
  BY <1>9 DEF PdeOf, MapLeaves
<1>11. mem2 \in Machines /\ mem2.ram = m2.ram /\ mem2.tlb = NoneCached
  BY <1>4, <1>8 DEF Machines, Walkable
<1>12. Mapped(mem2, virt) /\ Translate(mem2, virt) = <<f, virt % PageWords>>
  BY <1>9, <1>11, DataAddress DEF MapLeaves
<1>. QED
  BY <1>5, <1>7, <1>9, <1>10, <1>11, <1>12 DEF MapLeaves

\* The kernel's directory keeps all entries but the one for an address.
TopKept(ram, ram2, virt) ==
    \A i \in Offset : i # DirIndex(virt) => ram2[KernelDir][i] = ram[KernelDir][i]

\* The two calls of map_page write no entry of the kernel's directory but the
\* one of the page, whatever frames they found.
LEMMA MapTwiceTop ==
    ASSUME NEW mem \in Machines, NEW Dirs, Walkable(mem.bitmap, mem.ram, Dirs),
           NEW D \in Dirs, D # KernelDir, NEW virt \in LowAddress, NEW f \in Frame,
           NEW mem2, mem2 = MapTwice(mem, D, virt, f)
    PROVE  TopKept(mem.ram, mem2.ram, virt)
<1>. DEFINE taken == [mem EXCEPT !.bitmap = SetFrame(@, f)]
            m1 == MapPage(taken, D, virt, f)
            m2 == MapPage(m1, KernelDir, virt, f)
<1>1. f \in Nat /\ KernelDir \in Dirs
  BY ImageFrames3 DEF Walkable
<1>2. taken.ram = mem.ram /\ taken.bitmap = SetFrame(mem.bitmap, f)
  BY DEF Machines
<1>3. Walkable(taken.bitmap, taken.ram, Dirs)
  <2>1. SetFrame(mem.bitmap, f) \in SUBSET Frame /\ mem.bitmap \subseteq SetFrame(mem.bitmap, f)
    BY DEF SetFrame, Machines
  <2>. HIDE DEF taken
  <2>. QED
    BY <1>2, <2>1 DEF Walkable
<1>4. mem2 = [bitmap |-> m2.bitmap, ram |-> m2.ram, tlb |-> NoneCached]
  <2>1. /\ taken = [mem EXCEPT !.bitmap = SetFrame(@, f)]
        /\ m1 = MapPage(taken, D, virt, f)
        /\ m2 = MapPage(m1, KernelDir, virt, f)
    OBVIOUS
  <2>. HIDE DEF taken, m1, m2
  <2>. QED
    BY <2>1, MapTwiceRecord
<1>. HIDE DEF taken
<1>5. Walkable(m1.bitmap, m1.ram, Dirs)
  BY <1>1, <1>3, MapPageWalkable
<1>6. MapLeaves(taken.ram, m1.ram, Dirs, D, PageOf(virt), TableFor(taken, D, virt), f)
  BY <1>1, <1>3, MapPageEntry
<1>. HIDE DEF m1
<1>7. MapWrites(m1.ram, m2.ram, Dirs, KernelDir, PageOf(virt),
                TableFor(m1, KernelDir, virt), f)
  BY <1>1, <1>5, MapPageWrites
<1>. HIDE DEF m2
<1>8. m1.ram[KernelDir] = mem.ram[KernelDir]
  BY <1>1, <1>2, <1>6 DEF MapLeaves
<1>9. \A i \in Offset : i # DirIndex(virt) =>
         m2.ram[KernelDir][i] = m1.ram[KernelDir][i]
  BY <1>7, Indices DEF MapWrites
<1>. QED
  BY <1>4, <1>8, <1>9 DEF TopKept

\* Page p of no heap becomes one of heap h, or stops being one.
PageJoins(S, own, own2, h, p) ==
    /\ \A g \in S : p \notin own[g]
    /\ \A g \in S : own2[g] = IF g = h THEN own[g] \cup {p} ELSE own[g]
PageLeaves(S, own, own2, h, p) ==
    /\ p \in own[h]
    /\ \A g \in S : own2[g] = IF g = h THEN own[g] \ {p} ELSE own[g]

\* A heap that gets a page: with frames for both tables, the machine stays
\* sound, and every page that was there keeps its frame and its words.
LEMMA MapTwiceSound ==
    ASSUME NumFrames <= AddressableFrames,
           NEW mem, NEW dirs, NEW S, NEW own, Sound(mem, dirs, S, own),
           NEW h \in S, NEW virt \in LowAddress, NEW f \in Frame \ mem.bitmap,
           NEW p, p = PageOf(virt),
           FirstTable(mem, dirs[h], virt, f) # NoFrame,
           SecondTable(mem, dirs[h], virt, f) # NoFrame,
           NEW mem2, mem2 = MapTwice(mem, dirs[h], virt, f),
           NEW own2, PageJoins(S, own, own2, h, p)
    PROVE  /\ Sound(mem2, dirs, S, own2)
           /\ KeepsPages(mem, mem2, S, own)
           /\ FrameAt(mem2.ram, p) = f /\ mem2.ram[f] = mem.ram[f]
           /\ mem.bitmap \subseteq mem2.bitmap
<1>. USE DEF PageJoins
<1>. DEFINE Dirs == DirSet(dirs, S)
            D == dirs[h]
            taken == [mem EXCEPT !.bitmap = SetFrame(@, f)]
            m1 == MapPage(taken, D, virt, f)
            m2 == MapPage(m1, KernelDir, virt, f)
            bm == mem.bitmap
            ram == mem.ram
            bm1 == m1.bitmap
            ram1 == m1.ram
            bm2 == m2.bitmap
            ram2 == m2.ram
<1>1. /\ f \in Nat /\ KernelDir \in Dirs /\ D \in Dirs /\ D # KernelDir
      /\ Tables(bm, ram, Dirs) /\ mem \in Machines
  BY ImageFrames3 DEF Sound, DirSet
<1>2. taken.ram = mem.ram /\ taken.bitmap = bm \cup {f}
  <2>1. f < AddressableFrames
    BY FrameConstants DEF Frame
  <2>. QED
    BY <1>1, <2>1 DEF Machines, SetFrame
<1>3. Tables(taken.bitmap, taken.ram, Dirs)
  <2>. HIDE DEF taken, Dirs
  <2>. QED
    BY <1>1, <1>2 DEF Tables
<1>4. mem2 = [bitmap |-> bm2, ram |-> ram2, tlb |-> NoneCached]
  BY <1>1, MapTwiceRecord
<1>5. TableFor(taken, D, virt) # NoFrame /\ TableFor(m1, KernelDir, virt) # NoFrame
  BY DEF FirstTable, SecondTable
<1>. HIDE DEF taken, Dirs, D
<1>6. MapEffect(taken.bitmap, taken.ram, bm1, ram1, Dirs, D, PageOf(virt), f)
  BY <1>1, <1>3, <1>5, MapPageTables
<1>7. Tables(m1.bitmap, m1.ram, Dirs)
  BY <1>6 DEF MapEffect
<1>. HIDE DEF m1
<1>8. MapEffect(m1.bitmap, m1.ram, bm2, ram2, Dirs, KernelDir, PageOf(virt), f)
  BY <1>1, <1>5, <1>7, MapPageTables
<1>9. MapEffect(bm \cup {f}, ram, bm1, ram1, Dirs, D, p, f)
  BY <1>2, <1>6
<1>10. MapEffect(bm1, ram1, bm2, ram2, Dirs, KernelDir, p, f)
  BY <1>8
<1>11. Tables(bm2, ram2, Dirs)
  BY <1>10 DEF MapEffect
<1>12. mem2 \in Machines /\ mem2.bitmap = bm2 /\ mem2.ram = ram2
  BY <1>4, <1>11 DEF Machines, Tables
<1>13. p \in LowPages
  BY Indices
<1>. HIDE DEF m2, bm, ram, bm1, ram1, bm2, ram2
<1>14. bm \subseteq bm2 /\ bm \cup {f} \subseteq bm1 /\ f \in bm2 /\ f \notin bm
  BY <1>9, <1>10 DEF MapEffect, bm
\* the pages that were there
<1>15. ASSUME NEW E \in Dirs, NEW q \in LowPages, q # p, Present(PdeOf(ram, E, q))
       PROVE  /\ PdeOf(ram2, E, q) = PdeOf(ram, E, q)
              /\ PteOf(ram2, E, q) = PteOf(ram, E, q)
  <2>1. /\ PdeOf(ram1, E, q) = PdeOf(ram, E, q)
        /\ PteOf(ram1, E, q) = PteOf(ram, E, q)
    BY <1>9, <1>15 DEF MapEffect
  <2>. QED
    BY <1>10, <1>15, <2>1 DEF MapEffect
<1>16. ASSUME NEW x \in bm \cup {f}, x \notin Dirs \cup Image, ~IsTable(ram, Dirs, x)
       PROVE  ram2[x] = ram[x] /\ ~IsTable(ram2, Dirs, x)
  <2>1. ram1[x] = ram[x] /\ ~IsTable(ram1, Dirs, x)
    BY <1>9, <1>16 DEF MapEffect
  <2>2. x \in bm1
    BY <1>14
  <2>. QED
    BY <1>10, <1>16, <2>1, <2>2 DEF MapEffect
<1>17. ASSUME NEW g \in S, NEW q \in own[g]
       PROVE  /\ q \in LowPages /\ q # p
              /\ DataPage(mem2, Dirs, dirs[g], q)
              /\ FrameAt(ram2, q) = FrameAt(ram, q)
              /\ ram2[FrameAt(ram, q)] = ram[FrameAt(ram, q)]
              /\ FrameAt(ram, q) \in bm
  <2>1. q \in LowPages /\ q # p /\ DataPage(mem, Dirs, dirs[g], q)
    BY DEF Sound, Dirs
  <2>2. dirs[g] \in Dirs
    BY DEF Dirs, DirSet
  <2>3. /\ Present(PdeOf(ram, dirs[g], q)) /\ Present(PdeOf(ram, KernelDir, q))
        /\ PteOf(ram, dirs[g], q) = Entry(FrameAt(ram, q), PAGE_KERNEL)
        /\ PteOf(ram, KernelDir, q) = Entry(FrameAt(ram, q), PAGE_KERNEL)
        /\ FrameAt(ram, q) \in bm \ (Image \cup Dirs)
        /\ ~IsTable(ram, Dirs, FrameAt(ram, q))
    BY <2>1 DEF DataPage, ram, bm
  <2>4. /\ PdeOf(ram2, dirs[g], q) = PdeOf(ram, dirs[g], q)
        /\ PteOf(ram2, dirs[g], q) = PteOf(ram, dirs[g], q)
        /\ PdeOf(ram2, KernelDir, q) = PdeOf(ram, KernelDir, q)
        /\ PteOf(ram2, KernelDir, q) = PteOf(ram, KernelDir, q)
    BY <1>1, <1>15, <2>1, <2>2, <2>3
  <2>5. FrameAt(ram2, q) = FrameAt(ram, q)
    BY <2>4 DEF FrameAt
  <2>6. ram2[FrameAt(ram, q)] = ram[FrameAt(ram, q)] /\ ~IsTable(ram2, Dirs, FrameAt(ram, q))
    BY <1>16, <2>3
  <2>7. FrameAt(ram, q) \in bm2 \ (Image \cup Dirs)
    BY <1>14, <2>3
  <2>8. DataPage(mem2, Dirs, dirs[g], q)
    BY <1>12, <2>3, <2>4, <2>5, <2>6, <2>7 DEF DataPage
  <2>. QED
    BY <2>1, <2>3, <2>5, <2>6, <2>8
\* the new page
<1>18. f \notin Dirs \cup Image /\ ~IsTable(ram, Dirs, f)
  <2>1. Image \subseteq bm /\ Dirs \subseteq bm
    BY <1>1 DEF Tables, bm
  <2>2. ASSUME IsTable(ram, Dirs, f) PROVE FALSE
    BY <1>1, <1>14, <2>2 DEF Tables, IsTable, bm, ram
  <2>. QED
    BY <1>14, <2>1, <2>2
<1>19. ram2[f] = ram[f] /\ ~IsTable(ram2, Dirs, f)
  BY <1>16, <1>18
<1>20. /\ Present(PdeOf(ram2, D, p)) /\ PteOf(ram2, D, p) = Entry(f, PAGE_KERNEL)
       /\ Present(PdeOf(ram2, KernelDir, p))
       /\ PteOf(ram2, KernelDir, p) = Entry(f, PAGE_KERNEL)
  BY <1>1, <1>9, <1>10, <1>13 DEF MapEffect
<1>21. FrameAt(ram2, p) = f
  BY <1>1, <1>20, EntryNames DEF FrameAt
<1>22. DataPage(mem2, Dirs, D, p)
  BY <1>12, <1>14, <1>18, <1>19, <1>20, <1>21 DEF DataPage
<1>23. ASSUME NEW g \in S, NEW q \in own2[g]
       PROVE  \/ q \in own[g] /\ q # p /\ FrameAt(ram2, q) = FrameAt(ram, q)
                 /\ FrameAt(ram2, q) # f
              \/ g = h /\ q = p /\ FrameAt(ram2, q) = f
  <2>1. q \in own[g] \/ (g = h /\ q = p)
    OBVIOUS
  <2>. QED
    BY <1>14, <1>17, <1>21, <2>1
<1>24. \A g \in S : \A q \in own2[g] :
          q \in LowPages /\ DataPage(mem2, Dirs, dirs[g], q)
  BY <1>13, <1>17, <1>22, <1>23 DEF D
<1>25. ASSUME NEW a \in S, NEW b \in S, NEW q \in own2[a], q \in own2[b] PROVE a = b
  BY <1>23, <1>25 DEF Sound
<1>26. ASSUME NEW a \in S, NEW b \in S, NEW q \in own2[a], NEW r \in own2[b],
              FrameAt(ram2, q) = FrameAt(ram2, r)
       PROVE  q = r
  <2>1. CASE q \in own[a] /\ r \in own[b] /\ q # p /\ r # p
    <3>1. FrameAt(ram, q) = FrameAt(ram, r)
      BY <1>17, <1>26, <2>1
    <3>. QED
      BY <2>1, <3>1 DEF Sound, ram
  <2>. QED
    BY <1>23, <1>26, <2>1
<1>27. ASSUME NEW x \in bm2
       PROVE  \/ x \in Image \cup Dirs
              \/ IsTable(ram2, Dirs, x)
              \/ \E g \in S : \E q \in own2[g] : FrameAt(ram2, q) = x
  <2>1. x \in bm \cup {f} \/ IsTable(ram1, Dirs, x) \/ IsTable(ram2, Dirs, x)
    BY <1>9, <1>10 DEF MapEffect
  <2>2. \A y : IsTable(ram, Dirs, y) => IsTable(ram2, Dirs, y)
    BY <1>9, <1>10 DEF MapEffect
  <2>3. IsTable(ram1, Dirs, x) => IsTable(ram2, Dirs, x)
    BY <1>10 DEF MapEffect
  <2>4. CASE x = f
    <3>1. p \in own2[h]
      OBVIOUS
    <3>. QED
      BY <1>21, <2>4, <3>1
  <2>5. CASE x \in bm
    <3>1. \/ x \in Image \cup Dirs
          \/ IsTable(ram, Dirs, x)
          \/ \E g \in S : \E q \in own[g] : FrameAt(ram, q) = x
      BY <2>5 DEF Sound, Dirs, bm, ram
    <3>2. ASSUME NEW g \in S, NEW q \in own[g], FrameAt(ram, q) = x
          PROVE  \E g2 \in S : \E q2 \in own2[g2] : FrameAt(ram2, q2) = x
      <4>1. q \in own2[g] /\ FrameAt(ram2, q) = x
        BY <1>17, <3>2
      <4>. QED
        BY <4>1
    <3>. QED
      BY <2>2, <3>1, <3>2
  <2>. QED
    BY <2>1, <2>3, <2>4, <2>5
<1>28. Sound(mem2, dirs, S, own2)
  BY <1>11, <1>12, <1>24, <1>25, <1>26, <1>27 DEF Sound, Dirs
<1>29. KeepsPages(mem, mem2, S, own)
  BY <1>12, <1>17 DEF KeepsPages, ram
<1>. QED
  BY <1>12, <1>14, <1>19, <1>21, <1>28, <1>29 DEF ram, bm
-----------------------------------------------------------------------------
(* The words of the pages, as their users see them. *)

\* The word at an address of a data page.
WordAt(mem, x) == mem.ram[FrameAt(mem.ram, PageOf(x))][x % PageWords]

\* The addresses of the pages own[h].
Owned(S, own) == {x \in Nat : \E g \in S : PageOf(x) \in own[g]}

SameFrames(mem, mem2, S, own) ==
    \A g \in S : \A p \in own[g] : FrameAt(mem2.ram, p) = FrameAt(mem.ram, p)

SameWords(mem, mem2, S, own) ==
    \A x \in Owned(S, own) : WordAt(mem2, x) = WordAt(mem, x)

\* Pages that keep frame and contents keep their words.
LEMMA KeptWords ==
    ASSUME NEW mem, NEW mem2, NEW S, NEW own, KeepsPages(mem, mem2, S, own)
    PROVE  SameFrames(mem, mem2, S, own) /\ SameWords(mem, mem2, S, own)
BY DEF KeepsPages, SameFrames, SameWords, Owned, WordAt

\* An address of a data page is mapped and read where its page is.
LEMMA OwnedAddress ==
    ASSUME NEW mem, NEW dirs, NEW S, NEW own, Sound(mem, dirs, S, own),
           NEW x \in Owned(S, own)
    PROVE  /\ Mapped(mem, x)
           /\ Translate(mem, x) = <<FrameAt(mem.ram, PageOf(x)), x % PageWords>>
           /\ Read(mem, x) = WordAt(mem, x)
           /\ WordAt(mem, x) \in Nat
           /\ FrameAt(mem.ram, PageOf(x)) \in Frame
           /\ x \in LowAddress /\ x % PageWords \in Offset
<1>. DEFINE f == FrameAt(mem.ram, PageOf(x))
            p == PageOf(x)
<1>1. PICK g \in S : p \in own[g]
  BY DEF Owned
<1>2. p \in LowPages /\ DataPage(mem, DirSet(dirs, S), dirs[g], p)
  BY <1>1 DEF Sound
<1>3. x \in LowAddress
  BY <1>2 DEF LowAddress, Owned
<1>4. mem \in Machines /\ Tables(mem.bitmap, mem.ram, DirSet(dirs, S))
  BY DEF Sound
<1>. HIDE DEF f
<1>5. f \in Frame /\ Present(PdeOf(mem.ram, KernelDir, p))
      /\ PteOf(mem.ram, KernelDir, p) = Entry(f, PAGE_KERNEL)
  BY <1>2, <1>4 DEF DataPage, Machines, f
<1>6. FrameOf(PdeOf(mem.ram, KernelDir, p)) \in Frame
  <2>1. p \div TableEntries \in LowEntries
    BY <1>2, PageSlots DEF LowEntries
  <2>. QED
    BY <1>4, <1>5, <2>1 DEF Tables, PdeOf
<1>7. mem.tlb = NoneCached /\ mem.ram \in Memory
  BY <1>4 DEF Machines
<1>8. Mapped(mem, x) /\ Translate(mem, x) = <<f, x % PageWords>>
  BY <1>3, <1>5, <1>6, <1>7, DataAddress
<1>9. x % PageWords \in Offset
  BY <1>3, Indices
<1>10. Read(mem, x) = mem.ram[f][x % PageWords]
  BY <1>8 DEF Read
<1>11. mem.ram[f][x % PageWords] \in Nat
  BY <1>5, <1>7, <1>9 DEF Memory
<1>. QED
  BY <1>3, <1>5, <1>8, <1>9, <1>10, <1>11 DEF f, WordAt

\* Writes to the frames of data pages, whatever they are, disturb no table.
LEMMA DataWrites ==
    ASSUME NEW mem, NEW dirs, NEW S, NEW own, Sound(mem, dirs, S, own),
           NEW ram2 \in Memory,
           NEW mem2, mem2 = [bitmap |-> mem.bitmap, ram |-> ram2, tlb |-> mem.tlb],
           \A f \in Frame :
              \/ ram2[f] = mem.ram[f]
              \/ \E g \in S : \E p \in own[g] : FrameAt(mem.ram, p) = f
    PROVE  /\ Sound(mem2, dirs, S, own) /\ SameFrames(mem, mem2, S, own)
           /\ \A D \in DirSet(dirs, S) : mem2.ram[D] = mem.ram[D]
<1>. DEFINE Dirs == DirSet(dirs, S)
            ram == mem.ram
<1>1. mem \in Machines /\ Tables(mem.bitmap, ram, Dirs)
  BY DEF Sound
<1>2. mem2 \in Machines /\ mem2.bitmap = mem.bitmap /\ mem2.ram = ram2
  BY <1>1 DEF Machines
<1>. HIDE DEF Dirs, ram
<1>3. ASSUME NEW g \in S, NEW p \in own[g]
      PROVE  /\ FrameAt(ram, p) \notin Dirs /\ ~IsTable(ram, Dirs, FrameAt(ram, p))
             /\ p \in LowPages /\ DataPage(mem, Dirs, dirs[g], p)
             /\ dirs[g] \in Dirs
  BY DEF Sound, DataPage, Dirs, ram, DirSet
<1>4. ASSUME NEW D \in Dirs PROVE ram2[D] = ram[D]
  <2>1. D \in Frame
    BY <1>1 DEF Tables
  <2>. QED
    BY <1>3, <2>1 DEF ram
<1>5. ASSUME NEW D \in Dirs, NEW i \in LowEntries, Present(ram[D][i])
      PROVE  ram2[FrameOf(ram[D][i])] = ram[FrameOf(ram[D][i])]
  <2>1. FrameOf(ram[D][i]) \in Frame
    BY <1>1, <1>5 DEF Tables
  <2>2. IsTable(ram, Dirs, FrameOf(ram[D][i]))
    BY <1>5 DEF IsTable
  <2>. QED
    BY <1>3, <2>1, <2>2 DEF ram
<1>6. \A f : IsTable(ram2, Dirs, f) <=> IsTable(ram, Dirs, f)
  BY <1>4 DEF IsTable
<1>7. Tables(mem.bitmap, ram2, Dirs)
  BY <1>1, <1>4 DEF Tables
<1>8. ASSUME NEW D \in Dirs, NEW p \in LowPages, Present(PdeOf(ram, D, p))
      PROVE  PdeOf(ram2, D, p) = PdeOf(ram, D, p) /\ PteOf(ram2, D, p) = PteOf(ram, D, p)
  <2>1. p \div TableEntries \in LowEntries
    BY PageSlots DEF LowEntries
  <2>. QED
    BY <1>4, <1>5, <1>8, <2>1 DEF PdeOf, PteOf
<1>9. KernelDir \in Dirs
  BY DEF Dirs, DirSet
<1>10. ASSUME NEW g \in S, NEW p \in own[g]
       PROVE  FrameAt(ram2, p) = FrameAt(ram, p) /\ DataPage(mem2, Dirs, dirs[g], p)
  <2>1. Present(PdeOf(ram, dirs[g], p)) /\ Present(PdeOf(ram, KernelDir, p))
    BY <1>3 DEF DataPage, ram
  <2>2. /\ PdeOf(ram2, dirs[g], p) = PdeOf(ram, dirs[g], p)
        /\ PteOf(ram2, dirs[g], p) = PteOf(ram, dirs[g], p)
        /\ PdeOf(ram2, KernelDir, p) = PdeOf(ram, KernelDir, p)
        /\ PteOf(ram2, KernelDir, p) = PteOf(ram, KernelDir, p)
    BY <1>3, <1>8, <1>9, <2>1
  <2>3. FrameAt(ram2, p) = FrameAt(ram, p)
    BY <2>2 DEF FrameAt
  <2>. QED
    BY <1>2, <1>3, <1>6, <2>2, <2>3 DEF DataPage, ram
<1>11. Sound(mem2, dirs, S, own)
  BY <1>2, <1>3, <1>6, <1>7, <1>10 DEF Sound, Dirs, ram
<1>. QED
  BY <1>2, <1>4, <1>10, <1>11 DEF SameFrames, ram, Dirs

\* Two addresses are one when page and offset agree.
LEMMA AddressParts ==
    ASSUME NEW x \in Nat
    PROVE  /\ x = (x % PageWords) + PageWords * PageOf(x)
           /\ PageOf(x) \in Nat /\ x % PageWords \in Offset
<1>1. PageWords \in Nat \ {0}
  BY PagingAssumption
<1>. QED
  BY <1>1, Division DEF PageOf, Offset

\* A store to a data page changes that word and no other.
LEMMA WriteWord ==
    ASSUME NEW mem, NEW dirs, NEW S, NEW own, Sound(mem, dirs, S, own),
           NEW x \in Owned(S, own), NEW v \in Nat,
           NEW mem2, mem2 = Write(mem, x, v)
    PROVE  /\ Sound(mem2, dirs, S, own) /\ SameFrames(mem, mem2, S, own)
           /\ mem2.bitmap = mem.bitmap
           /\ \A D \in DirSet(dirs, S) : mem2.ram[D] = mem.ram[D]
           /\ \A y \in Owned(S, own) :
                 WordAt(mem2, y) = IF y = x THEN v ELSE WordAt(mem, y)
<1>. DEFINE f == FrameAt(mem.ram, PageOf(x))
            o == x % PageWords
            ram2 == [mem.ram EXCEPT ![f][o] = v]
<1>1. Translate(mem, x) = <<f, o>> /\ f \in Frame /\ o \in Offset
  BY OwnedAddress
<1>2. mem \in Machines
  BY DEF Sound
<1>. HIDE DEF f, o
<1>3. mem2 = [bitmap |-> mem.bitmap, ram |-> ram2, tlb |-> mem.tlb]
  BY <1>1, <1>2 DEF Write, Machines
<1>4. ram2 \in Memory /\ (\A e \in Frame : e # f => ram2[e] = mem.ram[e])
      /\ ram2[f] = [mem.ram[f] EXCEPT ![o] = v]
  BY <1>1, <1>2 DEF Machines, Memory
<1>5. PICK g \in S : PageOf(x) \in own[g]
  BY DEF Owned
<1>. HIDE DEF ram2
<1>6. \A e \in Frame : ram2[e] = mem.ram[e]
                       \/ \E h \in S : \E p \in own[h] : FrameAt(mem.ram, p) = e
  BY <1>4, <1>5 DEF f
<1>7. /\ Sound(mem2, dirs, S, own) /\ SameFrames(mem, mem2, S, own)
      /\ \A D \in DirSet(dirs, S) : mem2.ram[D] = mem.ram[D]
  BY <1>3, <1>4, <1>6, DataWrites
<1>8. ASSUME NEW y \in Owned(S, own)
      PROVE  WordAt(mem2, y) = IF y = x THEN v ELSE WordAt(mem, y)
  <2>1. PICK h \in S : PageOf(y) \in own[h]
    BY DEF Owned
  <2>2. FrameAt(mem2.ram, PageOf(y)) = FrameAt(mem.ram, PageOf(y))
    BY <1>7, <2>1 DEF SameFrames
  <2>3. mem2.ram = ram2
    BY <1>3
  <2>4. y % PageWords \in Offset /\ FrameAt(mem.ram, PageOf(y)) \in Frame
    BY OwnedAddress
  <2>5. mem.ram[f] \in [Offset -> Nat]
    BY <1>1, <1>2 DEF Machines, Memory
  <2>6. CASE FrameAt(mem.ram, PageOf(y)) = f
    <3>1. PageOf(y) = PageOf(x)
      BY <1>5, <2>1, <2>6 DEF Sound, f
    <3>2. y = x <=> y % PageWords = o
      <4>1. x \in Nat /\ y \in Nat
        BY DEF Owned
      <4>. QED
        BY <3>1, <4>1, AddressParts DEF o
    <3>3. WordAt(mem2, y) = ram2[f][y % PageWords] /\ WordAt(mem, y) = mem.ram[f][y % PageWords]
      BY <2>2, <2>3, <2>6 DEF WordAt
    <3>. QED
      BY <1>1, <1>4, <2>4, <2>5, <3>2, <3>3
  <2>7. CASE FrameAt(mem.ram, PageOf(y)) # f
    <3>1. y # x
      BY <2>7 DEF f
    <3>. QED
      BY <1>4, <2>2, <2>3, <2>4, <2>7, <3>1 DEF WordAt
  <2>. QED
    BY <2>6, <2>7
<1>. QED
  BY <1>3, <1>7, <1>8

\* One entry of one table is cleared.
LEMMA EntryCleared ==
    ASSUME NEW ram \in Memory, NEW D \in Frame, NEW virt \in LowAddress,
           NEW p, p = PageOf(virt), Present(PdeOf(ram, D, p)),
           NEW t \in Frame, t = FrameOf(PdeOf(ram, D, p)),
           NEW ram2, ram2 = ClearEntry(ram, D, virt)
    PROVE  /\ ram2 \in Memory
           /\ \A i \in Offset : ram2[t][i] = IF i = p % TableEntries THEN 0 ELSE ram[t][i]
           /\ \A f \in Frame : f # t => ram2[f] = ram[f]
<1>. DEFINE r == p % TableEntries
<1>1. p \in LowPages /\ DirIndex(virt) = p \div TableEntries /\ TableIndex(virt) = r
  BY Indices
<1>2. r \in Offset
  BY <1>1, PageSlots
<1>. HIDE DEF r
<1>3. ram2 = [ram EXCEPT ![t][r] = 0]
  BY <1>1, Zenon DEF ClearEntry, PdeOf
<1>4. ram[t] \in [Offset -> Nat]
  BY DEF Memory
<1>5. ram2[t] = [ram[t] EXCEPT ![r] = 0] /\ ram2 \in Memory
      /\ \A f \in Frame : f # t => ram2[f] = ram[f]
  BY <1>2, <1>3 DEF Memory
<1>. QED
  BY <1>2, <1>4, <1>5 DEF r

\* large_unmap_page on a page of a heap: the machine stays sound without the
\* page, its frame and no other is given back, and every other page stays.
LEMMA UnmapSound ==
    ASSUME NumFrames <= AddressableFrames,
           NEW mem, NEW dirs, NEW S, NEW own, Sound(mem, dirs, S, own),
           NEW h \in S, NEW virt \in LowAddress,
           NEW p, p = PageOf(virt),
           NEW mem2, mem2 = UnmapPage(mem, dirs[h], virt),
           NEW own2, PageLeaves(S, own, own2, h, p)
    PROVE  /\ Sound(mem2, dirs, S, own2)
           /\ KeepsPages(mem, mem2, S, own2)
           /\ mem2.bitmap = mem.bitmap \ {FrameAt(mem.ram, p)}
           /\ \A E \in DirSet(dirs, S) : mem2.ram[E] = mem.ram[E]
<1>. USE DEF PageLeaves
<1>. DEFINE Dirs == DirSet(dirs, S)
            D == dirs[h]
            bm == mem.bitmap
            ram == mem.ram
            d == p \div TableEntries
            r == p % TableEntries
            f == FrameAt(ram, p)
            tD == FrameOf(PdeOf(ram, D, p))
            tK == FrameOf(PdeOf(ram, KernelDir, p))
            ram1 == ClearEntry(ram, D, virt)
            ram2 == ClearEntry(ram1, KernelDir, virt)
            bm2 == mem2.bitmap
<1>1. /\ KernelDir \in Dirs /\ D \in Dirs /\ D # KernelDir
      /\ Tables(bm, ram, Dirs) /\ mem \in Machines
  BY DEF Sound, DirSet
<1>2. p \in LowPages /\ DirIndex(virt) = d /\ TableIndex(virt) = r
      /\ d \in LowEntries /\ d \in Offset /\ r \in Offset
  BY Indices, PageSlots DEF LowEntries
<1>3. /\ Present(PdeOf(ram, D, p)) /\ Present(PdeOf(ram, KernelDir, p))
      /\ PteOf(ram, D, p) = Entry(f, PAGE_KERNEL)
      /\ PteOf(ram, KernelDir, p) = Entry(f, PAGE_KERNEL)
      /\ f \in bm \ (Image \cup Dirs) /\ ~IsTable(ram, Dirs, f)
  BY DEF Sound, DataPage
<1>4. bm \in SUBSET Frame /\ ram \in Memory /\ Dirs \subseteq bm
  BY <1>1 DEF Tables
<1>5. tD \in bm \ Dirs /\ tK \in bm \ Dirs /\ tD # tK
      /\ IsTable(ram, Dirs, tD) /\ IsTable(ram, Dirs, tK)
  <2>. HIDE DEF D, Dirs
  <2>. QED
    BY <1>1, <1>2, <1>3 DEF Tables, PdeOf, IsTable
<1>6. f \in Nat /\ f < AddressableFrames
  BY <1>3, <1>4, FrameConstants DEF Frame
<1>7. /\ ram1 \in Memory
      /\ \A i \in Offset : ram1[tD][i] = IF i = r THEN 0 ELSE ram[tD][i]
      /\ \A x \in Frame : x # tD => ram1[x] = ram[x]
  <2>1. tD \in Frame /\ D \in Frame
    BY <1>1, <1>4, <1>5
  <2>2. ram1 = ClearEntry(ram, D, virt) /\ tD = FrameOf(PdeOf(ram, D, p))
    OBVIOUS
  <2>. HIDE DEF tD, ram1, D, ram
  <2>. QED
    BY <1>3, <1>4, <2>1, <2>2, EntryCleared
<1>8. PdeOf(ram1, KernelDir, p) = PdeOf(ram, KernelDir, p)
  <2>1. KernelDir \in Frame /\ KernelDir # tD
    BY <1>1, <1>4, <1>5
  <2>. HIDE DEF ram1, tD
  <2>. QED
    BY <1>7, <2>1 DEF PdeOf
<1>9. /\ ram2 \in Memory
      /\ \A i \in Offset : ram2[tK][i] = IF i = r THEN 0 ELSE ram1[tK][i]
      /\ \A x \in Frame : x # tK => ram2[x] = ram1[x]
  <2>1. tK \in Frame /\ KernelDir \in Frame
    BY <1>1, <1>4, <1>5
  <2>2. ram2 = ClearEntry(ram1, KernelDir, virt) /\ tK = FrameOf(PdeOf(ram, KernelDir, p))
    OBVIOUS
  <2>. HIDE DEF tK, ram1, ram2, ram
  <2>. QED
    BY <1>3, <1>7, <1>8, <2>1, <2>2, EntryCleared
<1>10. mem2 = [bitmap |-> bm \ {f}, ram |-> ram2, tlb |-> NoneCached]
  <2>1. ram1[tK][r] = Entry(f, PAGE_KERNEL)
    <3>1. tK \in Frame /\ tK # tD
      BY <1>4, <1>5
    <3>. HIDE DEF ram1, tD, tK
    <3>2. ram1[tK] = ram[tK]
      BY <1>7, <3>1
    <3>. QED
      BY <1>3, <3>2 DEF PteOf, tK
  <2>2. FrameOf(ram1[tK][r]) = f
    BY <1>6, <2>1, EntryNames
  <2>3. ClearFrame(bm, f) = bm \ {f}
    BY <1>6 DEF ClearFrame
  <2>4. ram1[KernelDir][DirIndex(virt)] = PdeOf(ram, KernelDir, p)
    BY <1>2, <1>8 DEF PdeOf
  <2>. DEFINE tlb == Outdated(mem, virt)
              before == [bitmap |-> bm \ {f}, ram |-> ram2, tlb |-> tlb]
  <2>5. DOMAIN tlb \subseteq {PageOf(virt)}
    BY <1>1 DEF Outdated, Machines, NoneCached
  <2>6. mem2 = Invlpg(before, virt)
    <3>. HIDE DEF ram1, ram2, bm, f, d, r, ram
    <3>. QED
      BY <1>2, <1>3, <2>2, <2>3, <2>4, Zenon DEF UnmapPage, ram1, ram2, bm, ram
  <2>. HIDE DEF tlb, ram2, bm, f
  <2>7. before = [bitmap |-> bm \ {f}, ram |-> ram2, tlb |-> tlb]
    OBVIOUS
  <2>. HIDE DEF before
  <2>. DEFINE b == bm \ {f}
  <2>8. before = [bitmap |-> b, ram |-> ram2, tlb |-> tlb]
    BY <2>7
  <2>. HIDE DEF b
  <2>9. Invlpg(before, virt) = [bitmap |-> b, ram |-> ram2, tlb |-> NoneCached]
    BY <2>5, <2>8, Flushed
  <2>. QED
    BY <2>6, <2>9 DEF b
<1>11. bm2 = bm \ {f} /\ mem2.ram = ram2
  BY <1>10
<1>12. mem2 \in Machines
  BY <1>4, <1>9, <1>10 DEF Machines
<1>. HIDE DEF Dirs, D, bm, ram, f, tD, tK, ram1, ram2, bm2, d
\* the tables
<1>13. ASSUME NEW x \in Frame, x # tD, x # tK PROVE ram2[x] = ram[x]
  BY <1>7, <1>9, <1>13
<1>14. \A E \in Dirs : ram2[E] = ram[E]
  BY <1>4, <1>5, <1>13
<1>15. \A x : IsTable(ram2, Dirs, x) <=> IsTable(ram, Dirs, x)
  BY <1>14 DEF IsTable
<1>16. Tables(bm2, ram2, Dirs)
  <2>1. \A E \in Dirs : \A i \in LowEntries : Present(ram[E][i]) => FrameOf(ram[E][i]) # f
    BY <1>3 DEF IsTable
  <2>. QED
    BY <1>1, <1>3, <1>9, <1>11, <1>14, <2>1 DEF Tables
\* the other pages
<1>17. ASSUME NEW E \in Dirs, NEW q \in LowPages, q # p, Present(PdeOf(ram, E, q))
       PROVE  PdeOf(ram2, E, q) = PdeOf(ram, E, q) /\ PteOf(ram2, E, q) = PteOf(ram, E, q)
  <2>. DEFINE i == q \div TableEntries
              s == q % TableEntries
              t == FrameOf(PdeOf(ram, E, q))
  <2>1. i \in LowEntries /\ s \in Offset
    BY PageSlots DEF LowEntries
  <2>2. PdeOf(ram2, E, q) = PdeOf(ram, E, q)
    BY <1>14 DEF PdeOf
  <2>3. t \in Frame
    BY <1>1, <1>4, <1>17, <2>1 DEF Tables, PdeOf
  <2>4. (t = tD => i = d) /\ (t = tK => i = d)
    BY <1>1, <1>2, <1>3, <1>17, <2>1 DEF Tables, PdeOf, tD, tK, d
  <2>5. t = tD \/ t = tK => s # r
    BY <1>2, <1>17, <2>4, SlotsDiffer DEF d
  <2>. HIDE DEF t, i, s
  <2>6. ram2[t][s] = ram[t][s]
    <3>1. CASE t = tD
      BY <1>4, <1>5, <1>7, <1>9, <2>1, <2>3, <2>5, <3>1
    <3>2. CASE t = tK
      BY <1>4, <1>5, <1>7, <1>9, <2>1, <2>3, <2>5, <3>2
    <3>. QED
      BY <1>13, <2>3, <3>1, <3>2
  <2>. QED
    BY <2>2, <2>6 DEF PteOf, t, s
<1>18. ASSUME NEW g \in S, NEW q \in own2[g]
       PROVE  /\ q \in own[g] /\ q \in LowPages /\ q # p
              /\ DataPage(mem2, Dirs, dirs[g], q)
              /\ FrameAt(ram2, q) = FrameAt(ram, q)
              /\ ram2[FrameAt(ram, q)] = ram[FrameAt(ram, q)]
  <2>1. q \in own[g] /\ q # p
    <3>1. CASE g = h
      BY <3>1
    <3>2. CASE g # h
      BY <3>2 DEF Sound
    <3>. QED
      BY <3>1, <3>2
  <2>2. q \in LowPages /\ DataPage(mem, Dirs, dirs[g], q) /\ dirs[g] \in Dirs
    BY <2>1 DEF Sound, Dirs, DirSet
  <2>3. FrameAt(ram, q) # f
    BY <2>1 DEF Sound, f, ram
  <2>4. /\ Present(PdeOf(ram, dirs[g], q)) /\ Present(PdeOf(ram, KernelDir, q))
        /\ PteOf(ram, dirs[g], q) = Entry(FrameAt(ram, q), PAGE_KERNEL)
        /\ PteOf(ram, KernelDir, q) = Entry(FrameAt(ram, q), PAGE_KERNEL)
        /\ FrameAt(ram, q) \in bm \ (Image \cup Dirs)
        /\ ~IsTable(ram, Dirs, FrameAt(ram, q))
    BY <2>2 DEF DataPage, ram, bm
  <2>5. /\ PdeOf(ram2, dirs[g], q) = PdeOf(ram, dirs[g], q)
        /\ PteOf(ram2, dirs[g], q) = PteOf(ram, dirs[g], q)
        /\ PdeOf(ram2, KernelDir, q) = PdeOf(ram, KernelDir, q)
        /\ PteOf(ram2, KernelDir, q) = PteOf(ram, KernelDir, q)
    BY <1>1, <1>17, <2>1, <2>2, <2>4
  <2>6. FrameAt(ram2, q) = FrameAt(ram, q)
    BY <2>5 DEF FrameAt
  <2>7. ram2[FrameAt(ram, q)] = ram[FrameAt(ram, q)]
    BY <1>4, <1>5, <1>13, <2>4
  <2>8. DataPage(mem2, Dirs, dirs[g], q)
    BY <1>11, <1>15, <2>3, <2>4, <2>5, <2>6 DEF DataPage, bm2
  <2>. QED
    BY <2>1, <2>2, <2>6, <2>7, <2>8
<1>19. ASSUME NEW x \in bm2
       PROVE  \/ x \in Image \cup Dirs
              \/ IsTable(ram2, Dirs, x)
              \/ \E g \in S : \E q \in own2[g] : FrameAt(ram2, q) = x
  <2>1. \/ x \in Image \cup Dirs
        \/ IsTable(ram, Dirs, x)
        \/ \E g \in S : \E q \in own[g] : FrameAt(ram, q) = x
    BY <1>11 DEF Sound, Dirs, bm, ram
  <2>2. ASSUME NEW g \in S, NEW q \in own[g], FrameAt(ram, q) = x
        PROVE  \E g2 \in S : \E q2 \in own2[g2] : FrameAt(ram2, q2) = x
    <3>1. q # p
      BY <1>11, <2>2 DEF f
    <3>2. q \in own2[g]
      BY <3>1
    <3>. QED
      BY <1>18, <2>2, <3>2
  <2>. QED
    BY <1>15, <2>1, <2>2
<1>20. Sound(mem2, dirs, S, own2)
  <2>1. \A a, b \in S : \A q \in own2[a] : q \in own2[b] => a = b
    BY <1>18 DEF Sound
  <2>2. \A a, b \in S : \A q \in own2[a], s \in own2[b] :
           FrameAt(ram2, q) = FrameAt(ram2, s) => q = s
    BY <1>18 DEF Sound, ram
  <2>3. (\A a \in S : dirs[a] # KernelDir) /\ (\A a, b \in S : dirs[a] = dirs[b] => a = b)
    BY DEF Sound
  <2>. QED
    BY <1>11, <1>12, <1>16, <1>18, <1>19, <2>1, <2>2, <2>3 DEF Sound, Dirs, bm2
<1>21. KeepsPages(mem, mem2, S, own2)
  BY <1>11, <1>18 DEF KeepsPages, ram
<1>. QED
  BY <1>11, <1>14, <1>20, <1>21 DEF bm, f, ram, bm2, Dirs

\* Heap h gets the directory f and has no pages yet.
HeapJoins(S, dirs, dir2, own, own2, h, f) ==
    /\ \A g \in S \cup {h} : dir2[g] = IF g = h THEN f ELSE dirs[g]
    /\ \A g \in S \cup {h} : own2[g] = IF g = h THEN {} ELSE own[g]

\* A new heap's directory.
LEMMA NewDirectorySound ==
    ASSUME NumFrames <= AddressableFrames,
           NEW mem, NEW dirs, NEW S, NEW own, Sound(mem, dirs, S, own),
           NEW h, h \notin S,
           NEW f, f = NextKernelFrame(mem.bitmap), f # NoFrame,
           NEW mem2, mem2 = NewDirectory(mem, f),
           NEW dir2, NEW own2, HeapJoins(S, dirs, dir2, own, own2, h, f)
    PROVE  Sound(mem2, dir2, S \cup {h}, own2) /\ KeepsPages(mem, mem2, S, own)
           /\ f \in Frame
<1>. USE DEF HeapJoins
<1>. DEFINE Dirs == DirSet(dirs, S)
            bm == mem.bitmap
            ram == mem.ram
            Dirs2 == DirSet(dir2, S \cup {h})
            bm2 == mem2.bitmap
            ram2 == mem2.ram
<1>1. KernelDir \in Dirs /\ Tables(bm, ram, Dirs) /\ mem \in Machines
  BY DEF Sound, DirSet
<1>2. bm \in SUBSET Frame /\ ram \in Memory /\ Dirs \subseteq bm /\ Image \subseteq bm
  BY <1>1 DEF Tables
<1>3. f \in Frame \ (bm \cup Image)
  BY <1>2, KernelFrameFound
<1>4. f \in Nat /\ f < AddressableFrames
  BY <1>3, FrameConstants DEF Frame
<1>5. Mark(bm, f) = bm \cup {f}
  BY <1>4 DEF Mark, SetFrame
<1>6. mem2 = [bitmap |-> bm \cup {f},
              ram |-> [ram EXCEPT ![f] = [i \in Offset |-> IF i < KernelEntry THEN 0
                                                           ELSE ram[KernelDir][i]]],
              tlb |-> NoneCached]
  BY <1>1, <1>5 DEF NewDirectory, Machines
<1>7. bm2 = bm \cup {f} /\ mem2.tlb = NoneCached
      /\ ram2 = [ram EXCEPT ![f] = [i \in Offset |-> IF i < KernelEntry THEN 0
                                                    ELSE ram[KernelDir][i]]]
  BY <1>6
<1>8. Dirs2 = Dirs \cup {f}
  BY DEF DirSet
<1>. HIDE DEF Dirs, bm, ram, Dirs2, bm2, ram2
<1>9. KernelDir \in Frame
  BY <1>1, <1>2
<1>10. /\ ram2 \in Memory /\ (\A x \in Frame : x # f => ram2[x] = ram[x])
       /\ \A i \in LowEntries : ram2[f][i] = 0
  <2>1. \A i \in Offset : ram[KernelDir][i] \in Nat
    BY <1>2, <1>9 DEF Memory
  <2>2. ram2 \in Memory /\ (\A x \in Frame : x # f => ram2[x] = ram[x])
    BY <1>2, <1>3, <1>7, <2>1 DEF Memory
  <2>3. \A i \in LowEntries : i \in Offset /\ i < KernelEntry
    BY PagingAssumption DEF LowEntries, Offset
  <2>. QED
    BY <1>2, <1>3, <1>7, <2>2, <2>3 DEF Memory
<1>11. ~Present(0)
  BY DEF Present
<1>12. \A D \in Dirs : ram2[D] = ram[D] /\ D # f
  BY <1>2, <1>3, <1>10
<1>13. ASSUME NEW D \in Dirs2, NEW i \in LowEntries, Present(ram2[D][i])
       PROVE  D \in Dirs /\ D # f /\ ram2[D][i] = ram[D][i]
  BY <1>8, <1>10, <1>11, <1>12, <1>13
<1>14. \A x : IsTable(ram2, Dirs2, x) <=> IsTable(ram, Dirs, x)
  BY <1>8, <1>12, <1>13 DEF IsTable
<1>15. Tables(bm2, ram2, Dirs2)
  <2>1. \A D \in Dirs2 : \A i \in LowEntries : Present(ram2[D][i]) =>
          /\ FrameOf(ram2[D][i]) \in bm2 \ Dirs2
          /\ FrameOf(ram2[D][i]) \in Image =>
                D = KernelDir /\ i = 0 /\ FrameOf(ram2[D][i]) = KernelTable
    BY <1>1, <1>3, <1>7, <1>8, <1>13 DEF Tables
  <2>2. \A D, E \in Dirs2 : \A i, j \in LowEntries :
          Present(ram2[D][i]) /\ Present(ram2[E][j])
          /\ FrameOf(ram2[D][i]) = FrameOf(ram2[E][j]) => D = E /\ i = j
    BY <1>1, <1>13 DEF Tables
  <2>3. \A D \in Dirs2 : D \in Image => D = KernelDir
    BY <1>1, <1>3, <1>8 DEF Tables
  <2>. QED
    BY <1>1, <1>2, <1>3, <1>7, <1>8, <1>10, <2>1, <2>2, <2>3 DEF Tables
<1>16. ASSUME NEW D \in Dirs, NEW q \in LowPages, Present(PdeOf(ram, D, q))
       PROVE  PdeOf(ram2, D, q) = PdeOf(ram, D, q) /\ PteOf(ram2, D, q) = PteOf(ram, D, q)
  <2>1. q \div TableEntries \in LowEntries
    BY PageSlots DEF LowEntries
  <2>2. FrameOf(PdeOf(ram, D, q)) \in bm
    BY <1>1, <1>16, <2>1 DEF Tables, PdeOf
  <2>3. PdeOf(ram2, D, q) = PdeOf(ram, D, q)
    BY <1>12 DEF PdeOf
  <2>4. ram2[FrameOf(PdeOf(ram, D, q))] = ram[FrameOf(PdeOf(ram, D, q))]
    BY <1>2, <1>3, <1>10, <2>2
  <2>. QED
    BY <2>3, <2>4 DEF PteOf
<1>17. ASSUME NEW g \in S, NEW q \in own[g]
       PROVE  /\ q \in LowPages
              /\ DataPage(mem2, Dirs2, dir2[g], q)
              /\ FrameAt(ram2, q) = FrameAt(ram, q)
              /\ ram2[FrameAt(ram, q)] = ram[FrameAt(ram, q)]
  <2>1. dir2[g] = dirs[g]
    OBVIOUS
  <2>2. q \in LowPages /\ DataPage(mem, Dirs, dirs[g], q) /\ dirs[g] \in Dirs
    BY DEF Sound, Dirs, DirSet
  <2>3. /\ Present(PdeOf(ram, dirs[g], q)) /\ Present(PdeOf(ram, KernelDir, q))
        /\ PteOf(ram, dirs[g], q) = Entry(FrameAt(ram, q), PAGE_KERNEL)
        /\ PteOf(ram, KernelDir, q) = Entry(FrameAt(ram, q), PAGE_KERNEL)
        /\ FrameAt(ram, q) \in bm \ (Image \cup Dirs)
        /\ ~IsTable(ram, Dirs, FrameAt(ram, q))
    BY <2>2 DEF DataPage, ram, bm
  <2>4. /\ PdeOf(ram2, dirs[g], q) = PdeOf(ram, dirs[g], q)
        /\ PteOf(ram2, dirs[g], q) = PteOf(ram, dirs[g], q)
        /\ PdeOf(ram2, KernelDir, q) = PdeOf(ram, KernelDir, q)
        /\ PteOf(ram2, KernelDir, q) = PteOf(ram, KernelDir, q)
    BY <1>1, <1>16, <2>2, <2>3
  <2>5. FrameAt(ram2, q) = FrameAt(ram, q)
    BY <2>4 DEF FrameAt
  <2>6. ram2[FrameAt(ram, q)] = ram[FrameAt(ram, q)] /\ FrameAt(ram, q) # f
    BY <1>2, <1>3, <1>10, <2>3
  <2>7. FrameAt(ram, q) \in bm2 \ (Image \cup Dirs2)
    BY <1>7, <1>8, <2>3, <2>6
  <2>8. DataPage(mem2, Dirs2, dirs[g], q)
    BY <1>14, <2>3, <2>4, <2>5, <2>7 DEF DataPage, ram2, bm2
  <2>. QED
    BY <2>1, <2>2, <2>5, <2>6, <2>8
<1>18. \A g \in S \cup {h} : \A q \in own2[g] : g \in S /\ q \in own[g]
  OBVIOUS
<1>19. ASSUME NEW x \in bm2
       PROVE  \/ x \in Image \cup Dirs2
              \/ IsTable(ram2, Dirs2, x)
              \/ \E g \in S \cup {h} : \E q \in own2[g] : FrameAt(ram2, q) = x
  <2>1. CASE x = f
    BY <1>8, <2>1
  <2>2. CASE x \in bm
    <3>1. \/ x \in Image \cup Dirs
          \/ IsTable(ram, Dirs, x)
          \/ \E g \in S : \E q \in own[g] : FrameAt(ram, q) = x
      BY <2>2 DEF Sound, Dirs, bm, ram
    <3>2. ASSUME NEW g \in S, NEW q \in own[g], FrameAt(ram, q) = x
          PROVE  \E g2 \in S \cup {h} : \E q2 \in own2[g2] : FrameAt(ram2, q2) = x
      <4>1. q \in own2[g] /\ g \in S \cup {h} /\ FrameAt(ram2, q) = x
        BY <1>17, <3>2
      <4>. QED
        BY <4>1
    <3>. QED
      BY <1>8, <1>14, <3>1, <3>2
  <2>. QED
    BY <1>7, <2>1, <2>2
<1>20. mem2 \in Machines
  BY <1>3, <1>2, <1>6, <1>7, <1>10 DEF Machines, ram2, bm2
<1>21. (\A a \in S \cup {h} : dir2[a] # KernelDir)
       /\ (\A a, b \in S \cup {h} : dir2[a] = dir2[b] => a = b)
  <2>1. \A a \in S : dirs[a] \in Dirs /\ dirs[a] # f
    BY <1>12 DEF Dirs, DirSet
  <2>2. f # KernelDir
    BY <1>1, <1>12
  <2>. QED
    BY <2>1, <2>2 DEF Sound
<1>22. (\A a, b \in S \cup {h} : \A q \in own2[a] : q \in own2[b] => a = b)
  BY <1>18 DEF Sound
<1>23. \A a, b \in S \cup {h} : \A q \in own2[a], s \in own2[b] :
          FrameAt(ram2, q) = FrameAt(ram2, s) => q = s
  BY <1>17, <1>18 DEF Sound, ram
<1>24. Sound(mem2, dir2, S \cup {h}, own2)
  BY <1>15, <1>17, <1>18, <1>19, <1>20, <1>21, <1>22, <1>23 DEF Sound, Dirs2, ram2, bm2
<1>. QED
  BY <1>3, <1>17, <1>24 DEF KeepsPages, ram, ram2

-----------------------------------------------------------------------------
(* Addresses. *)

\* Page and offset of an address put together from them.
LEMMA AddressAt ==
    ASSUME NEW q \in Nat, NEW o \in Offset, NEW x, x = o + PageWords * q
    PROVE  x \in Nat /\ PageOf(x) = q /\ x % PageWords = o
<1>1. PageWords \in Nat \ {0} /\ o \in 0 .. PageWords - 1 /\ o \in Nat
  BY PagingAssumption DEF Offset
<1>2. x \in Nat
  BY <1>1
<1>. QED
  BY <1>1, <1>2, QuotientUnique DEF PageOf

\* Moving within a page.
LEMMA WithinPage ==
    ASSUME NEW x \in Nat, NEW o \in Nat, (x % PageWords) + o < PageWords
    PROVE  PageOf(x + o) = PageOf(x) /\ (x + o) % PageWords = (x % PageWords) + o
<1>. DEFINE q == PageOf(x)
            e == (x % PageWords) + o
<1>1. /\ x = (x % PageWords) + PageWords * q /\ q \in Nat
      /\ x % PageWords \in Offset
  BY AddressParts
<1>2. e \in Offset /\ x + o = e + PageWords * q
  BY <1>1, PagingAssumption DEF Offset
<1>. HIDE DEF q, e
<1>3. PageOf(x + o) = q /\ (x + o) % PageWords = e
  BY <1>1, <1>2, AddressAt
<1>. QED
  BY <1>3 DEF q, e

\* Moving by whole pages.
LEMMA ByPages ==
    ASSUME NEW x \in Nat, NEW i \in Nat
    PROVE  /\ x + i * PageWords \in Nat
           /\ PageOf(x + i * PageWords) = PageOf(x) + i
           /\ (x + i * PageWords) % PageWords = x % PageWords
<1>. DEFINE q == PageOf(x)
            e == x % PageWords
<1>1. x = e + PageWords * q /\ q \in Nat /\ e \in Offset /\ PageWords \in Nat
  BY AddressParts, PagingAssumption
<1>. HIDE DEF q, e
<1>2. PageWords * (q + i) = PageWords * q + i * PageWords
  BY <1>1
<1>3. x + i * PageWords = e + PageWords * (q + i)
  BY <1>1, <1>2 DEF Offset
<1>. DEFINE y == x + i * PageWords
            r == q + i
<1>4. y = e + PageWords * r /\ r \in Nat
  BY <1>1, <1>3
<1>. HIDE DEF y, r
<1>5. PageOf(y) = r /\ y % PageWords = e /\ y \in Nat
  BY <1>1, <1>4, AddressAt
<1>. QED
  BY <1>5 DEF q, e, y, r

\* The start of a page is below an address when the page is not above its.
LEMMA PageOrder ==
    ASSUME NEW x \in Nat, NEW y \in Nat, y % PageWords = 0
    PROVE  (y <= x) <=> (PageOf(y) <= PageOf(x))
<1>. DEFINE q == PageOf(x)
            r == PageOf(y)
            e == x % PageWords
<1>a. /\ x = e + PageWords * q /\ q \in Nat /\ e \in Offset
      /\ y = 0 + PageWords * r /\ r \in Nat /\ PageWords \in Nat
  BY AddressParts, PagingAssumption
<1>. HIDE DEF q, r, e
<1>1. /\ x = e + PageWords * q /\ q \in Nat /\ e \in 0 .. PageWords - 1
      /\ y = PageWords * r /\ r \in Nat /\ PageWords \in Nat
  BY <1>a DEF Offset
<1>2. CASE r <= q
  <2>1. PageWords * r <= PageWords * q
    BY <1>1, <1>2, ProductMonotone
  <2>. QED
    BY <1>1, <1>2, <2>1 DEF q, r
<1>3. CASE q + 1 <= r
  <2>1. PageWords * (q + 1) <= PageWords * r /\ PageWords * (q + 1) = PageWords * q + PageWords
    BY <1>1, <1>3, ProductMonotone
  <2>2. PageWords * q \in Int /\ PageWords * r \in Int
    BY <1>1
  <2>3. x < y
    BY <1>1, <2>1, <2>2
  <2>. QED
    BY <1>1, <1>3, <2>3 DEF q, r
<1>. QED
  BY <1>1, <1>2, <1>3

-----------------------------------------------------------------------------
(* Regions. *)

\* The first page of a heap's region, and the page behind what it may use.
BasePage(h) == h * RegionPages
RegionEnd(h) == IF h = Large THEN BasePage(Large) + MaxLargePages ELSE BasePage(h + 1)

\* The constants as numbers.
LEMMA HeapNumbers ==
    /\ Len(ClassSize) \in Nat \ {0} /\ Large \in Nat /\ Large \notin Domains
    /\ Heaps = 1 .. Large /\ Domains = 1 .. Large - 1
    /\ RegionPages \in Nat \ {0} /\ MaxLargePages \in Nat /\ PageWords \in Nat \ {0}
    /\ PageWords >= 4
    /\ \A d \in Domains : ClassSize[d] \in Nat \ {0}
<1>1. ClassSize \in Seq(Nat \ {0}) /\ ClassSize # <<>>
  BY HeapAssumption
<1>2. Len(ClassSize) \in Nat \ {0} /\ \A d \in Domains : ClassSize[d] \in Nat \ {0}
  BY <1>1, ElementOfSeq, LenProperties, EmptySeq DEF Domains
<1>. QED
  BY <1>2, HeapAssumption, PagingAssumption DEF Large, Domains, Heaps

\* A region starts at a page.
LEMMA BaseIsPage ==
    ASSUME NEW h \in Nat
    PROVE  /\ Base(h) \in Nat /\ PageOf(Base(h)) = BasePage(h)
           /\ Base(h) % PageWords = 0 /\ BasePage(h) \in Nat
<1>1. RegionPages \in Nat /\ PageWords \in Nat /\ 0 \in Offset
  BY HeapNumbers DEF Offset
<1>2. BasePage(h) \in Nat
  BY <1>1 DEF BasePage
<1>3. Base(h) = 0 + PageWords * BasePage(h)
  BY <1>1 DEF Base, BasePage
<1>. QED
  BY <1>1, <1>2, <1>3, AddressAt

\* Regions follow one another, the first is not at page 0, and the last ends
\* below the kernel half.
LEMMA RegionOrder ==
    ASSUME NEW g \in Heaps, NEW h \in Heaps, g < h
    PROVE  RegionEnd(g) <= BasePage(h)
<1>1. g \in Nat /\ h \in Nat /\ g # Large /\ g + 1 <= h /\ RegionPages \in Nat
  BY HeapNumbers
<1>2. RegionPages * (g + 1) <= RegionPages * h
  BY <1>1, ProductMonotone
<1>. QED
  BY <1>1, <1>2 DEF RegionEnd, BasePage

\* A page of a region is below the kernel half, and not page 0.
LEMMA RegionLow ==
    ASSUME NEW h \in Heaps, NEW p \in Int, BasePage(h) <= p, p < RegionEnd(h)
    PROVE  p \in LowPages /\ p > 0 /\ p < BasePage(Large) + MaxLargePages
<1>1. h \in Nat /\ h >= 1 /\ h <= Large /\ Large \in Nat /\ RegionPages \in Nat \ {0}
  BY HeapNumbers
<1>2. RegionPages * 1 <= RegionPages * h
  BY <1>1, ProductMonotone
<1>3. p > 0
  BY <1>1, <1>2 DEF BasePage
<1>4. RegionEnd(h) <= BasePage(Large) + MaxLargePages
  <2>1. CASE h = Large
    BY <2>1, <1>1, HeapNumbers DEF RegionEnd, BasePage
  <2>2. CASE h # Large
    <3>1. RegionPages * (h + 1) <= RegionPages * Large
      BY <1>1, <2>2, ProductMonotone
    <3>. QED
      BY <1>1, <2>2, <3>1, HeapNumbers DEF RegionEnd, BasePage
  <2>. QED
    BY <2>1, <2>2
<1>5. BasePage(Large) + MaxLargePages <= KernelEntry * TableEntries
  BY HeapAssumption DEF BasePage
<1>6. RegionEnd(h) \in Int /\ BasePage(Large) + MaxLargePages \in Int
      /\ KernelEntry * TableEntries \in Int
  BY <1>1, HeapNumbers, PagingAssumption DEF RegionEnd, BasePage
<1>. QED
  BY <1>3, <1>4, <1>5, <1>6 DEF LowPages

\* An address below the end of the regions is one of 32 bits.
LEMMA LowIsWord ==
    ASSUME NEW x \in Nat, NEW q \in LowPages, PageOf(x) <= q + 1
    PROVE  x \in Word
<1>. DEFINE n == KernelEntry * TableEntries
            e == x % PageWords
            p == PageOf(x)
<1>1. /\ PageWords \in Nat \ {0} /\ TableEntries \in Nat \ {0}
      /\ KernelEntry \in Nat /\ KernelEntry + 1 <= PageWords
  BY PagingAssumption
<1>a. x = e + PageWords * p /\ e \in Offset /\ p \in Nat /\ p <= q + 1
  BY AddressParts
<1>. HIDE DEF e, p
<1>2. n \in Nat /\ x = e + PageWords * p /\ e \in 0 .. PageWords - 1 /\ p \in Nat
      /\ p <= n
  BY <1>1, <1>a DEF LowPages, Offset
<1>3. TableEntries * (KernelEntry + 1) <= TableEntries * PageWords
      /\ TableEntries * (KernelEntry + 1) = n + TableEntries
  BY <1>1, ProductMonotone
<1>4. p + 1 <= TableEntries * PageWords /\ TableEntries * PageWords \in Nat
  BY <1>1, <1>2, <1>3
<1>. HIDE DEF n
<1>5. PageWords * (p + 1) <= PageWords * (TableEntries * PageWords)
      /\ PageWords * (p + 1) = PageWords * p + PageWords
  BY <1>1, <1>2, <1>4, ProductMonotone
<1>6. PageWords * (TableEntries * PageWords) = AddressLimit
  BY <1>1 DEF AddressLimit
<1>7. x < AddressLimit /\ AddressLimit \in Int
  BY <1>1, <1>2, <1>5, <1>6 DEF AddressLimit
<1>. QED
  BY <1>7 DEF Word

-----------------------------------------------------------------------------
(* Blocks. *)

BlocksPerPage(d) == PageWords \div ClassSize[d]

\* A page is cut into blocks without remainder.
LEMMA PageDivided ==
    ASSUME NEW d \in Domains
    PROVE  /\ ClassSize[d] \in Nat \ {0} /\ BlocksPerPage(d) \in Nat \ {0}
           /\ PageWords = ClassSize[d] * BlocksPerPage(d)
<1>1. ClassSize[d] \in Nat \ {0} /\ PageWords \in Nat \ {0} /\ PageWords % ClassSize[d] = 0
  BY HeapNumbers, HeapAssumption
<1>2. BlocksPerPage(d) \in Nat /\ PageWords = 0 + ClassSize[d] * BlocksPerPage(d)
  BY <1>1, Division DEF BlocksPerPage
<1>3. BlocksPerPage(d) # 0
  <2>. SUFFICES ASSUME BlocksPerPage(d) = 0 PROVE FALSE
    OBVIOUS
  <2>. QED
    BY <1>1, <1>2
<1>. QED
  BY <1>1, <1>2, <1>3

\* An address where a block of a page starts.
BlockStart(d, w) == (w % PageWords) % ClassSize[d] = 0

\* A block lies in one page, and each of its words tells where it starts.
LEMMA BlockPlace ==
    ASSUME NEW d \in Domains, NEW w \in Nat, BlockStart(d, w),
           NEW j \in 0 .. ClassSize[d] - 1
    PROVE  /\ (w % PageWords) + ClassSize[d] <= PageWords
           /\ PageOf(w + j) = PageOf(w)
           /\ (w + j) % PageWords = (w % PageWords) + j
           /\ ((w + j) % PageWords) % ClassSize[d] = j
<1>. DEFINE b == ClassSize[d]
            n == BlocksPerPage(d)
            o == w % PageWords
            q == o \div b
<1>1. b \in Nat \ {0} /\ n \in Nat \ {0} /\ PageWords = b * n /\ PageWords \in Nat
  BY PageDivided, HeapNumbers
<1>2. o \in 0 .. PageWords - 1 /\ o \in Nat
  BY <1>1, AddressParts DEF Offset
<1>3. o % b = 0
  BY DEF BlockStart
<1>. HIDE DEF o
<1>4. q \in Nat /\ o = b * q
  <2>1. q \in Nat /\ o = (o % b) + b * q
    BY <1>1, <1>2, Division
  <2>. QED
    BY <1>1, <1>3, <2>1
<1>. HIDE DEF b, n, q
<1>5. q + 1 <= n
  <2>. SUFFICES ASSUME n <= q PROVE FALSE
    BY <1>1, <1>4
  <2>1. b * n <= b * q
    BY <1>1, <1>4, ProductMonotone
  <2>. QED
    BY <1>1, <1>2, <1>4, <2>1
<1>6. b * (q + 1) <= b * n /\ b * (q + 1) = b * q + b
  BY <1>1, <1>4, <1>5, ProductMonotone
<1>7. o + b <= PageWords
  BY <1>1, <1>4, <1>6
<1>8. j \in Nat /\ j \in 0 .. b - 1 /\ o + j < PageWords
  BY <1>1, <1>2, <1>7 DEF b
<1>9. PageOf(w + j) = PageOf(w) /\ (w + j) % PageWords = o + j
  BY <1>8, WithinPage DEF o
<1>10. (o + j) % b = j
  <2>1. o + j \in Nat /\ o + j = j + b * q
    BY <1>2, <1>4, <1>8
  <2>. DEFINE x == o + j
  <2>. HIDE DEF x
  <2>2. x \in Nat /\ x = j + b * q
    BY <2>1 DEF x
  <2>3. x % b = j
    BY <1>1, <1>4, <1>8, <2>2, QuotientUnique
  <2>. QED
    BY <2>3 DEF x
<1>. QED
  BY <1>7, <1>9, <1>10 DEF o, b

\* The blocks of a page.
PageStarts(d, virt) == {y \in Nat : PageOf(y) = PageOf(virt) /\ BlockStart(d, y)}

\* They are numbered.
LEMMA PageBlocks ==
    ASSUME NEW d \in Domains, NEW virt \in Nat, virt % PageWords = 0,
           NEW j \in 0 .. BlocksPerPage(d) - 1,
           NEW w, w = virt + j * ClassSize[d]
    PROVE  /\ w \in Nat /\ PageOf(w) = PageOf(virt) /\ BlockStart(d, w)
           /\ w % PageWords = j * ClassSize[d]
           /\ ((w % PageWords) + ClassSize[d] = PageWords) <=> (j = BlocksPerPage(d) - 1)
<1>. DEFINE b == ClassSize[d]
            n == BlocksPerPage(d)
            o == j * b
<1>1. b \in Nat \ {0} /\ n \in Nat \ {0} /\ PageWords = b * n /\ PageWords \in Nat
      /\ j \in Nat
  BY PageDivided, HeapNumbers
<1>2. j + 1 <= n
  BY <1>1
<1>. HIDE DEF b, n
<1>3. b * (j + 1) <= b * n /\ b * (j + 1) = o + b /\ o \in Nat
  BY <1>1, <1>2, ProductMonotone
<1>4. 0 + o < PageWords /\ o = 0 + b * j
  BY <1>1, <1>3
<1>. HIDE DEF o
<1>5. w = virt + o
  BY DEF o, b
<1>6. PageOf(w) = PageOf(virt) /\ w % PageWords = o
  BY <1>3, <1>4, <1>5, WithinPage
<1>7. o % b = 0
  <2>1. 0 \in 0 .. b - 1
    BY <1>1
  <2>. QED
    BY <1>1, <1>3, <1>4, <2>1, QuotientUnique
<1>8. (o + b = PageWords) <=> (j = n - 1)
  <2>1. ASSUME o + b = PageWords PROVE j = n - 1
    <3>. SUFFICES ASSUME j + 2 <= n PROVE FALSE
      BY <1>1, <1>2
    <3>1. b * (j + 2) <= b * n /\ b * (j + 2) = o + b + b
      BY <1>1, ProductMonotone DEF o
    <3>. QED
      BY <1>1, <1>3, <2>1, <3>1
  <2>2. ASSUME j = n - 1 PROVE o + b = PageWords
    BY <1>1, <1>3, <2>2
  <2>. QED
    BY <2>1, <2>2
<1>. QED
  BY <1>3, <1>5, <1>6, <1>7, <1>8 DEF BlockStart, o, b, n

\* And there are no others.
LEMMA BlockNumber ==
    ASSUME NEW d \in Domains, NEW virt \in Nat, virt % PageWords = 0,
           NEW w \in Nat, PageOf(w) = PageOf(virt), BlockStart(d, w)
    PROVE  \E j \in 0 .. BlocksPerPage(d) - 1 : w = virt + j * ClassSize[d]
<1>. DEFINE b == ClassSize[d]
            n == BlocksPerPage(d)
            o == w % PageWords
            q == o \div b
<1>1. b \in Nat \ {0} /\ n \in Nat \ {0} /\ PageWords = b * n /\ PageWords \in Nat
  BY PageDivided, HeapNumbers
<1>2. o \in 0 .. PageWords - 1 /\ w = o + PageWords * PageOf(w)
      /\ virt = 0 + PageWords * PageOf(virt) /\ PageOf(w) \in Nat
  BY <1>1, AddressParts DEF Offset
<1>3. o % b = 0
  BY DEF BlockStart
<1>a. o \in Nat
  BY <1>1, <1>2
<1>. HIDE DEF o
<1>4. q \in Nat /\ o = b * q
  <2>1. q \in Nat /\ o = (o % b) + b * q
    BY <1>1, <1>a, Division
  <2>. QED
    BY <1>1, <1>3, <2>1
<1>. HIDE DEF b, n, q
<1>5. q + 1 <= n
  <2>. SUFFICES ASSUME n <= q PROVE FALSE
    BY <1>1, <1>4
  <2>1. b * n <= b * q
    BY <1>1, <1>4, ProductMonotone
  <2>. QED
    BY <1>1, <1>2, <1>4, <2>1
<1>6. w = virt + q * b
  BY <1>1, <1>2, <1>4
<1>7. q \in 0 .. n - 1
  BY <1>1, <1>4, <1>5
<1>. QED
  BY <1>6, <1>7 DEF b, n

-----------------------------------------------------------------------------
(* Linked lists, as the stack of their members: stk[1] is the last one. *)

Members(stk, n) == {stk[k] : k \in 1 .. n}

IsList(mem, first, stk, n) ==
    /\ n \in Nat /\ stk \in [Nat -> Nat]
    /\ first = IF n = 0 THEN NULL ELSE stk[n]
    /\ \A k \in 1 .. n :
          stk[k] # NULL /\ WordAt(mem, stk[k]) = IF k = 1 THEN NULL ELSE stk[k - 1]
    /\ \A j, k \in 1 .. n : stk[j] = stk[k] => j = k

\* A list whose words stay is the same list.
LEMMA ListKept ==
    ASSUME NEW mem, NEW mem2, NEW first, NEW stk, NEW n, IsList(mem, first, stk, n),
           \A x \in Members(stk, n) : WordAt(mem2, x) = WordAt(mem, x)
    PROVE  IsList(mem2, first, stk, n)
BY DEF IsList, Members

\* A list without its first member.
Popped(mem, first, stk, n) ==
    /\ IsList(mem, WordAt(mem, first), stk, n - 1)
    /\ n - 1 \in Nat
    /\ first \in Members(stk, n)
    /\ Members(stk, n - 1) = Members(stk, n) \ {first}

\* Taking the first member off.
LEMMA ListPop ==
    ASSUME NEW mem, NEW first, NEW stk, NEW n, IsList(mem, first, stk, n), first # NULL
    PROVE  Popped(mem, first, stk, n)
<1>1. n \in Nat \ {0} /\ first = stk[n]
  BY DEF IsList
<1>2. IsList(mem, WordAt(mem, first), stk, n - 1)
  <2>1. n \in 1 .. n /\ \A k \in 1 .. n - 1 : k \in 1 .. n
    BY <1>1
  <2>. QED
    BY <1>1, <2>1 DEF IsList
<1>3. first \in Members(stk, n)
  BY <1>1 DEF Members
<1>4. ASSUME NEW x \in Members(stk, n - 1) PROVE x \in Members(stk, n) \ {first}
  <2>1. PICK k \in 1 .. n - 1 : x = stk[k]
    BY DEF Members
  <2>2. k \in 1 .. n /\ n \in 1 .. n /\ k # n
    BY <1>1
  <2>. QED
    BY <1>1, <2>1, <2>2 DEF Members, IsList
<1>5. ASSUME NEW x \in Members(stk, n), x # first PROVE x \in Members(stk, n - 1)
  <2>1. PICK k \in 1 .. n : x = stk[k]
    BY DEF Members
  <2>2. k \in 1 .. n - 1
    BY <1>1, <1>5, <2>1
  <2>. QED
    BY <2>1, <2>2 DEF Members
<1>. QED
  BY <1>1, <1>2, <1>3, <1>4, <1>5 DEF Popped

Pushed(stk, n, x) == [stk EXCEPT ![n + 1] = x]

\* Putting a new member in front.
LEMMA ListPush ==
    ASSUME NEW mem, NEW mem2, NEW first, NEW stk, NEW n, IsList(mem, first, stk, n),
           NEW x \in Nat, x # NULL, x \notin Members(stk, n),
           WordAt(mem2, x) = first,
           \A y \in Members(stk, n) : WordAt(mem2, y) = WordAt(mem, y)
    PROVE  /\ IsList(mem2, x, Pushed(stk, n, x), n + 1)
           /\ Members(Pushed(stk, n, x), n + 1) = Members(stk, n) \cup {x}
<1>. DEFINE stk2 == Pushed(stk, n, x)
<1>1. n \in Nat /\ stk \in [Nat -> Nat]
  BY DEF IsList
<1>2. stk2 \in [Nat -> Nat] /\ stk2[n + 1] = x /\ \A k \in 1 .. n : stk2[k] = stk[k]
  BY <1>1 DEF Pushed
<1>. HIDE DEF stk2
<1>3. \A k \in 1 .. n : stk[k] \in Members(stk, n)
  BY DEF Members
<1>4. \A k \in 1 .. n + 1 : k \in 1 .. n \/ k = n + 1
  BY <1>1
<1>5. IsList(mem2, x, stk2, n + 1)
  <2>1. \A k \in 1 .. n + 1 :
           stk2[k] # NULL /\ WordAt(mem2, stk2[k]) = IF k = 1 THEN NULL ELSE stk2[k - 1]
    <3>. SUFFICES ASSUME NEW k \in 1 .. n + 1
                  PROVE  stk2[k] # NULL
                         /\ WordAt(mem2, stk2[k]) = IF k = 1 THEN NULL ELSE stk2[k - 1]
      OBVIOUS
    <3>1. CASE k = n + 1
      <4>1. n # 0 => n \in 1 .. n /\ k - 1 = n
        BY <1>1, <3>1
      <4>. QED
        BY <1>1, <1>2, <3>1, <4>1 DEF IsList
    <3>2. CASE k \in 1 .. n
      <4>1. k # 1 => k - 1 \in 1 .. n
        BY <1>1, <3>2
      <4>. QED
        BY <1>2, <1>3, <3>2, <4>1 DEF IsList
    <3>. QED
      BY <1>4, <3>1, <3>2
  <2>2. \A j, k \in 1 .. n + 1 : stk2[j] = stk2[k] => j = k
    BY <1>2, <1>3, <1>4 DEF IsList
  <2>. QED
    BY <1>1, <1>2, <2>1, <2>2 DEF IsList
<1>6. Members(stk2, n + 1) = Members(stk, n) \cup {x}
  <2>1. \A k \in 1 .. n : k \in 1 .. n + 1
    BY <1>1
  <2>2. n + 1 \in 1 .. n + 1
    BY <1>1
  <2>. QED
    BY <1>2, <1>4, <2>1, <2>2 DEF Members
<1>. QED
  BY <1>5, <1>6 DEF stk2

\* The stack after a page has been cut into k blocks of b words and put in
\* front of a list of n.
CutPage(stk, n, virt, b, k) ==
    [i \in Nat |-> IF i <= n THEN stk[i]
                   ELSE IF i <= n + k THEN virt + (n + k - i) * b ELSE 0]

CutStack(d, stk, n, virt, stk2, n2) ==
    /\ stk2 = CutPage(stk, n, virt, ClassSize[d], BlocksPerPage(d))
    /\ n2 = n + BlocksPerPage(d)

\* The words of the old members, and the links in the new page.
CutWords(d, mem, mem2, first, old, virt) ==
    /\ \A y \in old : WordAt(mem2, y) = WordAt(mem, y) /\ PageOf(y) # PageOf(virt)
    /\ \A y \in Nat : PageOf(y) = PageOf(virt) /\ BlockStart(d, y) =>
          WordAt(mem2, y) = IF (y % PageWords) + ClassSize[d] = PageWords
                            THEN first ELSE y + ClassSize[d]

\* Putting all blocks of a new page in front, each linked to the next, the
\* last one to the old list.
LEMMA ListCut ==
    ASSUME NEW d \in Domains,
           NEW mem, NEW mem2, NEW first, NEW stk, NEW n, IsList(mem, first, stk, n),
           NEW virt \in Nat, virt % PageWords = 0, virt # NULL,
           CutWords(d, mem, mem2, first, Members(stk, n), virt),
           NEW stk2, NEW n2, CutStack(d, stk, n, virt, stk2, n2)
    PROVE  /\ IsList(mem2, virt, stk2, n2)
           /\ Members(stk2, n2) = Members(stk, n) \cup PageStarts(d, virt)
<1>. USE DEF CutWords, CutStack
<1>. DEFINE b == ClassSize[d]
            K == BlocksPerPage(d)
<1>1. n \in Nat /\ stk \in [Nat -> Nat] /\ b \in Nat \ {0} /\ K \in Nat \ {0}
      /\ n2 \in Nat /\ n2 = n + K
  BY PageDivided DEF IsList
<1>2. /\ \A i \in 1 .. n : stk2[i] = stk[i]
      /\ \A i \in n + 1 .. n2 : stk2[i] = virt + (n2 - i) * b
      /\ stk2 \in [Nat -> Nat]
  <2>1. \A i \in Nat : i <= n2 => virt + (n2 - i) * b \in Nat
    <3>. SUFFICES ASSUME NEW i \in Nat, i <= n2 PROVE virt + (n2 - i) * b \in Nat
      OBVIOUS
    <3>1. n2 - i \in Nat
      BY <1>1
    <3>2. (n2 - i) * b \in Nat
      BY <1>1, <3>1
    <3>. QED
      BY <3>2
  <2>. HIDE DEF b, K
  <2>2. stk2 = [i \in Nat |-> IF i <= n THEN stk[i]
                              ELSE IF i <= n2 THEN virt + (n2 - i) * b ELSE 0]
    BY <1>1 DEF CutPage, b, K
  <2>3. (\A i \in 1 .. n : i \in Nat /\ i <= n)
        /\ (\A i \in n + 1 .. n2 : i \in Nat /\ ~(i <= n) /\ i <= n2)
    BY <1>1
  <2>4. stk2 \in [Nat -> Nat]
    <3>1. ASSUME NEW i \in Nat
          PROVE  (IF i <= n THEN stk[i] ELSE IF i <= n2 THEN virt + (n2 - i) * b ELSE 0)
                     \in Nat
      <4>1. CASE i <= n
        BY <1>1, <4>1
      <4>2. CASE ~(i <= n) /\ i <= n2
        BY <2>1, <4>2
      <4>. QED
        BY <4>1, <4>2
    <3>. QED
      BY <2>2, <3>1
  <2>. QED
    BY <2>2, <2>3, <2>4
\* the blocks
<1>3. ASSUME NEW i \in n + 1 .. n2
      PROVE  /\ n2 - i \in 0 .. K - 1
             /\ stk2[i] \in Nat /\ PageOf(stk2[i]) = PageOf(virt) /\ BlockStart(d, stk2[i])
             /\ stk2[i] % PageWords = (n2 - i) * b
             /\ (((stk2[i] % PageWords) + b = PageWords) <=> (n2 - i = K - 1))
             /\ stk2[i] # NULL
  <2>. DEFINE j == n2 - i
              w == stk2[i]
  <2>1. j \in 0 .. K - 1 /\ w = virt + j * b
    BY <1>1, <1>2
  <2>. HIDE DEF j, w
  <2>2. /\ w \in Nat /\ PageOf(w) = PageOf(virt) /\ BlockStart(d, w)
        /\ w % PageWords = j * ClassSize[d]
        /\ ((w % PageWords) + ClassSize[d] = PageWords) <=> (j = BlocksPerPage(d) - 1)
    BY <2>1, PageBlocks
  <2>3. w # NULL
    <3>1. j * b \in Nat
      BY <1>1, <2>1
    <3>. QED
      BY <2>1, <3>1 DEF NULL
  <2>. QED
    BY <2>1, <2>2, <2>3 DEF j, w
<1>4. \A i \in 1 .. n2 : i \in 1 .. n \/ i \in n + 1 .. n2
  BY <1>1
<1>5. \A i \in 1 .. n : stk[i] \in Members(stk, n)
  BY DEF Members
<1>6. \A i \in 1 .. n2 :
         stk2[i] # NULL /\ WordAt(mem2, stk2[i]) = IF i = 1 THEN NULL ELSE stk2[i - 1]
  <2>. SUFFICES ASSUME NEW i \in 1 .. n2
                PROVE  stk2[i] # NULL
                       /\ WordAt(mem2, stk2[i]) = IF i = 1 THEN NULL ELSE stk2[i - 1]
    OBVIOUS
  <2>1. CASE i \in 1 .. n
    <3>1. i # 1 => i - 1 \in 1 .. n
      BY <1>1, <2>1
    <3>. QED
      BY <1>2, <1>5, <2>1, <3>1 DEF IsList
  <2>2. CASE i \in n + 1 .. n2 /\ i = n + 1
    <3>1. n2 - i = K - 1
      BY <1>1, <2>2
    <3>2. WordAt(mem2, stk2[i]) = first
      BY <1>3, <2>2, <3>1
    <3>3. n # 0 => n \in 1 .. n /\ i - 1 = n
      BY <1>1, <2>2
    <3>. QED
      BY <1>1, <1>2, <1>3, <2>2, <3>2, <3>3 DEF IsList
  <2>3. CASE i \in n + 1 .. n2 /\ i # n + 1
    <3>1. n2 - i # K - 1 /\ i - 1 \in n + 1 .. n2 /\ i # 1
      BY <1>1, <2>3
    <3>2. WordAt(mem2, stk2[i]) = stk2[i] + b
      BY <1>3, <2>3, <3>1
    <3>3. stk2[i] = virt + (n2 - i) * b /\ stk2[i - 1] = virt + (n2 - (i - 1)) * b
      BY <1>2, <2>3, <3>1
    <3>4. (n2 - (i - 1)) * b = (n2 - i) * b + b
      BY <1>1
    <3>5. (n2 - i) * b \in Int
      BY <1>1
    <3>6. stk2[i - 1] = stk2[i] + b
      BY <1>1, <3>3, <3>4, <3>5
    <3>. QED
      BY <1>3, <2>3, <3>1, <3>2, <3>6
  <2>. QED
    BY <1>4, <2>1, <2>2, <2>3
<1>7. \A i, k \in 1 .. n2 : stk2[i] = stk2[k] => i = k
  <2>. SUFFICES ASSUME NEW i \in 1 .. n2, NEW k \in 1 .. n2, stk2[i] = stk2[k]
                PROVE  i = k
    OBVIOUS
  <2>1. CASE i \in 1 .. n /\ k \in 1 .. n
    BY <1>2, <2>1 DEF IsList
  <2>2. CASE i \in n + 1 .. n2 /\ k \in n + 1 .. n2
    <3>1. (n2 - i) * b = (n2 - k) * b
      BY <1>3, <2>2
    <3>2. n2 - i \in Nat /\ n2 - k \in Nat
      BY <1>3, <2>2, <1>1
    <3>3. ASSUME n2 - i < n2 - k PROVE FALSE
      <4>1. b * (n2 - i + 1) <= b * (n2 - k)
        BY <1>1, <3>2, <3>3, ProductMonotone
      <4>2. b * (n2 - i + 1) = (n2 - i) * b + b /\ b * (n2 - k) = (n2 - k) * b
            /\ (n2 - i) * b \in Int
        BY <1>1
      <4>. QED
        BY <1>1, <3>1, <4>1, <4>2
    <3>4. ASSUME n2 - k < n2 - i PROVE FALSE
      <4>1. b * (n2 - k + 1) <= b * (n2 - i)
        BY <1>1, <3>2, <3>4, ProductMonotone
      <4>2. b * (n2 - k + 1) = (n2 - k) * b + b /\ b * (n2 - i) = (n2 - i) * b
            /\ (n2 - k) * b \in Int
        BY <1>1
      <4>. QED
        BY <1>1, <3>1, <4>1, <4>2
    <3>. QED
      BY <1>1, <3>2, <3>3, <3>4
  <2>3. CASE i \in 1 .. n /\ k \in n + 1 .. n2
    BY <1>2, <1>3, <1>5, <2>3
  <2>4. CASE k \in 1 .. n /\ i \in n + 1 .. n2
    BY <1>2, <1>3, <1>5, <2>4
  <2>. QED
    BY <1>4, <2>1, <2>2, <2>3, <2>4
<1>8. virt = IF n2 = 0 THEN NULL ELSE stk2[n2]
  <2>1. n2 \in n + 1 .. n2 /\ (n2 - n2) * b = 0 /\ n2 # 0
    BY <1>1
  <2>. QED
    BY <1>2, <2>1
<1>9. ASSUME NEW y \in Nat, PageOf(y) = PageOf(virt), BlockStart(d, y)
      PROVE  y \in Members(stk2, n2)
  <2>1. PICK j \in 0 .. K - 1 : y = virt + j * b
    BY <1>9, BlockNumber
  <2>. DEFINE i == n2 - j
  <2>2. i \in n + 1 .. n2 /\ n2 - i = j /\ i \in 1 .. n2
    BY <1>1
  <2>3. y = stk2[i]
    BY <1>2, <2>1, <2>2
  <2>. QED
    BY <2>2, <2>3 DEF Members
<1>10. Members(stk2, n2) = Members(stk, n) \cup PageStarts(d, virt)
  <2>1. \A i \in 1 .. n : i \in 1 .. n2
    BY <1>1
  <2>. HIDE DEF K, b
  <2>. QED
    BY <1>2, <1>3, <1>4, <1>9, <2>1 DEF Members, PageStarts
<1>. QED
  BY <1>1, <1>2, <1>6, <1>7, <1>8, <1>10 DEF IsList

-----------------------------------------------------------------------------
(* The hypotheses. *)

\* Sizes for which size + header + rounding does not pass 2^32, and a memory
\* that ends within the reach of the bitmap's int helpers.
Fits == /\ \A size \in Sizes : size + PageWords < AddressLimit
        /\ NumFrames <= AddressableFrames

\* The callers hold at most as many blocks of a class as its region has room for:
\* 65536 pages of blocks in the code, where memtest 1 holds 40000 blocks.
FewHeld == \A d \in Domains : Cardinality(Held(d)) <= RegionPages * BlocksPerPage(d)

\* map_page has found a frame for every table it needed, boot does not run out of
\* frames, and the callers do not ask for more than a region holds.  The code
\* checks none of these.
Supplied ==
    /\ TablesBacked /\ FewHeld
    /\ op.kind \in {"init", "premap"} => \E f \in Frame : f \notin m.bitmap

\* No size class has outgrown its region.  This is no hypothesis: RoomKept shows
\* that it follows from the callers' modesty.
Room == \A d \in Domains : cursor[d] <= Base(d + 1)

\* What the steps are proved under.
Sane ==
    /\ TablesBacked /\ Room
    /\ op.kind \in {"init", "premap"} => \E f \in Frame : f \notin m.bitmap

-----------------------------------------------------------------------------
(* The inductive invariant, in parts, with the ghosts                      *)
(*   stk[h], dep[h]  the list of free blocks, or slots, of heap h          *)
(*   len[k]          the pages of the k-th slot                            *)
(*   use[p], from[p] what page p of the large domain is used for, and the  *)
(*                   pointer or slot it belongs to                         *)

RangePages(start, n) == PageOf(start) .. PageOf(start) + n - 1
SmallPages(d)  == BasePage(d) .. PageOf(cursor[d]) - 1
LargeRegion    == BasePage(Large) .. PageOf(cursor[Large]) - 1
HeldPages(a)   == RangePages(a.ptr, PagesFor(a.size))

\* The pages that the call in progress has mapped, or not yet unmapped.
CallPages ==
    IF op.kind = "map" THEN RangePages(op.start, op.i)
    ELSE IF op.kind = "unmap"
    THEN RangePages(op.start, op.pages) \ (PageOf(op.start) + 1 .. PageOf(op.start) + op.i - 1)
    ELSE {}

LargeOwn(slots) ==
    (UNION {HeldPages(a) : a \in Held(Large)})
    \cup {PageOf(x) : x \in slots} \cup {PageOf(x) : x \in lost} \cup CallPages

\* The pages each heap has mapped.
Own(stk, dep) ==
    [h \in Heaps |-> IF h = Large THEN LargeOwn(Members(stk[Large], dep[Large]))
                                  ELSE SmallPages(h)]

Blocks(d) == {w \in Nat : PageOf(w) \in SmallPages(d) /\ BlockStart(d, w)}

Calls ==
    {Idle}
    \cup [kind : {"init"}, heap : Heaps]
    \cup [kind : {"premap"}, heap : Domains, i : 0 .. PremapPages]
    \cup [kind : {"map"}, i : Nat, pages : Nat, size : Sizes, start : Nat]
    \cup [kind : {"unmap"}, i : Nat, pages : Nat, start : Nat]
    \cup [kind : {"fill"}, of : live]

Typed ==
    /\ dir \in [Heaps -> Frame] /\ cursor \in [Heaps -> Nat] /\ head \in [Heaps -> Nat]
    /\ live \subseteq [ptr : Nat, size : Sizes] /\ lost \subseteq Nat
    /\ op \in Calls /\ cpu = "run"

\* The heaps are set up one after the other, before anything is allocated.
BootOrder ==
    /\ op.kind = "init"   => Started = 1 .. op.heap - 1
    /\ op.kind = "premap" => Started = 1 .. op.heap
    /\ op.kind \in {"init", "premap"} => live = {} /\ lost = {}
    /\ op.kind \notin {"init", "premap"} => Started = Heaps
    /\ \A h \in Heaps \ Started : cursor[h] = 0 /\ head[h] = NULL

Cursors ==
    \A h \in Started :
        /\ cursor[h] % PageWords = 0
        /\ BasePage(h) <= PageOf(cursor[h]) /\ PageOf(cursor[h]) <= RegionEnd(h)

Lists(stk, dep) ==
    /\ stk \in [Heaps -> [Nat -> Nat]] /\ dep \in [Heaps -> Nat]
    /\ \A h \in Heaps : IsList(m, head[h], stk[h], dep[h])

\* A block is on its list or held by one caller, never both.
BlocksSplit(stk, dep) ==
    /\ \A d \in Domains :
          /\ Members(stk[d], dep[d]) \cup {a.ptr : a \in Held(d)} = Blocks(d)
          /\ \A a \in Held(d) : a.ptr \notin Members(stk[d], dep[d])
    /\ \A a, b \in live : a.ptr = b.ptr => a = b

DataKept ==
    \A a \in live : op # [kind |-> "fill", of |-> a] =>
        \A x \in UserWords(a) : WordAt(m, x) = x

\* The ranges of the large domain: every page has one use.
Uses(use, from) ==
    /\ \A a \in Held(Large) :
          /\ a.ptr % PageWords = 1 /\ WordAt(m, a.ptr - 1) = PagesFor(a.size)
          /\ \A p \in HeldPages(a) : p \in LargeRegion /\ use[p] = "held" /\ from[p] = a.ptr
    /\ \A x \in lost : /\ x % PageWords = 0 /\ PageOf(x) \in LargeRegion
                       /\ use[PageOf(x)] = "lost"

SlotUses(stk, n, len, use, from) ==
    \A k \in 1 .. n :
        /\ stk[k] % PageWords = 0 /\ len[k] \in Nat \ {0} /\ WordAt(m, stk[k] + 1) = len[k]
        /\ \A p \in RangePages(stk[k], len[k]) :
              p \in LargeRegion /\ use[p] = "slot" /\ from[p] = stk[k]

CallUses(use) ==
    op.kind \in {"map", "unmap"} =>
        /\ op.start % PageWords = 0 /\ op.pages # 0 /\ op.i <= op.pages
        /\ op.kind = "map" => op.pages = PagesFor(op.size) /\ ClassOf(op.size) = Large
        /\ op.kind = "unmap" => op.i >= 1
        /\ \A p \in RangePages(op.start, op.pages) : p \in LargeRegion /\ use[p] = "call"

Inv(stk, dep, len, use, from) ==
    /\ Typed /\ BootOrder /\ Cursors
    /\ Sound(m, dir, Started, Own(stk, dep))
    /\ Lists(stk, dep) /\ BlocksSplit(stk, dep) /\ DataKept
    /\ Uses(use, from) /\ SlotUses(stk[Large], dep[Large], len, use, from)
    /\ CallUses(use)

IInv == \E stk, dep, len, use, from : Inv(stk, dep, len, use, from)

\* The same, with n slots on the large domain's list, of these lengths.
InvWith(len, n) ==
    \E stk, dep, use, from : Inv(stk, dep, len, use, from) /\ dep[Large] = n

\* A slot of x pages goes in front of n others.
Longer(len, n, x) == [k \in Nat |-> IF k = n + 1 THEN x ELSE len[k]]

-----------------------------------------------------------------------------
(* What the invariant says of a state. *)

\* A call in progress is one of its kind.
LEMMA CallKinds ==
    ASSUME op \in Calls
    PROVE  /\ op.kind = "idle" => op = Idle
           /\ op.kind = "init" => op \in [kind : {"init"}, heap : Heaps]
           /\ op.kind = "premap" =>
                 op \in [kind : {"premap"}, heap : Domains, i : 0 .. PremapPages]
           /\ op.kind = "map" =>
                 op \in [kind : {"map"}, i : Nat, pages : Nat, size : Sizes, start : Nat]
           /\ op.kind = "unmap" =>
                 op \in [kind : {"unmap"}, i : Nat, pages : Nat, start : Nat]
           /\ op.kind = "fill" => op \in [kind : {"fill"}, of : live]
           /\ op = Idle => op.kind = "idle"
BY DEF Calls, Idle

\* The pages of a large request hold its words and its header.
LEMMA PagesForFacts ==
    ASSUME Fits, NEW size \in Sizes
    PROVE  /\ PagesFor(size) \in Nat \ {0} /\ size \in Nat
           /\ size + 1 <= PagesFor(size) * PageWords
<1>. DEFINE n == size + PageWords
            q == n \div PageWords
<1>1. size \in Nat /\ PageWords \in Nat \ {0} /\ n \in Nat
  BY HeapAssumption, HeapNumbers DEF Word
<1>2. AddressLimit \in Nat /\ n < AddressLimit
  BY PagingAssumption DEF Fits, AddressLimit
<1>3. n % AddressLimit = n
  <2>1. AddressLimit \in Nat \ {0} /\ n \in 0 .. AddressLimit - 1 /\ n = n + AddressLimit * 0
    BY <1>1, <1>2
  <2>. HIDE DEF n
  <2>. QED
    BY <1>1, <2>1, QuotientUnique
<1>4. PagesFor(size) = q
  <2>1. size + 1 + (PageWords - 1) = n
    BY <1>1
  <2>. QED
    BY <1>3, <2>1 DEF PagesFor
<1>. HIDE DEF n
<1>5. q \in Nat /\ n % PageWords \in 0 .. PageWords - 1 /\ n = (n % PageWords) + PageWords * q
  BY <1>1, Division
<1>. HIDE DEF q
<1>6. PageWords * q > size /\ q # 0
  <2>1. PageWords * q > n - PageWords
    BY <1>1, <1>5
  <2>2. PageWords * q > size
    BY <1>1, <2>1 DEF n
  <2>. QED
    BY <1>1, <2>2
<1>7. PageWords * q = q * PageWords /\ PageWords * q \in Nat
  BY <1>1, <1>5
<1>. QED
  BY <1>1, <1>4, <1>5, <1>6, <1>7

\* The class of a size.
LEMMA ClassFacts ==
    ASSUME NEW size \in Nat
    PROVE  /\ ClassOf(size) \in Heaps
           /\ ClassOf(size) # Large => ClassOf(size) \in Domains
                                       /\ size <= ClassSize[ClassOf(size)]
<1>1. CASE ~\E d \in Domains : size <= ClassSize[d]
  BY <1>1, HeapNumbers DEF ClassOf, Heaps
<1>2. CASE \E d \in Domains : size <= ClassSize[d]
  <2>. DEFINE T == {d \in Domains : size <= ClassSize[d]}
  <2>1. T \in SUBSET Nat /\ T # {}
    BY <1>2, HeapNumbers
  <2>2. Min(T) \in T /\ \A e \in T : Min(T) <= e
    BY <2>1, MinOfNats
  <2>3. \E d \in Domains : /\ size <= ClassSize[d]
                           /\ \A e \in Domains : size <= ClassSize[e] => d <= e
    BY <2>2
  <2>4. ClassOf(size) = CHOOSE d \in Domains :
             /\ size <= ClassSize[d]
             /\ \A e \in Domains : size <= ClassSize[e] => d <= e
    BY <1>2 DEF ClassOf
  <2>. HIDE DEF T
  <2>5. ClassOf(size) \in Domains /\ size <= ClassSize[ClassOf(size)]
    BY <2>3, <2>4
  <2>. QED
    BY <2>5, HeapNumbers
<1>. QED
  BY <1>1, <1>2

\* A range of pages contains its first.
LEMMA FirstPage ==
    ASSUME NEW x \in Nat, NEW n \in Nat \ {0}
    PROVE  PageOf(x) \in RangePages(x, n) /\ PageOf(x) \in Nat
BY AddressParts DEF RangePages

\* A call's pages are pages of its range.
LEMMA CallInRange ==
    ASSUME Typed, NEW use, CallUses(use), NEW p \in CallPages
    PROVE  op.kind \in {"map", "unmap"} /\ p \in RangePages(op.start, op.pages)
<1>1. CASE op.kind = "map"
  <2>1. op \in [kind : {"map"}, i : Nat, pages : Nat, size : Sizes, start : Nat]
    BY <1>1, CallKinds DEF Typed
  <2>2. PageOf(op.start) \in Nat /\ op.i <= op.pages /\ op.i \in Nat /\ op.pages \in Nat
    BY <1>1, <2>1, AddressParts DEF CallUses
  <2>. QED
    BY <1>1, <2>2 DEF CallPages, RangePages
<1>2. CASE op.kind = "unmap"
  BY <1>2 DEF CallPages
<1>. QED
  BY <1>1, <1>2 DEF CallPages

\* The members of a list are numbers of its stack.
LEMMA MemberAt ==
    ASSUME NEW stk, NEW dep, Lists(stk, dep), NEW h \in Heaps,
           NEW x \in Members(stk[h], dep[h])
    PROVE  /\ x \in Nat /\ x # NULL
           /\ \E k \in 1 .. dep[h] : x = stk[h][k]
<1>1. PICK k \in 1 .. dep[h] : x = stk[h][k]
  BY DEF Members
<1>2. IsList(m, head[h], stk[h], dep[h])
  BY DEF Lists
<1>. QED
  BY <1>1, <1>2 DEF IsList

\* What a heap has mapped lies in its region.
LEMMA OwnInRegion ==
    ASSUME NEW stk, NEW dep, NEW len, NEW use, NEW from,
           Typed, Cursors, Lists(stk, dep), Uses(use, from),
           SlotUses(stk[Large], dep[Large], len, use, from), CallUses(use),
           NEW h \in Started, NEW p \in Own(stk, dep)[h]
    PROVE  /\ p \in Nat /\ BasePage(h) <= p /\ p < RegionEnd(h)
           /\ h = Large => p \in LargeRegion
<1>1. h \in Heaps /\ cursor[h] \in Nat /\ PageOf(cursor[h]) \in Nat
  BY AddressParts DEF Started, Typed
<1>2. h \in Nat /\ BasePage(h) \in Nat /\ RegionEnd(h) \in Nat
  <2>1. h \in Nat /\ Large \in Nat /\ RegionPages \in Nat /\ MaxLargePages \in Nat
    BY <1>1, HeapNumbers
  <2>2. BasePage(h) \in Nat /\ BasePage(Large) \in Nat /\ BasePage(h + 1) \in Nat
    BY <2>1 DEF BasePage
  <2>. QED
    BY <2>1, <2>2 DEF RegionEnd
<1>3. CASE h # Large
  <2>1. p \in SmallPages(h)
    BY <1>1, <1>3 DEF Own
  <2>. QED
    BY <1>1, <1>2, <1>3, <2>1 DEF SmallPages, Cursors
<1>4. CASE h = Large
  <2>1. p \in LargeOwn(Members(stk[Large], dep[Large]))
    BY <1>1, <1>4 DEF Own
  <2>2. p \in LargeRegion
    <3>1. CASE p \in UNION {HeldPages(a) : a \in Held(Large)}
      BY <3>1 DEF Uses
    <3>2. CASE p \in {PageOf(x) : x \in Members(stk[Large], dep[Large])}
      <4>1. PICK x \in Members(stk[Large], dep[Large]) : p = PageOf(x)
        BY <3>2
      <4>2. x \in Nat /\ \E k \in 1 .. dep[Large] : x = stk[Large][k]
        BY <1>1, <1>4, <4>1, MemberAt
      <4>3. PICK k \in 1 .. dep[Large] : x = stk[Large][k]
        BY <4>2
      <4>4. len[k] \in Nat \ {0}
            /\ \A q \in RangePages(stk[Large][k], len[k]) : q \in LargeRegion
        BY <4>3 DEF SlotUses
      <4>. QED
        BY <4>1, <4>2, <4>3, <4>4, FirstPage
    <3>3. CASE p \in {PageOf(x) : x \in lost}
      BY <3>3 DEF Uses
    <3>4. CASE p \in CallPages
      BY <3>4, CallInRange DEF CallUses
    <3>. QED
      BY <2>1, <3>1, <3>2, <3>3, <3>4 DEF LargeOwn
  <2>. QED
    BY <1>1, <1>2, <1>4, <2>2 DEF LargeRegion, Cursors
<1>. QED
  BY <1>3, <1>4

\* The words an allocation stands for: its block, or its pages.
Span(a) ==
    IF ClassOf(a.size) = Large THEN {x \in Nat : PageOf(x) \in HeldPages(a)}
    ELSE a.ptr .. a.ptr + ClassSize[ClassOf(a.size)] - 1

\* A large request's words are in its pages, behind the header.
LEMMA LargeWords ==
    ASSUME Fits, NEW ptr \in Nat, NEW size \in Sizes, ptr % PageWords = 1,
           NEW x \in ptr .. ptr + size - 1
    PROVE  x \in Nat /\ PageOf(x) \in RangePages(ptr, PagesFor(size)) /\ x # ptr - 1
<1>. DEFINE n == PagesFor(size)
            y == ptr + n * PageWords
<1>1. n \in Nat \ {0} /\ size \in Nat /\ size + 1 <= n * PageWords
  BY PagesForFacts
<1>2. PageWords \in Nat /\ PageWords >= 4 /\ PageOf(ptr) \in Nat
      /\ ptr = 1 + PageWords * PageOf(ptr)
  BY HeapNumbers, AddressParts
<1>. HIDE DEF n
<1>. DEFINE s == ptr - 1
            e == s + n * PageWords
<1>3. s \in Nat /\ s = 0 + PageWords * PageOf(ptr) /\ 0 \in Offset
  BY <1>2, <1>1 DEF Offset
<1>4. PageOf(s) = PageOf(ptr) /\ s % PageWords = 0
  BY <1>2, <1>3, AddressAt
<1>. HIDE DEF s
<1>5. e \in Nat /\ PageOf(e) = PageOf(ptr) + n /\ e % PageWords = 0
  BY <1>1, <1>3, <1>4, ByPages
<1>6. x \in Nat /\ s <= x /\ x < e
  <2>1. n * PageWords \in Nat
    BY <1>1, <1>2
  <2>. QED
    BY <1>1, <2>1, <1>3 DEF s
<1>. HIDE DEF e
<1>7. PageOf(s) <= PageOf(x) /\ ~(PageOf(e) <= PageOf(x)) /\ PageOf(x) \in Nat
  BY <1>3, <1>4, <1>5, <1>6, PageOrder, AddressParts
<1>8. x # ptr - 1
  BY <1>1
<1>. QED
  BY <1>1, <1>2, <1>4, <1>5, <1>6, <1>7, <1>8 DEF RangePages, n

\* Callers exist only when all heaps do.
LEMMA HeldFacts ==
    ASSUME Fits, Typed, BootOrder, NEW a \in live
    PROVE  /\ Started = Heaps /\ a.ptr \in Nat /\ a.size \in Sizes /\ a.size \in Nat
           /\ ClassOf(a.size) \in Heaps /\ a \in Held(ClassOf(a.size))
           /\ ClassOf(a.size) # Large => ClassOf(a.size) \in Domains
                                        /\ a.size <= ClassSize[ClassOf(a.size)]
<1>1. a.ptr \in Nat /\ a.size \in Sizes /\ Started = Heaps
  BY DEF Typed, BootOrder
<1>2. a.size \in Nat
  BY <1>1, PagesForFacts
<1>. QED
  BY <1>1, <1>2, ClassFacts DEF Held

\* Where an allocation's words are.
LEMMA SpanPlace ==
    ASSUME Fits, NEW stk, NEW dep, NEW use, NEW from,
           Typed, BootOrder, BlocksSplit(stk, dep), Uses(use, from),
           NEW a \in live
    PROVE  /\ Span(a) \subseteq Nat
           /\ UserWords(a) \subseteq Span(a) /\ a.ptr \in Span(a)
           /\ \A x \in Span(a) : PageOf(x) \in Own(stk, dep)[ClassOf(a.size)]
           /\ ClassOf(a.size) # Large =>
                 /\ a.ptr \in Blocks(ClassOf(a.size))
                 /\ \A x \in Span(a) : PageOf(x) = PageOf(a.ptr)
                       /\ (x % PageWords) % ClassSize[ClassOf(a.size)] = x - a.ptr
           /\ ClassOf(a.size) = Large =>
                 /\ \A x \in Span(a) : PageOf(x) \in HeldPages(a)
                 /\ a.ptr - 1 \in Span(a) /\ a.ptr - 1 \notin UserWords(a)
                 /\ PageOf(a.ptr - 1) = PageOf(a.ptr) /\ (a.ptr - 1) % PageWords = 0
<1>. DEFINE c == ClassOf(a.size)
<1>1. /\ Started = Heaps /\ a.ptr \in Nat /\ a.size \in Sizes /\ a.size \in Nat
      /\ c \in Heaps /\ a \in Held(c)
      /\ c # Large => c \in Domains /\ a.size <= ClassSize[c]
  BY HeldFacts
<1>2. CASE c # Large
  <2>. DEFINE b == ClassSize[c]
  <2>1. c \in Domains /\ b \in Nat \ {0} /\ a.size <= b
    BY <1>1, <1>2, HeapNumbers
  <2>2. a.ptr \in Blocks(c)
    BY <1>1, <2>1 DEF BlocksSplit
  <2>3. PageOf(a.ptr) \in SmallPages(c) /\ BlockStart(c, a.ptr)
    BY <2>2 DEF Blocks
  <2>4. Span(a) = a.ptr .. a.ptr + b - 1
    BY <1>2 DEF Span
  <2>5. ASSUME NEW x \in Span(a)
        PROVE  x \in Nat /\ PageOf(x) = PageOf(a.ptr) /\ (x % PageWords) % b = x - a.ptr
    <3>. DEFINE j == x - a.ptr
    <3>1. x \in Nat /\ j \in 0 .. b - 1 /\ x = a.ptr + j
      BY <1>1, <2>1, <2>4
    <3>. HIDE DEF j
    <3>2. PageOf(a.ptr + j) = PageOf(a.ptr) /\ ((a.ptr + j) % PageWords) % ClassSize[c] = j
      BY <1>1, <2>1, <2>3, <3>1, BlockPlace
    <3>. QED
      BY <3>1, <3>2 DEF j
  <2>6. UserWords(a) \subseteq Span(a) /\ a.ptr \in Span(a)
    BY <1>1, <2>1, <2>4 DEF UserWords
  <2>7. Own(stk, dep)[c] = SmallPages(c)
    BY <1>1, <1>2 DEF Own
  <2>. QED
    BY <1>2, <2>2, <2>3, <2>5, <2>6, <2>7
<1>3. CASE c = Large
  <2>1. a.ptr % PageWords = 1
    BY <1>1, <1>3 DEF Uses
  <2>2. Span(a) = {x \in Nat : PageOf(x) \in HeldPages(a)}
    BY <1>3 DEF Span
  <2>3. Own(stk, dep)[c] = LargeOwn(Members(stk[Large], dep[Large]))
    BY <1>1, <1>3 DEF Own
  <2>4. HeldPages(a) \subseteq Own(stk, dep)[c]
    BY <1>1, <1>3, <2>3 DEF LargeOwn
  <2>5. UserWords(a) \subseteq Span(a) /\ a.ptr - 1 \notin UserWords(a)
    BY <1>1, <2>1, <2>2, LargeWords DEF UserWords, HeldPages
  <2>6. PagesFor(a.size) \in Nat \ {0}
    BY <1>1, PagesForFacts
  <2>7. a.ptr \in Span(a)
    BY <1>1, <2>2, <2>6, FirstPage DEF HeldPages
  <2>8. a.ptr - 1 \in Nat /\ PageOf(a.ptr - 1) = PageOf(a.ptr) /\ (a.ptr - 1) % PageWords = 0
    <3>1. PageOf(a.ptr) \in Nat /\ a.ptr = 1 + PageWords * PageOf(a.ptr)
      BY <1>1, <2>1, AddressParts
    <3>2. 0 \in Offset /\ PageWords \in Nat
      BY HeapNumbers DEF Offset
    <3>3. a.ptr - 1 = 0 + PageWords * PageOf(a.ptr)
      BY <3>1, <3>2
    <3>. QED
      BY <3>1, <3>2, <3>3, AddressAt
  <2>9. a.ptr - 1 \in Span(a)
    BY <2>2, <2>7, <2>8
  <2>. QED
    BY <1>3, <2>2, <2>4, <2>5, <2>7, <2>8, <2>9
<1>. QED
  BY <1>2, <1>3

\* Allocations have no word in common, and none is on a list.
LEMMA SpansApart ==
    ASSUME Fits, NEW stk, NEW dep, NEW len, NEW use, NEW from,
           Inv(stk, dep, len, use, from),
           NEW a \in live, NEW x \in Span(a)
    PROVE  /\ \A c \in live : x \in Span(c) => c = a
           /\ \A h \in Heaps : x \notin Members(stk[h], dep[h])
           /\ \A y \in Members(stk[Large], dep[Large]) : PageOf(y) # PageOf(x)
           /\ op.kind \in {"map", "unmap"} =>
                 PageOf(x) \notin RangePages(op.start, op.pages)
           /\ \A y \in lost : PageOf(y) # PageOf(x)
<1>. USE DEF Inv
<1>. DEFINE own == Own(stk, dep)
            h == ClassOf(a.size)
<1>1. /\ Started = Heaps /\ a.ptr \in Nat /\ h \in Heaps /\ a \in Held(h)
  BY HeldFacts
<1>2. /\ x \in Nat /\ PageOf(x) \in own[h]
      /\ h # Large => /\ a.ptr \in Blocks(h) /\ PageOf(x) = PageOf(a.ptr)
                      /\ (x % PageWords) % ClassSize[h] = x - a.ptr
      /\ h = Large => PageOf(x) \in HeldPages(a)
  BY SpanPlace
<1>3. \A e, g \in Heaps : \A p \in own[e] : p \in own[g] => e = g
  BY <1>1 DEF Sound
<1>4. h = Large => use[PageOf(x)] = "held" /\ from[PageOf(x)] = a.ptr
  BY <1>1, <1>2 DEF Uses
<1>. HIDE DEF own, h
<1>5. ASSUME NEW c \in live, x \in Span(c) PROVE c = a
  <2>. DEFINE g == ClassOf(c.size)
  <2>1. c.ptr \in Nat /\ g \in Heaps /\ c \in Held(g)
    BY HeldFacts
  <2>2. /\ PageOf(x) \in own[g]
        /\ g # Large => (x % PageWords) % ClassSize[g] = x - c.ptr
        /\ g = Large => PageOf(x) \in HeldPages(c)
    BY <1>5, SpanPlace DEF own
  <2>. HIDE DEF g
  <2>3. g = h
    BY <1>1, <1>2, <1>3, <2>1, <2>2
  <2>4. CASE h # Large
    <3>1. x - c.ptr = x - a.ptr
      BY <1>2, <2>2, <2>3, <2>4
    <3>2. c.ptr = a.ptr
      BY <1>1, <1>2, <2>1, <3>1
    <3>. QED
      BY <3>2 DEF BlocksSplit
  <2>5. CASE h = Large
    <3>1. from[PageOf(x)] = c.ptr
      BY <2>1, <2>2, <2>3, <2>5 DEF Uses
    <3>. QED
      BY <1>4, <2>5, <3>1 DEF BlocksSplit
  <2>. QED
    BY <2>4, <2>5
<1>6. ASSUME NEW y \in Members(stk[Large], dep[Large])
      PROVE  /\ PageOf(y) \in own[Large] /\ use[PageOf(y)] = "slot"
  <2>1. Large \in Heaps
    BY DEF Heaps
  <2>2. y \in Nat /\ \E k \in 1 .. dep[Large] : y = stk[Large][k]
    BY <2>1, MemberAt
  <2>3. PICK k \in 1 .. dep[Large] : y = stk[Large][k]
    BY <2>2
  <2>4. len[k] \in Nat \ {0}
        /\ \A q \in RangePages(stk[Large][k], len[k]) : use[q] = "slot"
    BY <2>3 DEF SlotUses
  <2>5. use[PageOf(y)] = "slot"
    BY <2>2, <2>3, <2>4, FirstPage
  <2>6. own[Large] = LargeOwn(Members(stk[Large], dep[Large]))
    BY <2>1 DEF Own, own
  <2>. QED
    BY <2>5, <2>6 DEF LargeOwn
<1>7. \A y \in Members(stk[Large], dep[Large]) : PageOf(y) # PageOf(x)
  <2>. SUFFICES ASSUME NEW y \in Members(stk[Large], dep[Large]), PageOf(y) = PageOf(x)
                PROVE  FALSE
    OBVIOUS
  <2>1. Large \in Heaps
    BY DEF Heaps
  <2>2. h = Large
    BY <1>1, <1>2, <1>3, <1>6, <2>1
  <2>. QED
    BY <1>4, <1>6, <2>2
<1>8. ASSUME NEW g \in Heaps, x \in Members(stk[g], dep[g]) PROVE FALSE
  <2>1. CASE g = Large
    BY <1>7, <1>8, <2>1
  <2>2. CASE g # Large
    <3>1. g \in Domains
      BY <2>2, HeapNumbers
    <3>2. x \in Blocks(g)
      BY <1>8, <3>1 DEF BlocksSplit
    <3>3. own[g] = SmallPages(g)
      BY <2>2 DEF Own, own
    <3>4. PageOf(x) \in own[g] /\ (x % PageWords) % ClassSize[g] = 0
      BY <3>2, <3>3 DEF Blocks, BlockStart
    <3>5. g = h
      BY <1>1, <1>2, <1>3, <3>4
    <3>6. x = a.ptr
      BY <1>1, <1>2, <2>2, <3>4, <3>5
    <3>. QED
      BY <1>1, <1>8, <3>1, <3>5, <3>6 DEF BlocksSplit
  <2>. QED
    BY <2>1, <2>2
<1>9. h # Large => PageOf(x) \notin LargeRegion
  <2>. SUFFICES ASSUME h # Large, PageOf(x) \in LargeRegion PROVE FALSE
    OBVIOUS
  <2>1. h \in Started /\ h \in Nat /\ Large \in Nat /\ h < Large /\ Large \in Heaps
    BY <1>1, HeapNumbers DEF Heaps
  <2>2. PageOf(x) \in Nat /\ PageOf(x) < RegionEnd(h)
    BY <1>2, <2>1, OwnInRegion DEF own
  <2>3. RegionEnd(h) <= BasePage(Large)
    BY <1>1, <2>1, RegionOrder
  <2>4. RegionEnd(h) \in Nat /\ BasePage(Large) \in Nat
    BY <2>1, HeapNumbers DEF RegionEnd, BasePage
  <2>. QED
    BY <2>2, <2>3, <2>4 DEF LargeRegion
<1>10. op.kind \in {"map", "unmap"} => PageOf(x) \notin RangePages(op.start, op.pages)
  <2>. SUFFICES ASSUME op.kind \in {"map", "unmap"},
                       PageOf(x) \in RangePages(op.start, op.pages)
                PROVE  FALSE
    OBVIOUS
  <2>1. PageOf(x) \in LargeRegion /\ use[PageOf(x)] = "call"
    BY DEF CallUses
  <2>. QED
    BY <1>4, <1>9, <2>1
<1>11. \A y \in lost : PageOf(y) # PageOf(x)
  <2>1. \A y \in lost : PageOf(y) \in LargeRegion /\ use[PageOf(y)] = "lost"
    BY DEF Uses
  <2>. QED
    BY <1>4, <1>9, <2>1
<1>. QED
  BY <1>5, <1>7, <1>8, <1>10, <1>11

\* The words the heap and its callers know about are words of mapped pages.
LEMMA KnownWords ==
    ASSUME Fits, NEW stk, NEW dep, NEW len, NEW use, NEW from,
           Inv(stk, dep, len, use, from)
    PROVE  /\ \A h \in Heaps : Members(stk[h], dep[h]) \subseteq Owned(Started, Own(stk, dep))
           /\ \A a \in live : Span(a) \subseteq Owned(Started, Own(stk, dep))
           /\ \A y \in Members(stk[Large], dep[Large]) :
                 /\ y + 1 \in Owned(Started, Own(stk, dep))
                 /\ PageOf(y + 1) = PageOf(y) /\ y % PageWords = 0
                 /\ (y + 1) % PageWords = 1
<1>. USE DEF Inv
<1>. DEFINE own == Own(stk, dep)
<1>1. ASSUME NEW h \in Heaps, NEW x \in Members(stk[h], dep[h])
      PROVE  h \in Started /\ x \in Nat /\ PageOf(x) \in own[h]
  <2>1. x \in Nat /\ \E k \in 1 .. dep[h] : x = stk[h][k]
    BY MemberAt
  <2>2. h \in Started
    <3>. SUFFICES ASSUME h \notin Started PROVE FALSE
      OBVIOUS
    <3>1. head[h] = NULL /\ IsList(m, head[h], stk[h], dep[h])
      BY DEF BootOrder, Lists
    <3>2. dep[h] = 0
      <4>1. dep[h] \in Nat /\ (dep[h] # 0 => dep[h] \in 1 .. dep[h])
        BY DEF Lists
      <4>. QED
        BY <3>1, <4>1 DEF IsList
    <3>. QED
      BY <2>1, <3>2
  <2>3. CASE h # Large
    <3>1. h \in Domains
      BY <2>3, HeapNumbers
    <3>2. x \in Blocks(h)
      BY <3>1 DEF BlocksSplit
    <3>. QED
      BY <2>1, <2>2, <2>3, <3>2 DEF Blocks, Own
  <2>4. CASE h = Large
    BY <2>1, <2>2, <2>4 DEF Own, LargeOwn
  <2>. QED
    BY <2>3, <2>4
<1>2. ASSUME NEW a \in live, NEW x \in Span(a) PROVE x \in Owned(Started, own)
  <2>1. Started = Heaps /\ ClassOf(a.size) \in Heaps
    BY HeldFacts
  <2>2. x \in Nat /\ PageOf(x) \in own[ClassOf(a.size)]
    BY SpanPlace
  <2>. QED
    BY <2>1, <2>2 DEF Owned
<1>3. ASSUME NEW y \in Members(stk[Large], dep[Large])
      PROVE  /\ y + 1 \in Owned(Started, own) /\ PageOf(y + 1) = PageOf(y)
             /\ y % PageWords = 0 /\ (y + 1) % PageWords = 1
  <2>1. Large \in Heaps
    BY DEF Heaps
  <2>2. PICK k \in 1 .. dep[Large] : y = stk[Large][k]
    BY <2>1, MemberAt
  <2>3. y % PageWords = 0
    BY <2>2 DEF SlotUses
  <2>4. y \in Nat /\ PageOf(y) \in own[Large] /\ Large \in Started
    BY <1>1, <2>1
  <2>5. PageOf(y + 1) = PageOf(y) /\ (y + 1) % PageWords = 1
    <3>1. (y % PageWords) + 1 < PageWords
      BY <2>3, HeapNumbers
    <3>2. PageOf(y + 1) = PageOf(y) /\ (y + 1) % PageWords = (y % PageWords) + 1
      BY <2>4, <3>1, WithinPage
    <3>. QED
      BY <2>3, <3>2
  <2>6. y + 1 \in Owned(Started, own)
    BY <2>4, <2>5 DEF Owned
  <2>. QED
    BY <2>3, <2>5, <2>6
<1>4. ASSUME NEW h \in Heaps, NEW x \in Members(stk[h], dep[h])
      PROVE  x \in Owned(Started, own)
  BY <1>1 DEF Owned
<1>. QED
  BY <1>2, <1>3, <1>4

\* Every page that a caller keeps through a step keeps its frame.
StaysPut ==
    \A a \in live : a \in live' =>
        \A x \in Span(a) : FrameAt(m'.ram, PageOf(x)) = FrameAt(m.ram, PageOf(x))

\* It does when every mapped page does.
LEMMA AllStay ==
    ASSUME Fits, NEW stk, NEW dep, NEW len, NEW use, NEW from,
           Inv(stk, dep, len, use, from), SameFrames(m, m', Started, Own(stk, dep))
    PROVE  StaysPut
<1>1. \A a \in live : Span(a) \subseteq Owned(Started, Own(stk, dep))
  BY KnownWords
<1>. QED
  BY <1>1 DEF StaysPut, SameFrames, Owned

\* It does when every mapped page does but one that is no caller's.
LEMMA OthersStay ==
    ASSUME Fits, NEW stk, NEW dep, NEW len, NEW use, NEW from,
           Inv(stk, dep, len, use, from), NEW own2, NEW h, NEW p,
           PageLeaves(Started, Own(stk, dep), own2, h, p), SameFrames(m, m', Started, own2),
           \A a \in live : \A x \in Span(a) : PageOf(x) # p
    PROVE  StaysPut
<1>1. \A a \in live : Span(a) \subseteq Owned(Started, Own(stk, dep))
  BY KnownWords
<1>2. ASSUME NEW a \in live, NEW x \in Span(a)
      PROVE  FrameAt(m'.ram, PageOf(x)) = FrameAt(m.ram, PageOf(x))
  <2>1. PICK g \in Started : PageOf(x) \in Own(stk, dep)[g]
    BY <1>1 DEF Owned
  <2>2. PageOf(x) # p
    OBVIOUS
  <2>3. PageOf(x) \in own2[g]
    BY <2>1, <2>2 DEF PageLeaves
  <2>. QED
    BY <2>3 DEF SameFrames
<1>. QED
  BY <1>2 DEF StaysPut

\* A machine is sound for its pages, however they are written.
LEMMA SoundFor ==
    ASSUME NEW mem, NEW dr, NEW S, NEW own, Sound(mem, dr, S, own),
           NEW own2, \A g \in S : own2[g] = own[g]
    PROVE  Sound(mem, dr, S, own2)
<1>1. \A g, h \in S : \A p \in own2[g], q \in own2[h] :
         FrameAt(mem.ram, p) = FrameAt(mem.ram, q) => p = q
  BY DEF Sound
<1>2. \A g, h \in S : \A p \in own2[g] : p \in own2[h] => g = h
  BY DEF Sound
<1>. QED
  BY <1>1, <1>2 DEF Sound

-----------------------------------------------------------------------------
(* A new page for a size class. *)

\* What is written when a page is cut into blocks.
Cut(page, d, virt, last) ==
    [i \in Offset |-> IF i % ClassSize[d] # 0 THEN page[i]
                      ELSE IF i + ClassSize[d] = PageWords THEN last
                      ELSE virt + i + ClassSize[d]]

\* Cutting a page writes the frame behind it and no other.
LEMMA CarveWrites ==
    ASSUME NEW mem \in Machines, NEW d \in Domains, NEW virt \in Nat, NEW last \in Nat,
           NEW f \in Frame, Translate(mem, virt)[1] = f,
           NEW mem2, mem2 = Carve(mem, d, virt, last)
    PROVE  /\ mem2 = [bitmap |-> mem.bitmap, ram |-> mem2.ram, tlb |-> mem.tlb]
           /\ mem2.ram \in Memory
           /\ mem2.ram[f] = Cut(mem.ram[f], d, virt, last)
           /\ \A g \in Frame : g # f => mem2.ram[g] = mem.ram[g]
<1>. DEFINE page == Cut(mem.ram[f], d, virt, last)
<1>1. /\ mem = [bitmap |-> mem.bitmap, ram |-> mem.ram, tlb |-> mem.tlb]
      /\ mem.ram \in [Frame -> [Offset -> Nat]]
  BY DEF Machines, Memory
<1>2. ClassSize[d] \in Nat
  BY HeapNumbers
<1>3. page \in [Offset -> Nat]
  <2>1. \A i \in Offset : i \in Nat
    BY DEF Offset
  <2>2. mem.ram[f] \in [Offset -> Nat]
    BY <1>1
  <2>3. \A i \in Offset : virt + i + ClassSize[d] \in Nat
    BY <1>2, <2>1
  <2>. QED
    BY <2>2, <2>3 DEF Cut
<1>4. mem2 = [mem EXCEPT !.ram = [mem.ram EXCEPT ![f] = page]]
  BY DEF Carve, Cut
<1>. HIDE DEF page
<1>5. mem2 = [bitmap |-> mem.bitmap, ram |-> [mem.ram EXCEPT ![f] = page], tlb |-> mem.tlb]
  BY <1>1, <1>4
<1>6. mem2.ram = [mem.ram EXCEPT ![f] = page]
  BY <1>5
<1>7. mem2.ram \in [Frame -> [Offset -> Nat]]
  BY <1>1, <1>3, <1>6
<1>. QED
  BY <1>1, <1>5, <1>6, <1>7 DEF Memory, page

\* Cutting a page into blocks: each block's first word is the link.
LEMMA CarveSound ==
    ASSUME NEW mem, NEW dr, NEW S, NEW own, Sound(mem, dr, S, own),
           NEW h \in S, NEW d \in Domains, NEW virt \in Nat, NEW last \in Nat,
           virt % PageWords = 0, PageOf(virt) \in own[h],
           NEW mem2, mem2 = Carve(mem, d, virt, last)
    PROVE  /\ Sound(mem2, dr, S, own) /\ SameFrames(mem, mem2, S, own)
           /\ \A x \in Owned(S, own) : PageOf(x) # PageOf(virt) =>
                 WordAt(mem2, x) = WordAt(mem, x)
           /\ \A y \in Nat : PageOf(y) = PageOf(virt) /\ BlockStart(d, y) =>
                 WordAt(mem2, y) = IF (y % PageWords) + ClassSize[d] = PageWords
                                   THEN last ELSE y + ClassSize[d]
<1>. DEFINE p == PageOf(virt)
            f == FrameAt(mem.ram, p)
<1>1. virt \in Owned(S, own) /\ mem \in Machines
  BY DEF Owned, Sound
<1>2. f \in Frame /\ Translate(mem, virt) = <<f, virt % PageWords>>
  BY <1>1, OwnedAddress
<1>3. Translate(mem, virt)[1] = f
  BY <1>2
<1>. HIDE DEF f
<1>4. /\ mem2 = [bitmap |-> mem.bitmap, ram |-> mem2.ram, tlb |-> mem.tlb]
      /\ mem2.ram \in Memory
      /\ mem2.ram[f] = Cut(mem.ram[f], d, virt, last)
      /\ \A g \in Frame : g # f => mem2.ram[g] = mem.ram[g]
  BY <1>1, <1>2, <1>3, CarveWrites
<1>5. Sound(mem2, dr, S, own) /\ SameFrames(mem, mem2, S, own)
  <2>1. \A g \in Frame :
           \/ mem2.ram[g] = mem.ram[g]
           \/ \E e \in S : \E q \in own[e] : FrameAt(mem.ram, q) = g
    BY <1>4 DEF f
  <2>. DEFINE ram2 == mem2.ram
  <2>2. ram2 \in Memory /\ mem2 = [bitmap |-> mem.bitmap, ram |-> ram2, tlb |-> mem.tlb]
        /\ \A g \in Frame :
           \/ ram2[g] = mem.ram[g]
           \/ \E e \in S : \E q \in own[e] : FrameAt(mem.ram, q) = g
    BY <1>4, <2>1
  <2>. HIDE DEF ram2
  <2>. QED
    BY <2>2, DataWrites
<1>6. ASSUME NEW x \in Owned(S, own), PageOf(x) # p
      PROVE  WordAt(mem2, x) = WordAt(mem, x)
  <2>1. PICK e \in S : PageOf(x) \in own[e]
    BY DEF Owned
  <2>2. FrameAt(mem.ram, PageOf(x)) # f
    BY <1>6, <2>1 DEF Sound, f
  <2>3. FrameAt(mem.ram, PageOf(x)) \in Frame
    BY OwnedAddress
  <2>4. FrameAt(mem2.ram, PageOf(x)) = FrameAt(mem.ram, PageOf(x))
    BY <1>5, <2>1 DEF SameFrames
  <2>. QED
    BY <1>4, <2>2, <2>3, <2>4 DEF WordAt
<1>7. ASSUME NEW y \in Nat, PageOf(y) = p, BlockStart(d, y)
      PROVE  WordAt(mem2, y) = IF (y % PageWords) + ClassSize[d] = PageWords
                               THEN last ELSE y + ClassSize[d]
  <2>. DEFINE i == y % PageWords
              b == ClassSize[d]
  <2>1. FrameAt(mem2.ram, p) = f
    BY <1>5 DEF SameFrames, f
  <2>2. i \in Offset /\ y = i + PageWords * p /\ virt = 0 + PageWords * p /\ p \in Nat
    BY <1>7, AddressParts
  <2>3. virt + i + b = y + b
    <3>1. i \in Nat /\ b \in Nat /\ PageWords \in Nat
      BY <2>2, HeapNumbers DEF Offset
    <3>. HIDE DEF i, p, b
    <3>2. PageWords * p \in Nat
      BY <2>2, <3>1
    <3>. QED
      BY <2>2, <3>1, <3>2
  <2>4. i % b = 0
    BY <1>7 DEF BlockStart
  <2>5. mem2.ram[f][i] = IF i + b = PageWords THEN last ELSE virt + i + b
    BY <1>4, <2>2, <2>4 DEF Cut
  <2>. QED
    BY <1>7, <2>1, <2>3, <2>5 DEF WordAt
<1>. QED
  BY <1>5, <1>6, <1>7

\* map_page had frames for the tables it needed when no entry names frame 0
\* after the step.
LEMMA TablesFound ==
    ASSUME NEW own, Sound(m, dir, Started, own), NEW h \in Started,
           NEW virt \in LowAddress, NEW f \in Frame,
           NEW mem \in DoubleMap(h, virt, f),
           mem.ram[dir[h]] = m'.ram[dir[h]] /\ mem.ram[KernelDir] = m'.ram[KernelDir],
           dir' = dir, TablesBacked'
    PROVE  /\ FirstTable(m, dir[h], virt, f) # NoFrame
           /\ SecondTable(m, dir[h], virt, f) # NoFrame
<1>. DEFINE Dirs == DirSet(dir, Started)
            p == PageOf(virt)
            i == p \div TableEntries
<1>1. m \in Machines /\ Tables(m.bitmap, m.ram, Dirs) /\ dir[h] # KernelDir
      /\ dir[h] \in Dirs
  BY DEF Sound, DirSet
<1>2. Walkable(m.bitmap, m.ram, Dirs)
  BY <1>1, TablesWalkable
<1>3. mem = MapTwice(m, dir[h], virt, f)
  BY DEF DoubleMap, MapTwice
<1>. DEFINE D == dir[h]
<1>4. D \in Dirs /\ D # KernelDir
  BY <1>1
<1>. HIDE DEF Dirs, D
<1>5. /\ Present(PdeOf(mem.ram, D, p))
      /\ FrameOf(PdeOf(mem.ram, D, p)) = FirstTable(m, D, virt, f)
      /\ Present(PdeOf(mem.ram, KernelDir, p))
      /\ FrameOf(PdeOf(mem.ram, KernelDir, p)) = SecondTable(m, D, virt, f)
  <2>1. mem = MapTwice(m, D, virt, f)
    BY <1>3 DEF D
  <2>. QED
    BY <1>1, <1>2, <1>4, <2>1, MapTwiceEntries
<1>6. i \in 0 .. KernelEntry - 1
  BY Indices, PageSlots
<1>7. ASSUME NEW E \in {KernelDir, dir[h]}
      PROVE  Present(PdeOf(mem.ram, E, p)) => FrameOf(PdeOf(mem.ram, E, p)) # NoFrame
  <2>1. Started' = Started
    BY DEF Started
  <2>2. PdeOf(mem.ram, E, p) = m'.ram[E][i]
    BY <1>7 DEF PdeOf
  <2>3. <<E, i>> \in ({KernelDir} \cup {dir[g] : g \in Started}) \X (0 .. KernelEntry - 1)
    BY <1>6
  <2>4. Present(m'.ram[E][i]) => <<E, i>> \in TableSlots'
    BY <2>1, <2>3 DEF TableSlots
  <2>5. <<E, i>> \in TableSlots' => FrameOf(m'.ram[E][i]) # NoFrame
    BY DEF TablesBacked, TableFrame
  <2>. QED
    BY <2>2, <2>4, <2>5
<1>. QED
  BY <1>5, <1>7 DEF D

-----------------------------------------------------------------------------
(* What a step leaves alone. *)

\* A step that is none of the large domain's: its list and its ranges stay.
LEMMA LargeKept ==
    ASSUME NEW stk, NEW dep, NEW len, NEW use, NEW from, Inv(stk, dep, len, use, from), Fits,
           op.kind \notin {"map", "unmap"}, op'.kind \notin {"map", "unmap"},
           lost' = lost, Held(Large)' = Held(Large),
           head'[Large] = head[Large], cursor'[Large] = cursor[Large],
           \A x \in Nat : Large \in Started /\ PageOf(x) \in Own(stk, dep)[Large] =>
              WordAt(m', x) = WordAt(m, x)
    PROVE  /\ LargeOwn(Members(stk[Large], dep[Large]))' = Own(stk, dep)[Large]
           /\ IsList(m', head'[Large], stk[Large], dep[Large])
           /\ Uses(use, from)' /\ SlotUses(stk[Large], dep[Large], len, use, from)'
           /\ CallUses(use)'
<1>. DEFINE s == Members(stk[Large], dep[Large])
            own == Own(stk, dep)[Large]
<1>1. /\ Typed /\ BootOrder /\ Lists(stk, dep) /\ Uses(use, from) /\ BlocksSplit(stk, dep)
      /\ SlotUses(stk[Large], dep[Large], len, use, from)
  BY DEF Inv
<1>2. Large \in Heaps /\ CallPages = {} /\ CallPages' = {} /\ LargeRegion' = LargeRegion
  BY DEF Heaps, CallPages, LargeRegion
<1>3. own = LargeOwn(s)
  BY <1>2 DEF Own
<1>4. LargeOwn(s)' = LargeOwn(s)
  BY <1>2 DEF LargeOwn
<1>5. ASSUME NEW x \in s
      PROVE  /\ x \in Nat /\ x + 1 \in Nat
             /\ WordAt(m', x) = WordAt(m, x) /\ WordAt(m', x + 1) = WordAt(m, x + 1)
  <2>1. /\ x \in Owned(Started, Own(stk, dep)) /\ PageOf(x + 1) = PageOf(x)
    BY <1>2, KnownWords
  <2>2. x \in Nat /\ x + 1 \in Nat /\ PageOf(x) \in own
    BY <1>3, <2>1 DEF Owned, LargeOwn
  <2>3. Large \in Started
    <3>. SUFFICES ASSUME Large \notin Started PROVE FALSE
      OBVIOUS
    <3>1. head[Large] = NULL /\ IsList(m, head[Large], stk[Large], dep[Large])
      BY <1>1, <1>2 DEF BootOrder, Lists
    <3>2. dep[Large] = 0
      <4>1. dep[Large] \in Nat /\ (dep[Large] # 0 => dep[Large] \in 1 .. dep[Large])
        BY <1>1, <1>2 DEF Lists
      <4>. QED
        BY <3>1, <4>1 DEF IsList
    <3>. QED
      BY <3>2 DEF Members
  <2>. QED
    BY <2>1, <2>2, <2>3
<1>6. IsList(m', head'[Large], stk[Large], dep[Large])
  <2>1. IsList(m, head'[Large], stk[Large], dep[Large])
    BY <1>1, <1>2 DEF Lists
  <2>2. \A x \in s : WordAt(m', x) = WordAt(m, x)
    BY <1>5
  <2>. QED
    BY <2>1, <2>2, ListKept
<1>7. Uses(use, from)'
  <2>1. ASSUME NEW a \in Held(Large) PROVE WordAt(m', a.ptr - 1) = WordAt(m, a.ptr - 1)
    <3>1. a \in live /\ ClassOf(a.size) = Large
      BY DEF Held
    <3>2. a.ptr - 1 \in Span(a) /\ Span(a) \subseteq Nat
      BY <1>1, <3>1, SpanPlace
    <3>3. PageOf(a.ptr - 1) \in own
      BY <1>1, <3>1, <3>2, SpanPlace
    <3>4. Large \in Started
      BY <1>1, <1>2, <3>1, HeldFacts
    <3>. QED
      BY <3>2, <3>3, <3>4
  <2>. QED
    BY <1>1, <1>2, <2>1 DEF Uses, HeldPages
<1>8. SlotUses(stk[Large], dep[Large], len, use, from)'
  <2>1. \A k \in 1 .. dep[Large] : stk[Large][k] \in s
    BY DEF Members
  <2>. QED
    BY <1>1, <1>2, <1>5, <2>1 DEF SlotUses
<1>9. CallUses(use)'
  BY DEF CallUses
<1>. QED
  BY <1>3, <1>4, <1>6, <1>7, <1>8, <1>9

\* A size class that a step leaves alone keeps its list and its blocks.
LEMMA SmallKept ==
    ASSUME NEW stk, NEW dep, NEW len, NEW use, NEW from, Inv(stk, dep, len, use, from), Fits,
           NEW d \in Domains, Held(d)' = Held(d),
           head'[d] = head[d], cursor'[d] = cursor[d],
           \A x \in Nat : d \in Started /\ PageOf(x) \in Own(stk, dep)[d] =>
              WordAt(m', x) = WordAt(m, x)
    PROVE  /\ SmallPages(d)' = SmallPages(d) /\ Own(stk, dep)[d] = SmallPages(d)
           /\ IsList(m', head'[d], stk[d], dep[d])
           /\ Members(stk[d], dep[d]) \cup {a.ptr : a \in Held(d)'} = Blocks(d)'
           /\ \A a \in Held(d)' : a.ptr \notin Members(stk[d], dep[d])
<1>1. Typed /\ BootOrder /\ Lists(stk, dep) /\ BlocksSplit(stk, dep)
  BY DEF Inv
<1>2. d \in Heaps /\ d # Large
  BY HeapNumbers DEF Heaps
<1>3. SmallPages(d)' = SmallPages(d) /\ Own(stk, dep)[d] = SmallPages(d)
  BY <1>2 DEF SmallPages, Own
<1>4. Blocks(d)' = Blocks(d)
  BY <1>3 DEF Blocks
<1>5. ASSUME NEW x \in Members(stk[d], dep[d]) PROVE WordAt(m', x) = WordAt(m, x)
  <2>1. x \in Owned(Started, Own(stk, dep)) /\ x \in Blocks(d)
    BY <1>1, <1>2, KnownWords DEF BlocksSplit
  <2>2. x \in Nat /\ PageOf(x) \in Own(stk, dep)[d]
    BY <1>3, <2>1 DEF Blocks
  <2>3. d \in Started
    <3>. SUFFICES ASSUME d \notin Started PROVE FALSE
      OBVIOUS
    <3>1. head[d] = NULL /\ IsList(m, head[d], stk[d], dep[d])
      BY <1>1, <1>2 DEF BootOrder, Lists
    <3>2. dep[d] = 0
      <4>1. dep[d] \in Nat /\ (dep[d] # 0 => dep[d] \in 1 .. dep[d])
        BY <1>1, <1>2 DEF Lists
      <4>. QED
        BY <3>1, <4>1 DEF IsList
    <3>. QED
      BY <3>2 DEF Members
  <2>. QED
    BY <2>2, <2>3
<1>6. IsList(m', head'[d], stk[d], dep[d])
  <2>1. IsList(m, head'[d], stk[d], dep[d])
    BY <1>1, <1>2 DEF Lists
  <2>2. \A x \in Members(stk[d], dep[d]) : WordAt(m', x) = WordAt(m, x)
    BY <1>5
  <2>. QED
    BY <2>1, <2>2, ListKept
<1>. QED
  BY <1>1, <1>3, <1>4, <1>6 DEF BlocksSplit

\* The free lists of the size classes other than d stay as they are; that of d
\* becomes another.
OtherLists(stk, dep, d) ==
    \A e \in Domains : e # d => IsList(m', head'[e], stk[e], dep[e])
NewList(stk, dep, d, s, n) ==
    IsList(m', head'[d], s, n) /\ OtherLists(stk, dep, d)

\* A step on one size class keeps the invariant when it does for that class.
LEMMA SmallStep ==
    ASSUME Fits, NEW stk, NEW dep, NEW len, NEW use, NEW from,
           Inv(stk, dep, len, use, from), NEW d \in Domains,
           Typed', BootOrder', DataKept',
           dir' = dir, lost' = lost,
           op.kind \notin {"map", "unmap"}, op'.kind \notin {"map", "unmap"},
           \A h \in Heaps : h # d =>
              head'[h] = head[h] /\ cursor'[h] = cursor[h] /\ Held(h)' = Held(h),
           \A h \in Started : h # d => \A x \in Nat : PageOf(x) \in Own(stk, dep)[h] =>
              WordAt(m', x) = WordAt(m, x),
           cursor'[d] % PageWords = 0,
           BasePage(d) <= PageOf(cursor'[d]), PageOf(cursor'[d]) <= RegionEnd(d),
           NEW stk1 \in [Nat -> Nat], NEW n1 \in Nat, IsList(m', head'[d], stk1, n1),
           Members(stk1, n1) \cup {a.ptr : a \in Held(d)'} = Blocks(d)',
           \A a \in Held(d)' : a.ptr \notin Members(stk1, n1),
           \A a, b \in live' : a.ptr = b.ptr => a = b,
           NEW own2, Sound(m', dir, Started, own2), own2[d] = SmallPages(d)',
           \A h \in Started : h # d => own2[h] = Own(stk, dep)[h]
    PROVE  IInv' /\ InvWith(len, dep[Large])' /\ OtherLists(stk, dep, d)
<1>. DEFINE stk2 == [stk EXCEPT ![d] = stk1]
            dep2 == [dep EXCEPT ![d] = n1]
<1>1. Cursors /\ Lists(stk, dep) /\ Typed
  BY DEF Inv
<1>2. d \in Heaps /\ Large \in Heaps /\ d # Large /\ Started' = Started
  BY HeapNumbers DEF Heaps, Started
<1>3. /\ stk2 \in [Heaps -> [Nat -> Nat]] /\ dep2 \in [Heaps -> Nat]
      /\ stk2[d] = stk1 /\ dep2[d] = n1
      /\ \A h \in Heaps : h # d => stk2[h] = stk[h] /\ dep2[h] = dep[h]
  BY <1>1, <1>2 DEF Lists
<1>. HIDE DEF stk2, dep2
<1>4. /\ LargeOwn(Members(stk[Large], dep[Large]))' = Own(stk, dep)[Large]
      /\ IsList(m', head'[Large], stk[Large], dep[Large])
      /\ Uses(use, from)' /\ SlotUses(stk[Large], dep[Large], len, use, from)'
      /\ CallUses(use)'
  BY <1>2, LargeKept
<1>5. ASSUME NEW e \in Domains, e # d
      PROVE  /\ SmallPages(e)' = SmallPages(e) /\ Own(stk, dep)[e] = SmallPages(e)
             /\ IsList(m', head'[e], stk[e], dep[e])
             /\ Members(stk[e], dep[e]) \cup {a.ptr : a \in Held(e)'} = Blocks(e)'
             /\ \A a \in Held(e)' : a.ptr \notin Members(stk[e], dep[e])
  <2>1. e \in Heaps
    BY DEF Heaps
  <2>2. /\ Held(e)' = Held(e) /\ head'[e] = head[e] /\ cursor'[e] = cursor[e]
        /\ \A x \in Nat : e \in Started /\ PageOf(x) \in Own(stk, dep)[e] =>
              WordAt(m', x) = WordAt(m, x)
    BY <1>5, <2>1
  <2>. QED
    BY <2>2, SmallKept
<1>6. Cursors'
  BY <1>1, <1>2 DEF Cursors, Started
<1>7. Lists(stk2, dep2)'
  <2>1. ASSUME NEW h \in Heaps PROVE IsList(m', head'[h], stk2[h], dep2[h])
    <3>1. CASE h = d
      BY <1>3, <3>1
    <3>2. CASE h = Large
      BY <1>2, <1>3, <1>4, <3>2
    <3>3. CASE h # d /\ h # Large
      <4>1. h \in Domains
        BY <3>3 DEF Heaps
      <4>. QED
        BY <1>3, <1>5, <3>3, <4>1
    <3>. QED
      BY <3>1, <3>2, <3>3
  <2>. QED
    BY <1>3, <2>1 DEF Lists
<1>8. BlocksSplit(stk2, dep2)'
  <2>1. ASSUME NEW e \in Domains
        PROVE  /\ Members(stk2[e], dep2[e]) \cup {a.ptr : a \in Held(e)'} = Blocks(e)'
               /\ \A a \in Held(e)' : a.ptr \notin Members(stk2[e], dep2[e])
    <3>1. CASE e = d
      BY <1>3, <3>1
    <3>2. CASE e # d
      <4>1. e \in Heaps
        BY DEF Heaps
      <4>. QED
        BY <1>3, <1>5, <3>2, <4>1
    <3>. QED
      BY <3>1, <3>2
  <2>. QED
    BY <2>1 DEF BlocksSplit
<1>9. stk2[Large] = stk[Large] /\ dep2[Large] = dep[Large]
  BY <1>2, <1>3
<1>10. \A h \in Started : Own(stk2, dep2)'[h] = own2[h]
  <2>. SUFFICES ASSUME NEW h \in Started PROVE Own(stk2, dep2)'[h] = own2[h]
    OBVIOUS
  <2>1. h \in Heaps
    BY DEF Started
  <2>2. CASE h = Large
    BY <1>2, <1>4, <1>9, <2>1, <2>2 DEF Own
  <2>3. CASE h = d
    BY <1>2, <2>1, <2>3 DEF Own
  <2>4. CASE h # Large /\ h # d
    <3>1. h \in Domains
      BY <2>1, <2>4, HeapNumbers
    <3>. QED
      BY <1>5, <2>1, <2>4, <3>1 DEF Own
  <2>. QED
    BY <2>2, <2>3, <2>4
<1>11. Sound(m, dir, Started, Own(stk2, dep2))'
  <2>. DEFINE o3 == Own(stk2, dep2)'
  <2>1. \A h \in Started : o3[h] = own2[h]
    BY <1>10
  <2>. HIDE DEF o3
  <2>2. Sound(m', dir, Started, o3)
    BY <2>1, SoundFor
  <2>. QED
    BY <1>2, <2>2 DEF o3
<1>12. Inv(stk2, dep2, len, use, from)'
  BY <1>4, <1>6, <1>7, <1>8, <1>9, <1>11 DEF Inv
<1>. QED
  BY <1>5, <1>9, <1>12 DEF IInv, InvWith, OtherLists

-----------------------------------------------------------------------------
(* The steps.  Each keeps the invariant, with new ghosts where lists or     *)
(* ranges change.                                                           *)

\* heap_domain_alloc with a block on the list.
LEMMA FastStep ==
    ASSUME Fits, NEW stk, NEW dep, NEW len, NEW use, NEW from,
           Inv(stk, dep, len, use, from), NEW size \in Sizes, alloc_fast(size)
    PROVE  IInv' /\ InvWith(len, dep[Large])'
<1>. DEFINE d == ClassOf(size)
            b0 == head[d]
            a == [ptr |-> b0, size |-> size]
            own == Own(stk, dep)
<1>i. /\ Typed /\ BootOrder /\ Cursors /\ Sound(m, dir, Started, own) /\ Lists(stk, dep)
      /\ BlocksSplit(stk, dep) /\ DataKept /\ Uses(use, from)
  BY DEF Inv
<1>1. op = Idle /\ op.kind = "idle" /\ d \in Domains /\ b0 # NULL /\ d \in Heaps /\ d # Large
  BY <1>i, CallKinds, HeapNumbers DEF alloc_fast, Typed, Heaps
<1>2. IsList(m, b0, stk[d], dep[d]) /\ Started = Heaps
  BY <1>i, <1>1 DEF Lists, BootOrder
<1>3. Popped(m, b0, stk[d], dep[d])
  BY <1>1, <1>2, ListPop
<1>4. Mapped(m, b0) /\ Read(m, b0) = WordAt(m, b0) /\ WordAt(m, b0) \in Nat
  <2>1. b0 \in Owned(Started, own)
    BY <1>1, <1>3, KnownWords DEF Popped
  <2>. HIDE DEF own, b0
  <2>. QED
    BY <1>i, <2>1, OwnedAddress
<1>5. /\ head' = [head EXCEPT ![d] = WordAt(m, b0)]
      /\ live' = live \cup {a} /\ op' = [kind |-> "fill", of |-> a]
      /\ m' = m /\ dir' = dir /\ cursor' = cursor /\ lost' = lost /\ cpu' = cpu
  BY <1>4 DEF alloc_fast, Return
<1>6. ASSUME NEW c \in live PROVE c.ptr # b0
  <2>1. c.ptr \in Span(c)
    BY <1>i, SpanPlace
  <2>2. c.ptr \notin Members(stk[d], dep[d])
    <3>. HIDE DEF d
    <3>. QED
      BY <1>1, <2>1, SpansApart
  <2>. QED
    BY <1>3, <2>2 DEF Popped
<1>7. b0 \in Nat /\ size \in Nat
  BY <1>i, <1>1, PagesForFacts DEF Typed
<1>9. Held(d)' = Held(d) \cup {a} /\ \A h : h # d => Held(h)' = Held(h)
  BY <1>5 DEF Held
<1>. HIDE DEF b0, a, d, own
<1>a. a.ptr = b0 /\ a.size = size /\ a \in [ptr : Nat, size : Sizes]
  BY <1>7 DEF a
<1>10. Typed'
  <2>1. live' \subseteq [ptr : Nat, size : Sizes] /\ a \in live'
    BY <1>i, <1>5, <1>a DEF Typed
  <2>2. op' \in Calls'
    BY <1>5, <2>1 DEF Calls
  <2>3. head' \in [Heaps -> Nat]
    BY <1>i, <1>1, <1>4, <1>5 DEF Typed
  <2>. QED
    BY <1>i, <1>5, <2>1, <2>2, <2>3 DEF Typed
<1>11. Started' = Started /\ op'.kind = "fill"
  BY <1>5 DEF Started
<1>12. BootOrder'
  BY <1>2, <1>5, <1>11 DEF BootOrder
<1>13. DataKept'
  <2>. SUFFICES ASSUME NEW c \in live', op' # [kind |-> "fill", of |-> c],
                       NEW x \in UserWords(c)
                PROVE  WordAt(m', x) = x
    BY DEF DataKept, UserWords
  <2>1. c \in live
    BY <1>5
  <2>2. op # [kind |-> "fill", of |-> c]
    BY <1>1
  <2>. QED
    BY <1>i, <1>5, <2>1, <2>2 DEF DataKept
<1>14. \A h \in Heaps : h # d =>
          head'[h] = head[h] /\ cursor'[h] = cursor[h] /\ Held(h)' = Held(h)
  BY <1>i, <1>5, <1>9 DEF Typed
<1>15. SmallPages(d)' = SmallPages(d) /\ Blocks(d)' = Blocks(d) /\ own[d] = SmallPages(d)
  BY <1>1, <1>5 DEF Blocks, SmallPages, own, Own
<1>16. /\ cursor'[d] % PageWords = 0
       /\ BasePage(d) <= PageOf(cursor'[d]) /\ PageOf(cursor'[d]) <= RegionEnd(d)
  BY <1>i, <1>1, <1>2, <1>5 DEF Cursors
<1>17. /\ stk[d] \in [Nat -> Nat] /\ dep[d] - 1 \in Nat
       /\ IsList(m', head'[d], stk[d], dep[d] - 1)
  BY <1>i, <1>1, <1>3, <1>5 DEF Popped, Typed, Lists
<1>18. /\ Members(stk[d], dep[d] - 1) \cup {c.ptr : c \in Held(d)'} = Blocks(d)'
       /\ \A c \in Held(d)' : c.ptr \notin Members(stk[d], dep[d] - 1)
  <2>1. \A c \in Held(d) : c \in live
    BY DEF Held
  <2>2. /\ Members(stk[d], dep[d]) \cup {c.ptr : c \in Held(d)} = Blocks(d)
        /\ \A c \in Held(d) : c.ptr \notin Members(stk[d], dep[d])
    BY <1>i, <1>1 DEF BlocksSplit
  <2>. QED
    BY <1>3, <1>6, <1>9, <1>a, <1>15, <2>1, <2>2 DEF Popped
<1>19. \A c, e \in live' : c.ptr = e.ptr => c = e
  BY <1>i, <1>5, <1>6, <1>a DEF BlocksSplit
<1>20. /\ op.kind \notin {"map", "unmap"} /\ op'.kind \notin {"map", "unmap"}
       /\ Sound(m', dir, Started, own)
       /\ \A h \in Started : h # d => \A x \in Nat : PageOf(x) \in own[h] =>
              WordAt(m', x) = WordAt(m, x)
  BY <1>i, <1>1, <1>5, <1>11
<1>. DEFINE n1 == dep[d] - 1
            s1 == stk[d]
<1>. HIDE DEF n1, s1
<1>21. /\ s1 \in [Nat -> Nat] /\ n1 \in Nat /\ IsList(m', head'[d], s1, n1)
       /\ Members(s1, n1) \cup {c.ptr : c \in Held(d)'} = Blocks(d)'
       /\ \A c \in Held(d)' : c.ptr \notin Members(s1, n1)
  BY <1>17, <1>18 DEF n1, s1
<1>. QED
  BY <1>1, <1>5, <1>10, <1>12, <1>13, <1>14, <1>15, <1>16, <1>19, <1>20, <1>21, SmallStep
     DEF own

\* The address tests find the region an address is in.
LEMMA RouteOf ==
    ASSUME NEW h \in Heaps, NEW x \in Nat, BasePage(h) <= PageOf(x),
           h # Large => PageOf(x) < RegionEnd(h)
    PROVE  Route(x) = h
<1>. DEFINE p == PageOf(x)
<1>1. p \in Nat /\ h \in Nat /\ Large \in Nat /\ h <= Large /\ RegionPages \in Nat \ {0}
  BY AddressParts, HeapNumbers
<1>2. ASSUME NEW g \in Nat PROVE (Base(g) <= x) <=> (BasePage(g) <= p)
  BY BaseIsPage, PageOrder
<1>. HIDE DEF p
<1>3. ASSUME NEW g \in Nat
      PROVE  Base(g) \in Nat /\ BasePage(g) \in Nat /\ (x < Base(g) <=> p < BasePage(g))
  <2>1. Base(g) \in Nat /\ BasePage(g) \in Nat
    BY BaseIsPage
  <2>. QED
    BY <1>1, <1>2, <2>1
<1>4. CASE h = Large
  BY <1>1, <1>2, <1>4 DEF Route, p
<1>5. CASE h # Large
  <2>1. h \in Domains /\ RegionEnd(h) = BasePage(h + 1) /\ p < BasePage(h + 1)
        /\ BasePage(h) <= p
    BY <1>5 DEF Heaps, RegionEnd, p
  <2>2. ASSUME NEW g \in Nat, NEW e \in Nat, g <= e PROVE BasePage(g) <= BasePage(e)
    <3>1. RegionPages * g <= RegionPages * e
      BY <1>1, <2>2, ProductMonotone
    <3>. QED
      BY <1>1, <3>1 DEF BasePage
  <2>3. ~(x >= Base(Large))
    <3>1. h + 1 <= Large /\ h + 1 \in Nat
      BY <1>1, <1>5
    <3>2. BasePage(h + 1) <= BasePage(Large)
      BY <1>1, <2>2, <3>1
    <3>3. p < BasePage(Large)
      BY <1>1, <1>3, <2>1, <3>1, <3>2
    <3>. QED
      BY <1>1, <1>3, <3>3
  <2>4. ASSUME NEW d \in Domains PROVE (x >= Base(d) /\ x < Base(d + 1)) <=> d = h
    <3>1. d \in Nat /\ d + 1 \in Nat /\ h + 1 \in Nat
      BY <1>1, HeapNumbers
    <3>2. (x >= Base(d) /\ x < Base(d + 1)) <=> (BasePage(d) <= p /\ p < BasePage(d + 1))
      BY <1>2, <1>3, <3>1
    <3>3. ASSUME d + 1 <= h, p < BasePage(d + 1) PROVE FALSE
      <4>1. BasePage(d + 1) <= BasePage(h)
        BY <1>1, <2>2, <3>1, <3>3
      <4>. QED
        BY <1>1, <1>3, <2>1, <3>1, <3>3, <4>1
    <3>4. ASSUME h + 1 <= d, BasePage(d) <= p PROVE FALSE
      <4>1. BasePage(h + 1) <= BasePage(d)
        BY <1>1, <2>2, <3>1, <3>4
      <4>. QED
        BY <1>1, <1>3, <2>1, <3>1, <3>4, <4>1
    <3>. QED
      BY <1>1, <2>1, <3>1, <3>2, <3>3, <3>4
  <2>5. (CHOOSE d \in Domains : x >= Base(d) /\ x < Base(d + 1)) = h
    BY <2>1, <2>4
  <2>. QED
    BY <2>1, <2>3, <2>4, <2>5 DEF Route
<1>. QED
  BY <1>4, <1>5

\* kfree finds the heap of every pointer that callers hold.
LEMMA RouteOfHeld ==
    ASSUME Fits, NEW stk, NEW dep, NEW len, NEW use, NEW from,
           Inv(stk, dep, len, use, from), NEW a \in live
    PROVE  Route(a.ptr) = ClassOf(a.size)
<1>. DEFINE h == ClassOf(a.size)
            own == Own(stk, dep)
<1>1. /\ Typed /\ BootOrder /\ Cursors /\ Lists(stk, dep)
      /\ BlocksSplit(stk, dep) /\ Uses(use, from) /\ CallUses(use)
      /\ SlotUses(stk[Large], dep[Large], len, use, from)
  BY DEF Inv
<1>2. Started = Heaps /\ a.ptr \in Nat /\ h \in Heaps
  BY <1>1, HeldFacts
<1>3. PageOf(a.ptr) \in own[h]
  BY <1>1, SpanPlace
<1>. HIDE DEF h
<1>4. BasePage(h) <= PageOf(a.ptr) /\ PageOf(a.ptr) < RegionEnd(h)
  BY <1>1, <1>2, <1>3, OwnInRegion
<1>. QED
  BY <1>2, <1>4, RouteOf DEF h

\* An address in a region is not NULL.
LEMMA NotNull ==
    ASSUME NEW x \in Nat, PageOf(x) > 0
    PROVE  x # NULL
<1>. SUFFICES ASSUME x = 0 PROVE FALSE
  BY DEF NULL
<1>1. 0 \div PageWords = 0
  BY HeapNumbers
<1>. QED
  BY <1>1 DEF PageOf

\* heap_domain_free.
LEMMA FreeStep ==
    ASSUME Fits, NEW stk, NEW dep, NEW len, NEW use, NEW from,
           Inv(stk, dep, len, use, from), NEW a \in live, free_small(a),
           NEW d, d = ClassOf(a.size)
    PROVE  /\ IInv' /\ InvWith(len, dep[Large])' /\ StaysPut
           /\ NewList(stk, dep, d, Pushed(stk[d], dep[d], a.ptr), dep[d] + 1)
<1>. DEFINE x0 == a.ptr
            own == Own(stk, dep)
<1>i. /\ Typed /\ BootOrder /\ Cursors /\ Sound(m, dir, Started, own) /\ Lists(stk, dep)
      /\ BlocksSplit(stk, dep) /\ DataKept /\ Uses(use, from) /\ CallUses(use)
      /\ SlotUses(stk[Large], dep[Large], len, use, from)
  BY DEF Inv
<1>0. Route(a.ptr) = d
  BY RouteOfHeld
<1>1. op = Idle /\ op.kind = "idle" /\ d \in Domains /\ d \in Heaps /\ d # Large
  BY <1>i, <1>0, CallKinds, HeapNumbers DEF free_small, Typed, Heaps
<1>2. /\ Started = Heaps /\ a \in Held(d) /\ x0 \in Nat
      /\ x0 \in Span(a) /\ Span(a) \subseteq Owned(Started, own)
      /\ PageOf(x0) \in own[d] /\ x0 \in Blocks(d)
  BY <1>i, <1>1, HeldFacts, SpanPlace, KnownWords
<1>3. x0 # NULL
  <2>1. BasePage(d) <= PageOf(x0) /\ PageOf(x0) < RegionEnd(d) /\ PageOf(x0) \in Nat
    <3>. HIDE DEF x0
    <3>. QED
      BY <1>i, <1>1, <1>2, OwnInRegion DEF own
  <2>2. PageOf(x0) > 0
    <3>. HIDE DEF x0
    <3>. QED
      BY <1>1, <2>1, RegionLow
  <2>. QED
    BY <1>2, <2>2, NotNull
<1>. HIDE DEF own
<1>4. Mapped(m, x0)
  BY <1>i, <1>2, OwnedAddress
<1>5. /\ m' = Write(m, x0, head[d]) /\ head' = [head EXCEPT ![d] = x0]
      /\ live' = live \ {a} /\ op' = op
      /\ dir' = dir /\ cursor' = cursor /\ lost' = lost /\ cpu' = cpu
  BY <1>0, <1>4 DEF free_small
<1>6. head[d] \in Nat /\ IsList(m, head[d], stk[d], dep[d])
  BY <1>i, <1>1 DEF Typed, Lists
<1>7. Held(d)' = Held(d) \ {a} /\ \A h : h # d => Held(h)' = Held(h)
  BY <1>5 DEF Held
<1>8. x0 \notin Members(stk[d], dep[d])
  BY <1>i, <1>1, <1>2 DEF BlocksSplit
<1>9. ASSUME NEW c \in live, c # a PROVE c.ptr # x0
  BY <1>i, <1>9 DEF BlocksSplit
<1>. DEFINE v == head[d]
<1>. HIDE DEF x0, v
<1>10. /\ Sound(m', dir, Started, own) /\ SameFrames(m, m', Started, own)
       /\ \A y \in Owned(Started, own) :
             WordAt(m', y) = IF y = x0 THEN v ELSE WordAt(m, y)
  <2>1. v \in Nat /\ x0 \in Owned(Started, own) /\ m' = Write(m, x0, v)
    BY <1>2, <1>5, <1>6 DEF v
  <2>. QED
    BY <1>i, <2>1, WriteWord
<1>11. Typed'
  <2>1. live' \subseteq [ptr : Nat, size : Sizes] /\ op' \in Calls'
    BY <1>i, <1>1, <1>5 DEF Typed, Calls
  <2>. QED
    BY <1>i, <1>1, <1>2, <1>5, <2>1 DEF Typed
<1>12. Started' = Started
  BY <1>5 DEF Started
<1>13. BootOrder'
  BY <1>1, <1>2, <1>5, <1>12 DEF BootOrder
<1>14. \A h \in Heaps : h # d =>
          head'[h] = head[h] /\ cursor'[h] = cursor[h] /\ Held(h)' = Held(h)
  BY <1>i, <1>5, <1>7 DEF Typed
<1>15. /\ SmallPages(d)' = SmallPages(d) /\ Blocks(d)' = Blocks(d) /\ own[d] = SmallPages(d)
  BY <1>1, <1>5 DEF Blocks, SmallPages, own, Own
<1>16. /\ cursor'[d] % PageWords = 0
       /\ BasePage(d) <= PageOf(cursor'[d]) /\ PageOf(cursor'[d]) <= RegionEnd(d)
  BY <1>i, <1>1, <1>2, <1>5 DEF Cursors
\* the other words
<1>17. ASSUME NEW h \in Started, h # d, NEW x \in Nat, PageOf(x) \in own[h]
       PROVE  WordAt(m', x) = WordAt(m, x)
  <2>1. x \in Owned(Started, own)
    BY <1>17 DEF Owned
  <2>2. x # x0
    BY <1>i, <1>1, <1>2, <1>17 DEF Sound
  <2>. QED
    BY <1>10, <2>1, <2>2
<1>18. DataKept'
  <2>. SUFFICES ASSUME NEW c \in live', NEW x \in UserWords(c)
                PROVE  WordAt(m', x) = x
    BY DEF DataKept, UserWords
  <2>1. c \in live /\ c # a /\ op # [kind |-> "fill", of |-> c]
    BY <1>1, <1>5
  <2>2. x \in Span(c) /\ Span(c) \subseteq Owned(Started, own)
    BY <1>i, <2>1, SpanPlace, KnownWords DEF own
  <2>3. x # x0
    BY <1>2, <2>1, <2>2, SpansApart
  <2>4. WordAt(m, x) = x
    BY <1>i, <2>1 DEF DataKept
  <2>. QED
    BY <1>10, <2>2, <2>3, <2>4
\* the list
<1>. DEFINE s == stk[d]
            n == dep[d]
            s1 == Pushed(s, n, x0)
            n1 == n + 1
<1>19. IsList(m, v, s, n) /\ x0 \notin Members(s, n)
       /\ s \in [Nat -> Nat] /\ n \in Nat
  BY <1>i, <1>1, <1>6, <1>8 DEF v, Lists
<1>20. \A y \in Members(s, n) : WordAt(m', y) = WordAt(m, y)
  <2>. SUFFICES ASSUME NEW y \in Members(s, n) PROVE WordAt(m', y) = WordAt(m, y)
    OBVIOUS
  <2>1. y \in Owned(Started, own)
    BY <1>1, KnownWords DEF own
  <2>. QED
    BY <1>10, <1>19, <2>1
<1>21. WordAt(m', x0) = v
  BY <1>2, <1>10
<1>. HIDE DEF s, n
<1>22. IsList(m', x0, s1, n1) /\ Members(s1, n1) = Members(s, n) \cup {x0}
  BY <1>2, <1>3, <1>19, <1>20, <1>21, ListPush
<1>23. s1 \in [Nat -> Nat] /\ n1 \in Nat
  BY <1>2, <1>19 DEF Pushed
<1>24. head'[d] = x0
  BY <1>i, <1>1, <1>5 DEF Typed
<1>25. /\ Members(s1, n1) \cup {c.ptr : c \in Held(d)'} = Blocks(d)'
       /\ \A c \in Held(d)' : c.ptr \notin Members(s1, n1)
  <2>1. \A c \in Held(d) : c \in live
    BY DEF Held
  <2>2. /\ Members(s, n) \cup {c.ptr : c \in Held(d)} = Blocks(d)
        /\ \A c \in Held(d) : c.ptr \notin Members(s, n)
    BY <1>i, <1>1 DEF BlocksSplit, s, n
  <2>3. a.ptr = x0
    BY DEF x0
  <2>. QED
    BY <1>2, <1>7, <1>9, <1>15, <1>22, <2>1, <2>2, <2>3
<1>26. \A c, e \in live' : c.ptr = e.ptr => c = e
  BY <1>i, <1>5 DEF BlocksSplit
<1>. HIDE DEF s1, n1
<1>27. op.kind \notin {"map", "unmap"} /\ op'.kind \notin {"map", "unmap"}
  BY <1>1, <1>5
<1>28. IsList(m', head'[d], s1, n1)
  BY <1>22, <1>24
<1>inv. IInv' /\ InvWith(len, dep[Large])' /\ OtherLists(stk, dep, d)
  BY <1>1, <1>5, <1>10, <1>11, <1>13, <1>14, <1>15, <1>16, <1>17, <1>18, <1>23, <1>25,
     <1>26, <1>27, <1>28, SmallStep DEF own
<1>stay. StaysPut
  <2>1. SameFrames(m, m', Started, Own(stk, dep))
    BY <1>10 DEF own
  <2>. QED
    BY <2>1, AllStay
<1>. QED
  BY <1>inv, <1>28, <1>stay DEF NewList, s1, n1, s, n, x0

\* A page of one region is in no other.
LEMMA RegionsApart ==
    ASSUME NEW g \in Heaps, NEW h \in Heaps, NEW p \in Nat,
           BasePage(g) <= p, p < RegionEnd(g), BasePage(h) <= p, p < RegionEnd(h)
    PROVE  g = h
<1>1. g \in Nat /\ h \in Nat /\ BasePage(g) \in Nat /\ BasePage(h) \in Nat
      /\ RegionEnd(g) \in Nat /\ RegionEnd(h) \in Nat
  BY HeapNumbers DEF BasePage, RegionEnd
<1>2. ~(g < h)
  BY <1>1, RegionOrder
<1>3. ~(h < g)
  BY <1>1, RegionOrder
<1>. QED
  BY <1>1, <1>2, <1>3

\* The page at the cursor of a size class is free, and has room in the region
\* when the cursor may move past it.
LEMMA FreshPage ==
    ASSUME Fits, NEW stk, NEW dep, NEW len, NEW use, NEW from,
           Inv(stk, dep, len, use, from), NEW d \in Domains, d \in Started,
           NEW virt, virt = cursor[d],
           NEW after, after = virt + PageWords, after <= Base(d + 1)
    PROVE  /\ virt \in LowAddress /\ virt % PageWords = 0 /\ virt # NULL
           /\ \A g \in Started : PageOf(virt) \notin Own(stk, dep)[g]
           /\ after \in Nat /\ PageOf(after) = PageOf(virt) + 1 /\ after % PageWords = 0
           /\ BasePage(d) <= PageOf(after) /\ PageOf(after) <= RegionEnd(d)
<1>. DEFINE p == PageOf(virt)
            own == Own(stk, dep)
<1>i. /\ Typed /\ BootOrder /\ Cursors /\ Lists(stk, dep)
      /\ BlocksSplit(stk, dep) /\ Uses(use, from) /\ CallUses(use)
      /\ SlotUses(stk[Large], dep[Large], len, use, from)
  BY DEF Inv
<1>1. d \in Heaps /\ d # Large /\ virt \in Nat /\ virt % PageWords = 0 /\ BasePage(d) <= p
      /\ p \in Nat /\ d \in Nat /\ d + 1 \in Nat
  BY <1>i, HeapNumbers, AddressParts DEF Heaps, Typed, Cursors
<1>2. after \in Nat /\ PageOf(after) = p + 1 /\ after % PageWords = 0
  <2>1. after = virt + 1 * PageWords
    BY HeapNumbers
  <2>2. virt + 1 * PageWords \in Nat /\ PageOf(virt + 1 * PageWords) = p + 1
        /\ (virt + 1 * PageWords) % PageWords = virt % PageWords
    BY <1>1, ByPages
  <2>. QED
    BY <1>1, <2>1, <2>2
<1>3. PageOf(after) <= RegionEnd(d)
  <2>1. Base(d + 1) \in Nat /\ PageOf(Base(d + 1)) = BasePage(d + 1)
    BY <1>1, BaseIsPage
  <2>2. PageOf(after) <= PageOf(Base(d + 1))
    BY <1>2, <2>1, PageOrder
  <2>. QED
    BY <1>1, <2>1, <2>2 DEF RegionEnd
<1>4. RegionEnd(d) \in Nat /\ BasePage(d) \in Nat
  BY <1>1, HeapNumbers DEF RegionEnd, BasePage
<1>5. p < RegionEnd(d) /\ p \in LowPages /\ p > 0
  <2>1. p < RegionEnd(d)
    BY <1>1, <1>2, <1>3, <1>4
  <2>. HIDE DEF p
  <2>. QED
    BY <1>1, <2>1, RegionLow
<1>6. ASSUME NEW g \in Started, p \in own[g] PROVE FALSE
  <2>1. g \in Heaps
    BY DEF Started
  <2>2. BasePage(g) <= p /\ p < RegionEnd(g)
    BY <1>i, <1>6, OwnInRegion
  <2>3. g = d
    <3>. HIDE DEF p
    <3>. QED
      BY <1>1, <1>5, <2>1, <2>2, RegionsApart
  <2>4. own[d] = SmallPages(d)
    BY <1>1 DEF Own
  <2>. QED
    BY <1>1, <1>6, <2>3, <2>4 DEF SmallPages
<1>7. virt # NULL
  BY <1>1, <1>5, NotNull
<1>. QED
  BY <1>1, <1>2, <1>3, <1>4, <1>5, <1>6, <1>7 DEF LowAddress

\* A size class gets a page: it is mapped, cut, and in front of the list, and
\* every word that was there stays.
LEMMA PageAdded ==
    ASSUME Fits, NEW stk, NEW dep, NEW len, NEW use, NEW from,
           Inv(stk, dep, len, use, from), NEW d \in Domains, d \in Started,
           NEW virt, virt = cursor[d], virt + PageWords <= Base(d + 1),
           NEW f, f = ProcessFrame, f # NoFrame, NEW mem \in DoubleMap(d, virt, f),
           m' = Carve(mem, d, virt, head[d]), dir' = dir, TablesBacked',
           NEW own2, PageJoins(Started, Own(stk, dep), own2, d, PageOf(virt)),
           NEW s1, NEW n1, CutStack(d, stk[d], dep[d], virt, s1, n1)
    PROVE  /\ Sound(m', dir, Started, own2)
           /\ SameFrames(m, m', Started, Own(stk, dep))
           /\ \A x \in Owned(Started, Own(stk, dep)) : WordAt(m', x) = WordAt(m, x)
           /\ IsList(m', virt, s1, n1)
           /\ Members(s1, n1) = Members(stk[d], dep[d]) \cup PageStarts(d, virt)
<1>. DEFINE p == PageOf(virt)
            own == Own(stk, dep)
            v == head[d]
<1>i. /\ Typed /\ Sound(m, dir, Started, own) /\ Lists(stk, dep) /\ BlocksSplit(stk, dep)
  BY DEF Inv
<1>1. d \in Heaps /\ v \in Nat /\ IsList(m, v, stk[d], dep[d]) /\ NumFrames <= AddressableFrames
  BY <1>i DEF Heaps, Typed, Lists, Fits
<1>2. /\ virt \in LowAddress /\ virt % PageWords = 0 /\ virt # NULL /\ virt \in Nat
      /\ \A g \in Started : p \notin own[g]
  <2>. DEFINE after == virt + PageWords
  <2>1. after <= Base(d + 1)
    OBVIOUS
  <2>. HIDE DEF after
  <2>2. after = virt + PageWords
    BY DEF after
  <2>. QED
    BY <2>1, <2>2, FreshPage DEF LowAddress
<1>3. f \in Frame \ (m.bitmap \cup Image)
  <2>1. m.bitmap \in SUBSET Frame /\ Image \subseteq m.bitmap
    BY <1>i DEF Sound, Tables
  <2>. QED
    BY <2>1, ProcessFrameFound DEF ProcessFrame
<1>. DEFINE D == dir[d]
            Dirs == DirSet(dir, Started)
<1>4. /\ m \in Machines /\ Tables(m.bitmap, m.ram, Dirs) /\ D \in Dirs /\ D # KernelDir
      /\ Dirs \subseteq m.bitmap /\ KernelDir \in Dirs /\ m.bitmap \subseteq Frame
  BY <1>i DEF Sound, Tables, DirSet
<1>5. mem = MapTwice(m, D, virt, f)
  BY DEF DoubleMap, MapTwice
<1>. HIDE DEF own, v, D, Dirs, p
<1>6. mem \in Machines /\ Translate(mem, virt) = <<f, virt % PageWords>>
  BY <1>2, <1>3, <1>4, <1>5, TablesWalkable, MapTwiceEntries
<1>7. \A g \in Frame : g # f => m'.ram[g] = mem.ram[g]
  <2>1. Translate(mem, virt)[1] = f /\ m' = Carve(mem, d, virt, v)
    BY <1>6 DEF v
  <2>. QED
    BY <1>1, <1>2, <1>3, <1>6, <2>1, CarveWrites
<1>8. mem.ram[D] = m'.ram[D] /\ mem.ram[KernelDir] = m'.ram[KernelDir]
  BY <1>3, <1>4, <1>7
<1>9. FirstTable(m, D, virt, f) # NoFrame /\ SecondTable(m, D, virt, f) # NoFrame
  BY <1>i, <1>2, <1>3, <1>8, TablesFound DEF D
<1>10. /\ Sound(mem, dir, Started, own2) /\ KeepsPages(m, mem, Started, own)
  <2>1. /\ FirstTable(m, dir[d], virt, f) # NoFrame
        /\ SecondTable(m, dir[d], virt, f) # NoFrame
        /\ mem = MapTwice(m, dir[d], virt, f) /\ p = PageOf(virt)
        /\ f \in Frame \ m.bitmap /\ PageJoins(Started, own, own2, d, p)
    BY <1>2, <1>3, <1>5, <1>9 DEF D, p, own
  <2>. QED
    BY <1>i, <1>1, <1>2, <2>1, MapTwiceSound
<1>11. SameWords(m, mem, Started, own) /\ SameFrames(m, mem, Started, own)
  BY <1>10, KeptWords
<1>12. p \in own2[d] /\ p = PageOf(virt) /\ m' = Carve(mem, d, virt, v)
  BY DEF p, v, own, PageJoins
<1>13. /\ Sound(m', dir, Started, own2) /\ SameFrames(mem, m', Started, own2)
       /\ \A x \in Owned(Started, own2) : PageOf(x) # PageOf(virt) =>
             WordAt(m', x) = WordAt(mem, x)
       /\ \A y \in Nat : PageOf(y) = PageOf(virt) /\ BlockStart(d, y) =>
             WordAt(m', y) = IF (y % PageWords) + ClassSize[d] = PageWords
                             THEN v ELSE y + ClassSize[d]
  BY <1>1, <1>2, <1>10, <1>12, CarveSound
<1>14. ASSUME NEW x \in Owned(Started, own)
       PROVE  WordAt(m', x) = WordAt(m, x) /\ PageOf(x) # PageOf(virt)
  <2>1. PICK g \in Started : PageOf(x) \in own[g]
    BY DEF Owned
  <2>2. PageOf(x) # PageOf(virt)
    BY <1>2, <2>1 DEF p
  <2>3. x \in Owned(Started, own2)
    BY <2>1 DEF Owned, own, PageJoins
  <2>. QED
    BY <1>11, <1>13, <2>2, <2>3 DEF SameWords
<1>15. \A y \in Members(stk[d], dep[d]) : WordAt(m', y) = WordAt(m, y)
                                          /\ PageOf(y) # PageOf(virt)
  BY <1>1, <1>14, KnownWords DEF own
<1>. DEFINE s == stk[d]
            n == dep[d]
<1>16. /\ IsList(m, v, s, n) /\ CutStack(d, s, n, virt, s1, n1)
       /\ CutWords(d, m, m', v, Members(s, n), virt)
  BY <1>1, <1>13, <1>15 DEF CutWords
<1>. HIDE DEF s, n
<1>17. /\ IsList(m', virt, s1, n1)
       /\ Members(s1, n1) = Members(s, n) \cup PageStarts(d, virt)
  BY <1>2, <1>16, ListCut
<1>18. SameFrames(m, m', Started, own)
  <2>1. \A g \in Started : own[g] \subseteq own2[g]
    BY DEF PageJoins, own
  <2>. QED
    BY <1>11, <1>13, <2>1 DEF SameFrames
<1>. QED
  BY <1>13, <1>14, <1>17, <1>18 DEF s, n, own

\* The pages and blocks of a size class whose cursor has moved by a page.
LEMMA Grown ==
    ASSUME NEW d \in Domains, NEW virt \in Nat, virt = cursor[d],
           BasePage(d) <= PageOf(virt), PageOf(cursor'[d]) = PageOf(virt) + 1
    PROVE  /\ SmallPages(d)' = SmallPages(d) \cup {PageOf(virt)}
           /\ Blocks(d)' = Blocks(d) \cup PageStarts(d, virt)
<1>1. PageOf(virt) \in Nat /\ BasePage(d) \in Nat
  <2>1. d \in Nat
    BY HeapNumbers
  <2>. QED
    BY <2>1, AddressParts, BaseIsPage
<1>2. SmallPages(d)' = SmallPages(d) \cup {PageOf(virt)}
  BY <1>1 DEF SmallPages
<1>. QED
  BY <1>2 DEF Blocks, PageStarts

\* What callers have written stays when no mapped word changes.
LEMMA DataStays ==
    ASSUME Fits, NEW stk, NEW dep, NEW len, NEW use, NEW from,
           Inv(stk, dep, len, use, from),
           \A x \in Owned(Started, Own(stk, dep)) : WordAt(m', x) = WordAt(m, x),
           \A c \in live' : op' # [kind |-> "fill", of |-> c] =>
              c \in live /\ op # [kind |-> "fill", of |-> c]
    PROVE  DataKept'
<1>. SUFFICES ASSUME NEW c \in live', op' # [kind |-> "fill", of |-> c],
                     NEW x \in UserWords(c)
              PROVE  WordAt(m', x) = x
  BY DEF DataKept, UserWords
<1>1. c \in live /\ op # [kind |-> "fill", of |-> c]
  OBVIOUS
<1>2. x \in Span(c) /\ Span(c) \subseteq Owned(Started, Own(stk, dep))
  BY <1>1, SpanPlace, KnownWords DEF Inv
<1>3. WordAt(m, x) = x
  BY <1>1 DEF Inv, DataKept
<1>. QED
  BY <1>2, <1>3

\* Nothing happens.
LEMMA Stutter ==
    ASSUME NEW stk, NEW dep, NEW len, NEW use, NEW from, Inv(stk, dep, len, use, from),
           UNCHANGED vars
    PROVE  IInv' /\ InvWith(len, dep[Large])'
<1>1. /\ m' = m /\ dir' = dir /\ cursor' = cursor /\ head' = head /\ live' = live
      /\ lost' = lost /\ op' = op /\ cpu' = cpu
  BY DEF vars
<1>2. Typed' /\ BootOrder' /\ Cursors' /\ Started' = Started
  BY <1>1 DEF Inv, Typed, Calls, BootOrder, Cursors, Started
<1>3. Own(stk, dep)' = Own(stk, dep)
  <2>1. CallPages' = CallPages /\ \A g : Held(g)' = Held(g) /\ SmallPages(g)' = SmallPages(g)
    BY <1>1 DEF CallPages, Held, SmallPages
  <2>2. LargeOwn(Members(stk[Large], dep[Large]))' = LargeOwn(Members(stk[Large], dep[Large]))
    BY <1>1, <2>1 DEF LargeOwn
  <2>. QED
    BY <2>1, <2>2 DEF Own
<1>4. Sound(m, dir, Started, Own(stk, dep))'
  BY <1>1, <1>2, <1>3 DEF Inv
<1>5. Lists(stk, dep)' /\ BlocksSplit(stk, dep)' /\ DataKept'
  BY <1>1 DEF Inv, Lists, BlocksSplit, Blocks, SmallPages, Held, DataKept, UserWords
<1>6. Uses(use, from)' /\ SlotUses(stk[Large], dep[Large], len, use, from)' /\ CallUses(use)'
  BY <1>1 DEF Inv, Uses, SlotUses, CallUses, Held, LargeRegion
<1>7. Inv(stk, dep, len, use, from)'
  BY <1>2, <1>4, <1>5, <1>6 DEF Inv
<1>. QED
  BY <1>7 DEF IInv, InvWith

\* The process scan does not stop on frame 0.
LEMMA NoHang ==
    ASSUME NEW own, Sound(m, dir, Started, own)
    PROVE  ~ScanHangs
<1>1. Image \subseteq m.bitmap
  BY DEF Sound, Tables
<1>. QED
  BY <1>1, ImageFillsWordZero DEF ScanHangs

\* heap_domain_alloc with an empty list: one more page, then the pop.
LEMMA SlowStep ==
    ASSUME Fits, NEW stk, NEW dep, NEW len, NEW use, NEW from,
           Inv(stk, dep, len, use, from), NEW size \in Sizes, alloc_slow(size), Sane',
           NEW d, d = ClassOf(size), NEW virt, virt = cursor[d]
    PROVE  /\ IInv' /\ InvWith(len, dep[Large])' /\ StaysPut
           /\ ProcessFrame # NoFrame =>
                 NewList(stk, dep, d,
                         CutPage(stk[d], dep[d], virt, ClassSize[d], BlocksPerPage(d)),
                         (dep[d] + BlocksPerPage(d)) - 1)
<1>. DEFINE f == ProcessFrame
            a == [ptr |-> virt, size |-> size]
            own == Own(stk, dep)
            p == PageOf(virt)
<1>i. /\ Typed /\ BootOrder /\ Cursors /\ Sound(m, dir, Started, own) /\ Lists(stk, dep)
      /\ BlocksSplit(stk, dep) /\ DataKept /\ Uses(use, from)
  BY DEF Inv
<1>1. op = Idle /\ op.kind = "idle" /\ d \in Domains /\ d \in Heaps /\ d # Large
  BY <1>i, CallKinds, HeapNumbers DEF alloc_slow, Typed, Heaps
<1>2. Started = Heaps /\ head[d] = NULL /\ ~ScanHangs
  BY <1>i, <1>1, NoHang DEF BootOrder, alloc_slow
<1>3. CASE f = NoFrame
  <2>1. UNCHANGED vars
    BY <1>2, <1>3 DEF alloc_slow
  <2>. QED
    BY <1>3, <2>1, Stutter DEF StaysPut, vars
<1>4. CASE f # NoFrame
  <2>1. /\ \E mem \in DoubleMap(d, virt, f) : m' = Carve(mem, d, virt, NULL)
        /\ head' = [head EXCEPT ![d] = Read(m', virt)]
        /\ cursor' = [cursor EXCEPT ![d] = virt + PageWords]
        /\ live' = live \cup {a} /\ op' = [kind |-> "fill", of |-> a]
        /\ dir' = dir /\ lost' = lost /\ cpu' = cpu
    BY <1>2, <1>4 DEF alloc_slow, Return
  <2>2. PICK mem \in DoubleMap(d, virt, f) : m' = Carve(mem, d, virt, head[d])
    BY <1>2, <2>1
  <2>. DEFINE after == virt + PageWords
  <2>3. cursor'[d] = after /\ after <= Base(d + 1) /\ TablesBacked'
    BY <1>i, <1>1, <2>1 DEF Sane, Room, Typed
  <2>. HIDE DEF own
  <2>4. /\ virt \in LowAddress /\ virt % PageWords = 0 /\ virt # NULL
        /\ \A g \in Started : PageOf(virt) \notin Own(stk, dep)[g]
        /\ after \in Nat /\ PageOf(after) = PageOf(virt) + 1 /\ after % PageWords = 0
        /\ BasePage(d) <= PageOf(after) /\ PageOf(after) <= RegionEnd(d)
    <3>. HIDE DEF after
    <3>1. after = virt + PageWords /\ d \in Started /\ virt = cursor[d]
      BY <1>1, <1>2 DEF after
    <3>. QED
      BY <1>1, <2>3, <3>1, FreshPage
  <2>5. virt \in Nat /\ virt = cursor[d] /\ BasePage(d) <= p /\ d \in Started
    BY <1>i, <1>1, <1>2, <2>4 DEF Cursors, LowAddress
  <2>6. SmallPages(d)' = SmallPages(d) \cup {p} /\ Blocks(d)' = Blocks(d) \cup PageStarts(d, virt)
    BY <1>1, <2>3, <2>4, <2>5, Grown
  <2>. DEFINE own2 == [g \in Heaps |-> IF g = d THEN own[g] \cup {p} ELSE own[g]]
              s1 == CutPage(stk[d], dep[d], virt, ClassSize[d], BlocksPerPage(d))
              n1 == dep[d] + BlocksPerPage(d)
  <2>7. CutStack(d, stk[d], dep[d], virt, s1, n1)
    BY DEF CutStack
  <2>8. PageJoins(Started, Own(stk, dep), own2, d, PageOf(virt)) /\ f = ProcessFrame
        /\ virt + PageWords <= Base(d + 1)
    BY <1>2, <2>3, <2>4 DEF own, PageJoins
  <2>9. /\ SmallPages(d) = own[d] /\ own2[d] = SmallPages(d)'
        /\ \A h \in Started : h # d => own2[h] = own[h]
    BY <1>1, <1>2, <2>6 DEF own, Own
  <2>. HIDE DEF own2, s1, n1, f
  <2>10. /\ Sound(m', dir, Started, own2) /\ SameFrames(m, m', Started, Own(stk, dep))
         /\ \A x \in Owned(Started, own) : WordAt(m', x) = WordAt(m, x)
         /\ IsList(m', virt, s1, n1)
         /\ Members(s1, n1) = Members(stk[d], dep[d]) \cup PageStarts(d, virt)
    <3>1. /\ d \in Domains /\ d \in Started /\ virt = cursor[d]
          /\ virt + PageWords <= Base(d + 1) /\ f = ProcessFrame /\ f # NoFrame
          /\ mem \in DoubleMap(d, virt, f) /\ m' = Carve(mem, d, virt, head[d])
          /\ dir' = dir /\ TablesBacked'
          /\ PageJoins(Started, Own(stk, dep), own2, d, PageOf(virt))
          /\ CutStack(d, stk[d], dep[d], virt, s1, n1)
      BY <1>1, <1>4, <2>1, <2>2, <2>3, <2>5, <2>7, <2>8
    <3>2. /\ Sound(m', dir, Started, own2) /\ SameFrames(m, m', Started, Own(stk, dep))
          /\ \A x \in Owned(Started, Own(stk, dep)) : WordAt(m', x) = WordAt(m, x)
          /\ IsList(m', virt, s1, n1)
          /\ Members(s1, n1) = Members(stk[d], dep[d]) \cup PageStarts(d, virt)
      BY ONLY <3>1, Fits, Inv(stk, dep, len, use, from), PageAdded
    <3>. QED
      BY <3>2 DEF own
  <2>11. Popped(m', virt, s1, n1)
    BY <2>4, <2>10, ListPop
  <2>12. Read(m', virt) = WordAt(m', virt) /\ WordAt(m', virt) \in Nat
    <3>1. virt \in Owned(Started, own2)
      BY <2>5, <2>6, <2>9 DEF Owned
    <3>. QED
      BY <2>10, <3>1, OwnedAddress
  <2>. DEFINE n2 == n1 - 1
  <2>13. /\ IsList(m', head'[d], s1, n2) /\ n2 \in Nat /\ virt \in Members(s1, n1)
         /\ Members(s1, n2) = Members(s1, n1) \ {virt}
    BY <1>i, <1>1, <2>1, <2>11, <2>12 DEF Popped, Typed
  <2>14. s1 \in [Nat -> Nat]
    BY <2>13 DEF IsList
  <2>. HIDE DEF n2, a
  <2>15. a.ptr = virt /\ a.size = size /\ a \in [ptr : Nat, size : Sizes]
    BY <2>5 DEF a
  <2>16. Held(d)' = Held(d) \cup {a} /\ \A h : h # d => Held(h)' = Held(h)
    BY <2>1, <2>15 DEF Held
  <2>17. ASSUME NEW c \in live PROVE c.ptr # virt
    <3>1. c.ptr \in Span(c)
      BY <1>i, SpanPlace
    <3>2. c.ptr \in Owned(Started, Own(stk, dep))
      BY <3>1, KnownWords
    <3>. QED
      BY <2>4, <3>2 DEF Owned
  <2>18. Typed'
    <3>1. live' \subseteq [ptr : Nat, size : Sizes] /\ a \in live'
      BY <1>i, <2>1, <2>15 DEF Typed
    <3>2. op' \in Calls'
      BY <2>1, <3>1 DEF Calls
    <3>3. head' \in [Heaps -> Nat]
      BY <1>i, <1>1, <2>1, <2>12 DEF Typed
    <3>4. cursor' \in [Heaps -> Nat]
      BY <1>i, <1>1, <2>1, <2>4 DEF Typed
    <3>. QED
      BY <1>i, <2>1, <3>1, <3>2, <3>3, <3>4 DEF Typed
  <2>19. Started' = Started /\ op'.kind = "fill"
    BY <2>1 DEF Started
  <2>20. BootOrder'
    BY <1>2, <2>19 DEF BootOrder
  <2>21. DataKept'
    <3>1. \A c \in live' : op' # [kind |-> "fill", of |-> c] =>
             c \in live /\ op # [kind |-> "fill", of |-> c]
      BY <1>1, <2>1
    <3>. QED
      BY <2>10, <3>1, DataStays DEF own
  <2>22. \A h \in Heaps : h # d =>
            head'[h] = head[h] /\ cursor'[h] = cursor[h] /\ Held(h)' = Held(h)
    BY <1>i, <2>1, <2>16 DEF Typed
  <2>23. ASSUME NEW h \in Started, h # d, NEW x \in Nat, PageOf(x) \in own[h]
         PROVE  WordAt(m', x) = WordAt(m, x)
    BY <2>10, <2>23 DEF Owned
  <2>24. /\ Members(s1, n2) \cup {c.ptr : c \in Held(d)'} = Blocks(d)'
         /\ \A c \in Held(d)' : c.ptr \notin Members(s1, n2)
    <3>1. \A c \in Held(d) : c \in live
      BY DEF Held
    <3>2. /\ Members(stk[d], dep[d]) \cup {c.ptr : c \in Held(d)} = Blocks(d)
          /\ \A c \in Held(d) : c.ptr \notin Members(stk[d], dep[d])
      BY <1>i, <1>1 DEF BlocksSplit
    <3>3. \A x \in Blocks(d) : x \notin PageStarts(d, virt)
      BY <2>4, <2>5, <2>9 DEF Blocks, PageStarts, own
    <3>. QED
      BY <2>6, <2>10, <2>13, <2>15, <2>16, <2>17, <3>1, <3>2, <3>3
  <2>25. \A c, e \in live' : c.ptr = e.ptr => c = e
    BY <1>i, <2>1, <2>15, <2>17 DEF BlocksSplit
  <2>26. /\ cursor'[d] % PageWords = 0
         /\ BasePage(d) <= PageOf(cursor'[d]) /\ PageOf(cursor'[d]) <= RegionEnd(d)
    BY <2>3, <2>4
  <2>27. op.kind \notin {"map", "unmap"} /\ op'.kind \notin {"map", "unmap"}
    BY <1>1, <2>19
  <2>28. IsList(m', head'[d], s1, n2) /\ n2 \in Nat
    BY <2>13
  <2>29. IInv' /\ InvWith(len, dep[Large])' /\ OtherLists(stk, dep, d)
    BY <1>1, <2>1, <2>9, <2>10, <2>14, <2>18, <2>20, <2>21, <2>22, <2>23, <2>24, <2>25,
       <2>26, <2>27, <2>28, SmallStep DEF own
  <2>30. StaysPut
    BY <2>10, AllStay
  <2>31. NewList(stk, dep, d, s1, n2)
    BY <2>28, <2>29 DEF NewList
  <2>. QED
    BY <2>29, <2>30, <2>31 DEF s1, n1, n2
<1>. QED
  BY <1>3, <1>4

\* The pre-map loop of init_heap_domain.
LEMMA PremapStep ==
    ASSUME Fits, NEW stk, NEW dep, NEW len, NEW use, NEW from,
           Inv(stk, dep, len, use, from), premap, Sane, Sane',
           NEW d, d = op.heap, NEW virt, virt = cursor[d]
    PROVE  /\ IInv' /\ InvWith(len, dep[Large])'
           /\ op.i # PremapPages =>
                 NewList(stk, dep, d,
                         CutPage(stk[d], dep[d], virt, ClassSize[d], BlocksPerPage(d)),
                         dep[d] + BlocksPerPage(d))
<1>. DEFINE f == ProcessFrame
            own == Own(stk, dep)
            p == PageOf(virt)
<1>i. /\ Typed /\ BootOrder /\ Cursors /\ Sound(m, dir, Started, own) /\ Lists(stk, dep)
      /\ BlocksSplit(stk, dep) /\ DataKept /\ Uses(use, from)
  BY DEF Inv
<1>0. op \in [kind : {"premap"}, heap : Domains, i : 0 .. PremapPages] /\ op.kind = "premap"
  BY <1>i, CallKinds DEF premap, Typed
<1>1. d \in Domains /\ d \in Heaps /\ d # Large /\ op.i \in 0 .. PremapPages
  BY <1>0, HeapNumbers DEF Heaps
<1>2. /\ Started = 1 .. d /\ d \in Started /\ live = {} /\ lost = {} /\ ~ScanHangs
      /\ d \in Nat /\ d + 1 \in Heaps
  <2>1. Started = 1 .. d /\ live = {} /\ lost = {}
    BY <1>i, <1>0 DEF BootOrder
  <2>2. d \in Nat /\ d >= 1 /\ d + 1 \in Heaps
    BY <1>1, HeapNumbers
  <2>. QED
    BY <1>i, <2>1, <2>2, NoHang
<1>3. f # NoFrame
  <2>1. m.bitmap \in SUBSET Frame /\ Image \subseteq m.bitmap /\ m.bitmap # Frame
    BY <1>i, <1>0 DEF Sound, Tables, Sane
  <2>. QED
    BY <2>1, ProcessFrameFound DEF ProcessFrame
<1>4. ASSUME NEW h PROVE Held(h) = {}
  BY <1>2 DEF Held
<1>5. cursor[d] % PageWords = 0 /\ BasePage(d) <= PageOf(cursor[d])
      /\ PageOf(cursor[d]) <= RegionEnd(d)
  BY <1>i, <1>2 DEF Cursors
\* the end of the loop
<1>6. CASE op.i = PremapPages
  <2>1. /\ op' = [kind |-> "init", heap |-> d + 1]
        /\ m' = m /\ dir' = dir /\ cursor' = cursor /\ head' = head /\ live' = live
        /\ lost' = lost /\ cpu' = cpu
    BY <1>6 DEF premap
  <2>2. Started' = Started /\ op'.kind = "init" /\ op'.heap = d + 1
    BY <2>1 DEF Started
  <2>3. Typed'
    <3>1. op' \in Calls'
      BY <1>2, <2>1 DEF Calls
    <3>. QED
      BY <1>i, <2>1, <3>1 DEF Typed
  <2>. HIDE DEF own
  <2>4. BootOrder'
    <3>1. (d + 1) - 1 = d
      BY <1>2
    <3>2. \A h \in Heaps \ Started' : cursor'[h] = 0 /\ head'[h] = NULL
      BY <1>i, <2>1, <2>2 DEF BootOrder
    <3>3. Started' = 1 .. op'.heap - 1 /\ live' = {} /\ lost' = {}
      BY <1>2, <2>1, <2>2, <3>1
    <3>. QED
      BY <2>2, <3>2, <3>3 DEF BootOrder
  <2>5. DataKept'
    BY <1>2, <2>1 DEF DataKept
  <2>6. \A h : Held(h)' = Held(h)
    BY <2>1 DEF Held
  <2>7. /\ SmallPages(d)' = SmallPages(d) /\ Blocks(d)' = Blocks(d) /\ own[d] = SmallPages(d)
    BY <1>1, <2>1 DEF Blocks, SmallPages, own, Own
  <2>8. /\ stk[d] \in [Nat -> Nat] /\ dep[d] \in Nat /\ IsList(m', head'[d], stk[d], dep[d])
    BY <1>i, <1>1, <2>1 DEF Lists
  <2>9. /\ Members(stk[d], dep[d]) \cup {c.ptr : c \in Held(d)'} = Blocks(d)'
        /\ \A c \in Held(d)' : c.ptr \notin Members(stk[d], dep[d])
        /\ \A a, b \in live' : a.ptr = b.ptr => a = b
    BY <1>i, <1>1, <2>1, <2>6, <2>7 DEF BlocksSplit
  <2>10. /\ cursor'[d] % PageWords = 0
         /\ BasePage(d) <= PageOf(cursor'[d]) /\ PageOf(cursor'[d]) <= RegionEnd(d)
         /\ op.kind \notin {"map", "unmap"} /\ op'.kind \notin {"map", "unmap"}
         /\ \A h \in Heaps : h # d =>
               head'[h] = head[h] /\ cursor'[h] = cursor[h] /\ Held(h)' = Held(h)
         /\ Sound(m', dir, Started, own) /\ own[d] = SmallPages(d)'
         /\ \A h \in Started : h # d => \A x \in Nat : PageOf(x) \in own[h] =>
               WordAt(m', x) = WordAt(m, x)
    BY <1>i, <1>0, <1>5, <2>1, <2>2, <2>6, <2>7
  <2>. DEFINE s1 == stk[d]
              n1 == dep[d]
  <2>11. /\ s1 \in [Nat -> Nat] /\ n1 \in Nat /\ IsList(m', head'[d], s1, n1)
         /\ Members(s1, n1) \cup {c.ptr : c \in Held(d)'} = Blocks(d)'
         /\ \A c \in Held(d)' : c.ptr \notin Members(s1, n1)
    BY <2>8, <2>9
  <2>. HIDE DEF s1, n1
  <2>. QED
    BY <1>1, <1>6, <2>1, <2>3, <2>4, <2>5, <2>9, <2>10, <2>11, SmallStep DEF own
\* one round
<1>7. CASE op.i # PremapPages
  <2>1. /\ \E mem \in DoubleMap(d, virt, f) : m' = Carve(mem, d, virt, head[d])
        /\ head' = [head EXCEPT ![d] = virt]
        /\ cursor' = [cursor EXCEPT ![d] = virt + PageWords]
        /\ op' = [op EXCEPT !.i = op.i + 1]
        /\ live' = live /\ dir' = dir /\ lost' = lost /\ cpu' = cpu
    BY <1>2, <1>3, <1>7 DEF premap
  <2>2. PICK mem \in DoubleMap(d, virt, f) : m' = Carve(mem, d, virt, head[d])
    BY <2>1
  <2>. DEFINE after == virt + PageWords
  <2>3. cursor'[d] = after /\ after <= Base(d + 1) /\ TablesBacked'
    BY <1>i, <1>1, <2>1 DEF Sane, Room, Typed
  <2>a. op' \in [kind : {"premap"}, heap : Domains, i : 0 .. PremapPages]
        /\ op'.kind = "premap" /\ op'.heap = d
    <3>1. op.i + 1 \in 0 .. PremapPages
      BY <1>1, <1>7, HeapAssumption
    <3>. QED
      BY <1>0, <2>1, <3>1
  <2>. HIDE DEF own
  <2>4. /\ virt \in LowAddress /\ virt % PageWords = 0 /\ virt # NULL
        /\ \A g \in Started : PageOf(virt) \notin Own(stk, dep)[g]
        /\ after \in Nat /\ PageOf(after) = PageOf(virt) + 1 /\ after % PageWords = 0
        /\ BasePage(d) <= PageOf(after) /\ PageOf(after) <= RegionEnd(d)
    <3>. HIDE DEF after
    <3>1. after = virt + PageWords /\ d \in Started /\ virt = cursor[d]
      BY <1>2 DEF after
    <3>. QED
      BY <1>1, <2>3, <3>1, FreshPage
  <2>5. virt \in Nat /\ virt = cursor[d] /\ BasePage(d) <= p /\ d \in Started
    BY <1>2, <1>5, <2>4 DEF LowAddress
  <2>6. SmallPages(d)' = SmallPages(d) \cup {p} /\ Blocks(d)' = Blocks(d) \cup PageStarts(d, virt)
    BY <1>1, <2>3, <2>4, <2>5, Grown
  <2>. DEFINE own2 == [g \in Heaps |-> IF g = d THEN own[g] \cup {p} ELSE own[g]]
              s1 == CutPage(stk[d], dep[d], virt, ClassSize[d], BlocksPerPage(d))
              n1 == dep[d] + BlocksPerPage(d)
  <2>7. CutStack(d, stk[d], dep[d], virt, s1, n1)
    BY DEF CutStack
  <2>b. \A g \in Started : g \in Heaps
    BY DEF Started
  <2>8. PageJoins(Started, Own(stk, dep), own2, d, PageOf(virt)) /\ f = ProcessFrame
        /\ virt + PageWords <= Base(d + 1)
    BY <2>3, <2>4, <2>b DEF own, PageJoins
  <2>9. /\ SmallPages(d) = own[d] /\ own2[d] = SmallPages(d)'
        /\ \A h \in Started : h # d => own2[h] = own[h]
    BY <1>1, <2>6, <2>b DEF own, Own
  <2>. HIDE DEF own2, s1, n1, f
  <2>10. /\ Sound(m', dir, Started, own2)
         /\ \A x \in Owned(Started, own) : WordAt(m', x) = WordAt(m, x)
         /\ IsList(m', virt, s1, n1)
         /\ Members(s1, n1) = Members(stk[d], dep[d]) \cup PageStarts(d, virt)
    <3>1. /\ d \in Domains /\ d \in Started /\ virt = cursor[d]
          /\ virt + PageWords <= Base(d + 1) /\ f = ProcessFrame /\ f # NoFrame
          /\ mem \in DoubleMap(d, virt, f) /\ m' = Carve(mem, d, virt, head[d])
          /\ dir' = dir /\ TablesBacked'
          /\ PageJoins(Started, Own(stk, dep), own2, d, PageOf(virt))
          /\ CutStack(d, stk[d], dep[d], virt, s1, n1)
      BY <1>1, <1>3, <2>1, <2>2, <2>3, <2>5, <2>7, <2>8
    <3>2. /\ Sound(m', dir, Started, own2)
          /\ \A x \in Owned(Started, Own(stk, dep)) : WordAt(m', x) = WordAt(m, x)
          /\ IsList(m', virt, s1, n1)
          /\ Members(s1, n1) = Members(stk[d], dep[d]) \cup PageStarts(d, virt)
      BY ONLY <3>1, Fits, Inv(stk, dep, len, use, from), PageAdded
    <3>. QED
      BY <3>2 DEF own
  <2>11. s1 \in [Nat -> Nat] /\ n1 \in Nat
    BY <2>10 DEF IsList
  <2>12. \A h : Held(h)' = {}
    BY <1>2, <2>1 DEF Held
  <2>13. Typed'
    <3>1. op' \in Calls'
      BY <2>a DEF Calls
    <3>2. head' \in [Heaps -> Nat] /\ cursor' \in [Heaps -> Nat]
      BY <1>i, <1>1, <2>1, <2>4, <2>5 DEF Typed
    <3>. QED
      BY <1>i, <2>1, <3>1, <3>2 DEF Typed
  <2>14. Started' = Started
    BY <2>1 DEF Started
  <2>15. BootOrder'
    <3>1. \A h \in Heaps \ Started' : cursor'[h] = 0 /\ head'[h] = NULL
      BY <1>i, <1>2, <2>1, <2>14 DEF BootOrder, Typed
    <3>2. Started' = 1 .. op'.heap /\ live' = {} /\ lost' = {}
      BY <1>2, <2>1, <2>14, <2>a
    <3>. QED
      BY <2>a, <3>1, <3>2 DEF BootOrder
  <2>16. DataKept' /\ \A a, b \in live' : a.ptr = b.ptr => a = b
    BY <1>2, <2>1 DEF DataKept
  <2>17. \A h \in Heaps : h # d =>
            head'[h] = head[h] /\ cursor'[h] = cursor[h] /\ Held(h)' = Held(h)
    BY <1>i, <1>4, <2>1, <2>12 DEF Typed
  <2>18. ASSUME NEW h \in Started, h # d, NEW x \in Nat, PageOf(x) \in own[h]
         PROVE  WordAt(m', x) = WordAt(m, x)
    BY <2>10, <2>18 DEF Owned
  <2>19. /\ Members(s1, n1) \cup {c.ptr : c \in Held(d)'} = Blocks(d)'
         /\ \A c \in Held(d)' : c.ptr \notin Members(s1, n1)
    <3>1. Members(stk[d], dep[d]) \cup {c.ptr : c \in Held(d)} = Blocks(d)
      BY <1>i, <1>1 DEF BlocksSplit
    <3>. QED
      BY <1>4, <2>6, <2>10, <2>12, <3>1
  <2>20. /\ cursor'[d] % PageWords = 0
         /\ BasePage(d) <= PageOf(cursor'[d]) /\ PageOf(cursor'[d]) <= RegionEnd(d)
         /\ op.kind \notin {"map", "unmap"} /\ op'.kind \notin {"map", "unmap"}
    BY <1>0, <2>3, <2>4, <2>a
  <2>21. IsList(m', head'[d], s1, n1)
    BY <1>i, <1>1, <2>1, <2>10 DEF Typed
  <2>22. IInv' /\ InvWith(len, dep[Large])' /\ OtherLists(stk, dep, d)
    BY <1>1, <2>1, <2>9, <2>10, <2>11, <2>13, <2>15, <2>16, <2>17, <2>18, <2>19, <2>20,
       <2>21, SmallStep DEF own
  <2>. QED
    BY <2>21, <2>22 DEF NewList, s1, n1
<1>. QED
  BY <1>6, <1>7

\* The list of a heap that is not set up is empty.
LEMMA NoList ==
    ASSUME NEW stk, NEW dep, Lists(stk, dep), BootOrder, NEW h \in Heaps, h \notin Started
    PROVE  dep[h] = 0 /\ Members(stk[h], dep[h]) = {}
<1>1. head[h] = NULL /\ IsList(m, head[h], stk[h], dep[h])
  BY DEF BootOrder, Lists
<1>2. dep[h] = 0
  <2>1. dep[h] \in Nat /\ (dep[h] # 0 => dep[h] \in 1 .. dep[h])
    BY DEF Lists
  <2>. QED
    BY <1>1, <2>1 DEF IsList
<1>. QED
  BY <1>2 DEF Members

\* The first half of init_heap_domain, and init_large_domain.
LEMMA InitStep ==
    ASSUME Fits, NEW stk, NEW dep, NEW len, NEW use, NEW from,
           Inv(stk, dep, len, use, from), init_heap, Sane,
           NEW h, h = op.heap
    PROVE  IInv' /\ InvWith(len, dep[Large])' /\ OtherLists(stk, dep, Large)
<1>. DEFINE f == NextKernelFrame(m.bitmap)
            own == Own(stk, dep)
            own2 == Own(stk, dep)'
<1>i. /\ Typed /\ BootOrder /\ Cursors /\ Sound(m, dir, Started, own) /\ Lists(stk, dep)
      /\ BlocksSplit(stk, dep)
  BY DEF Inv
<1>0. op \in [kind : {"init"}, heap : Heaps] /\ op.kind = "init"
  BY <1>i, CallKinds DEF init_heap, Typed
<1>1. /\ h \in Heaps /\ h \in Nat /\ h >= 1 /\ h <= Large /\ Large \in Heaps /\ Large \in Nat
      /\ Heaps = 1 .. Large
  BY <1>0, HeapNumbers DEF Heaps
<1>2. /\ Started = 1 .. h - 1 /\ live = {} /\ lost = {} /\ h \notin Started
      /\ Large \notin Started
  <2>1. Started = 1 .. h - 1 /\ live = {} /\ lost = {}
    BY <1>i, <1>0 DEF BootOrder
  <2>. QED
    BY <1>1, <2>1
<1>3. f # NoFrame
  <2>1. m.bitmap \in SUBSET Frame /\ Image \subseteq m.bitmap /\ m.bitmap # Frame
    BY <1>i, <1>0 DEF Sound, Tables, Sane
  <2>. QED
    BY <2>1, KernelFrameFound
<1>4. /\ m' = NewDirectory(m, f) /\ dir' = [dir EXCEPT ![h] = f]
      /\ cursor' = [cursor EXCEPT ![h] = Base(h)] /\ head' = [head EXCEPT ![h] = NULL]
      /\ op' = (IF h = Large THEN Idle ELSE [kind |-> "premap", heap |-> h, i |-> 0])
      /\ live' = live /\ lost' = lost /\ cpu' = cpu
  BY <1>3 DEF init_heap
<1>5. /\ dir'[h] = f /\ cursor'[h] = Base(h) /\ head'[h] = NULL
      /\ \A g \in Heaps : g # h =>
            dir'[g] = dir[g] /\ cursor'[g] = cursor[g] /\ head'[g] = head[g]
  BY <1>i, <1>1, <1>4 DEF Typed
<1>6. Started' = Started \cup {h}
  BY <1>1, <1>3, <1>5 DEF Started, NoFrame
<1>7. Base(h) \in Nat /\ PageOf(Base(h)) = BasePage(h) /\ Base(h) % PageWords = 0
      /\ BasePage(h) \in Nat
  BY <1>1, BaseIsPage
<1>8. \A g : Held(g)' = {} /\ Held(g) = {}
  BY <1>2, <1>4 DEF Held
<1>9. CallPages' = {} /\ CallPages = {} /\ op'.kind \in {"idle", "premap"}
      /\ (op'.kind = "idle" <=> h = Large)
  BY <1>0, <1>4 DEF CallPages, Idle
<1>10. \A g \in Heaps : g # Large => own[g] = SmallPages(g) /\ own2[g] = SmallPages(g)'
  BY DEF Own
<1>11. own2[Large] = {}
  <2>1. Members(stk[Large], dep[Large]) = {}
    BY <1>i, <1>1, <1>2, NoList
  <2>2. LargeOwn(Members(stk[Large], dep[Large]))' = {}
    BY <1>2, <1>4, <1>8, <1>9, <2>1 DEF LargeOwn
  <2>. QED
    BY <1>1, <2>2 DEF Own
<1>12. h # Large => SmallPages(h)' = {}
  BY <1>5, <1>7 DEF SmallPages
<1>13. \A g \in Heaps : g # h => SmallPages(g)' = SmallPages(g)
  BY <1>5 DEF SmallPages
<1>14. \A g \in Started \cup {h} : own2[g] = IF g = h THEN {} ELSE own[g]
  <2>. SUFFICES ASSUME NEW g \in Started \cup {h} PROVE own2[g] = IF g = h THEN {} ELSE own[g]
    OBVIOUS
  <2>1. g \in Heaps
    BY <1>1 DEF Started
  <2>2. CASE g = h
    BY <1>1, <1>10, <1>11, <1>12, <2>2
  <2>3. CASE g # h
    <3>1. g # Large
      BY <1>2, <2>3
    <3>. QED
      BY <1>10, <1>13, <2>1, <2>3, <3>1
  <2>. QED
    BY <2>2, <2>3
<1>15. \A g \in Started \cup {h} : dir'[g] = IF g = h THEN f ELSE dir[g]
  BY <1>5 DEF Started
<1>. DEFINE dir2 == dir'
<1>16. Sound(m', dir2, Started \cup {h}, own2) /\ KeepsPages(m, m', Started, own) /\ f \in Frame
  <2>1. HeapJoins(Started, dir, dir2, own, own2, h, f)
    BY <1>14, <1>15 DEF HeapJoins
  <2>2. NumFrames <= AddressableFrames /\ f = NextKernelFrame(m.bitmap)
    BY DEF Fits
  <2>. HIDE DEF f, own, own2, dir2
  <2>. QED
    BY <1>i, <1>2, <1>3, <1>4, <2>1, <2>2, NewDirectorySound
<1>17. \A x \in Owned(Started, own) : WordAt(m', x) = WordAt(m, x)
  BY <1>16, KeptWords DEF SameWords
<1>. HIDE DEF own, own2, f
<1>18. Sound(m, dir, Started, Own(stk, dep))'
  BY <1>6, <1>16 DEF own2
<1>19. Typed'
  <2>1. op' \in Calls'
    <3>1. 0 \in 0 .. PremapPages /\ (h # Large => h \in Domains)
      BY <1>1, HeapAssumption DEF Heaps
    <3>. QED
      BY <1>4, <3>1 DEF Calls
  <2>2. dir' \in [Heaps -> Frame]
    BY <1>i, <1>1, <1>4, <1>16 DEF Typed
  <2>3. cursor' \in [Heaps -> Nat] /\ head' \in [Heaps -> Nat]
    BY <1>i, <1>1, <1>4, <1>7 DEF Typed, NULL
  <2>. QED
    BY <1>i, <1>4, <2>1, <2>2, <2>3 DEF Typed
<1>20. BootOrder'
  <2>1. op'.kind = "premap" => Started' = 1 .. op'.heap
    <3>1. Started' = 1 .. h
      BY <1>1, <1>2, <1>6
    <3>2. op'.kind = "premap" => op'.heap = h
      BY <1>4, <1>9 DEF Idle
    <3>. QED
      BY <3>1, <3>2
  <2>2. op'.kind \notin {"init", "premap"} => Started' = Heaps
    <3>. SUFFICES ASSUME h = Large PROVE Started' = Heaps
      BY <1>9
    <3>. QED
      BY <1>1, <1>2, <1>6
  <2>3. \A g \in Heaps \ Started' : cursor'[g] = 0 /\ head'[g] = NULL
    BY <1>i, <1>5, <1>6 DEF BootOrder
  <2>. QED
    BY <1>2, <1>4, <1>9, <2>1, <2>2, <2>3 DEF BootOrder
<1>21. Cursors'
  <2>. SUFFICES ASSUME NEW g \in Started'
                PROVE  /\ cursor'[g] % PageWords = 0
                       /\ BasePage(g) <= PageOf(cursor'[g]) /\ PageOf(cursor'[g]) <= RegionEnd(g)
    BY DEF Cursors
  <2>1. CASE g = h
    <3>1. BasePage(h) <= RegionEnd(h)
      <4>1. h * RegionPages \in Nat /\ (h + 1) * RegionPages = h * RegionPages + RegionPages
            /\ RegionPages \in Nat /\ MaxLargePages \in Nat
        BY <1>1, HeapNumbers
      <4>. QED
        BY <4>1 DEF BasePage, RegionEnd
    <3>. QED
      BY <1>5, <1>7, <2>1, <3>1
  <2>2. CASE g # h
    <3>1. g \in Started /\ g \in Heaps
      BY <1>6, <2>2 DEF Started
    <3>. QED
      BY <1>i, <1>5, <2>2, <3>1 DEF Cursors
  <2>. QED
    BY <2>1, <2>2
<1>22. Lists(stk, dep)'
  <2>1. ASSUME NEW g \in Heaps PROVE IsList(m', head'[g], stk[g], dep[g])
    <3>1. head'[g] = head[g]
      BY <1>i, <1>1, <1>2, <1>5 DEF BootOrder
    <3>2. IsList(m, head[g], stk[g], dep[g])
      BY <1>i DEF Lists
    <3>3. \A x \in Members(stk[g], dep[g]) : WordAt(m', x) = WordAt(m, x)
      BY <1>17, KnownWords DEF own
    <3>. QED
      BY <3>1, <3>2, <3>3, ListKept
  <2>. QED
    BY <1>i, <2>1 DEF Lists
<1>23. BlocksSplit(stk, dep)'
  <2>1. ASSUME NEW e \in Domains
        PROVE  /\ Members(stk[e], dep[e]) \cup {a.ptr : a \in Held(e)'} = Blocks(e)'
               /\ \A a \in Held(e)' : a.ptr \notin Members(stk[e], dep[e])
    <3>1. e \in Heaps /\ e # Large
      BY HeapNumbers DEF Heaps
    <3>2. CASE e = h
      <4>1. Members(stk[e], dep[e]) = {}
        BY <1>i, <1>2, <3>1, <3>2, NoList
      <4>2. Blocks(e)' = {}
        BY <1>12, <3>1, <3>2 DEF Blocks
      <4>. QED
        BY <1>8, <4>1, <4>2
    <3>3. CASE e # h
      <4>1. Blocks(e)' = Blocks(e)
        BY <1>13, <3>1, <3>3 DEF Blocks
      <4>2. Members(stk[e], dep[e]) \cup {a.ptr : a \in Held(e)} = Blocks(e)
        BY <1>i DEF BlocksSplit
      <4>. QED
        BY <1>8, <4>1, <4>2
    <3>. QED
      BY <3>2, <3>3
  <2>2. \A a, b \in live' : a.ptr = b.ptr => a = b
    BY <1>2, <1>4
  <2>. QED
    BY <2>1, <2>2 DEF BlocksSplit
<1>24. DataKept' /\ Uses(use, from)' /\ CallUses(use)'
  BY <1>2, <1>4, <1>8, <1>9 DEF DataKept, Uses, CallUses
<1>25. SlotUses(stk[Large], dep[Large], len, use, from)'
  <2>1. dep[Large] = 0
    BY <1>i, <1>1, <1>2, NoList
  <2>. QED
    BY <2>1 DEF SlotUses
<1>26. Inv(stk, dep, len, use, from)'
  BY <1>18, <1>19, <1>20, <1>21, <1>22, <1>23, <1>24, <1>25 DEF Inv
<1>. QED
  BY <1>22, <1>26 DEF IInv, InvWith, OtherLists, Lists, Heaps

-----------------------------------------------------------------------------
(* The large domain. *)

\* A step of the large domain keeps the invariant when it does for its part.
LEMMA LargeStep ==
    ASSUME Fits, NEW stk, NEW dep, NEW len, NEW use, NEW from,
           Inv(stk, dep, len, use, from), Large \in Started,
           Typed', BootOrder', DataKept', dir' = dir,
           \A d \in Domains :
              head'[d] = head[d] /\ cursor'[d] = cursor[d] /\ Held(d)' = Held(d),
           \A h \in Started : h # Large => \A x \in Nat : PageOf(x) \in Own(stk, dep)[h] =>
              WordAt(m', x) = WordAt(m, x),
           cursor'[Large] % PageWords = 0,
           BasePage(Large) <= PageOf(cursor'[Large]),
           PageOf(cursor'[Large]) <= RegionEnd(Large),
           NEW stk1 \in [Nat -> Nat], NEW n1 \in Nat, IsList(m', head'[Large], stk1, n1),
           \A a, b \in live' : a.ptr = b.ptr => a = b,
           NEW own2, Sound(m', dir, Started, own2),
           own2[Large] = LargeOwn(Members(stk1, n1))',
           \A h \in Started : h # Large => own2[h] = Own(stk, dep)[h],
           NEW len1, NEW use1, NEW from1,
           Uses(use1, from1)', SlotUses(stk1, n1, len1, use1, from1)', CallUses(use1)'
    PROVE  IInv' /\ InvWith(len1, n1)' /\ OtherLists(stk, dep, Large)
<1>. DEFINE stk2 == [stk EXCEPT ![Large] = stk1]
            dep2 == [dep EXCEPT ![Large] = n1]
<1>1. Cursors /\ Lists(stk, dep)
  BY DEF Inv
<1>2. Large \in Heaps /\ Large \notin Domains /\ Started' = Started
  BY HeapNumbers DEF Heaps, Started
<1>3. /\ stk2 \in [Heaps -> [Nat -> Nat]] /\ dep2 \in [Heaps -> Nat]
      /\ stk2[Large] = stk1 /\ dep2[Large] = n1
      /\ \A d \in Domains : stk2[d] = stk[d] /\ dep2[d] = dep[d]
  BY <1>1, <1>2 DEF Lists, Heaps
<1>. HIDE DEF stk2, dep2
<1>4. ASSUME NEW e \in Domains
      PROVE  /\ SmallPages(e)' = SmallPages(e) /\ Own(stk, dep)[e] = SmallPages(e)
             /\ IsList(m', head'[e], stk[e], dep[e])
             /\ Members(stk[e], dep[e]) \cup {a.ptr : a \in Held(e)'} = Blocks(e)'
             /\ \A a \in Held(e)' : a.ptr \notin Members(stk[e], dep[e])
  <2>1. /\ Held(e)' = Held(e) /\ head'[e] = head[e] /\ cursor'[e] = cursor[e]
        /\ \A x \in Nat : e \in Started /\ PageOf(x) \in Own(stk, dep)[e] =>
              WordAt(m', x) = WordAt(m, x)
    BY <1>2
  <2>. QED
    BY <2>1, SmallKept
<1>5. Cursors'
  <2>. SUFFICES ASSUME NEW h \in Started
                PROVE  /\ cursor'[h] % PageWords = 0
                       /\ BasePage(h) <= PageOf(cursor'[h]) /\ PageOf(cursor'[h]) <= RegionEnd(h)
    BY <1>2 DEF Cursors
  <2>1. CASE h = Large
    BY <2>1
  <2>2. CASE h # Large
    <3>1. h \in Domains
      BY <2>2 DEF Started, Heaps
    <3>. QED
      BY <1>1, <3>1 DEF Cursors
  <2>. QED
    BY <2>1, <2>2
<1>6. Lists(stk2, dep2)'
  <2>1. ASSUME NEW h \in Heaps PROVE IsList(m', head'[h], stk2[h], dep2[h])
    <3>1. CASE h = Large
      BY <1>3, <3>1
    <3>2. CASE h # Large
      <4>1. h \in Domains
        BY <3>2 DEF Heaps
      <4>. QED
        BY <1>3, <1>4, <4>1
    <3>. QED
      BY <3>1, <3>2
  <2>. QED
    BY <1>3, <2>1 DEF Lists
<1>7. BlocksSplit(stk2, dep2)'
  <2>1. ASSUME NEW e \in Domains
        PROVE  /\ Members(stk2[e], dep2[e]) \cup {a.ptr : a \in Held(e)'} = Blocks(e)'
               /\ \A a \in Held(e)' : a.ptr \notin Members(stk2[e], dep2[e])
    BY <1>3, <1>4
  <2>. QED
    BY <2>1 DEF BlocksSplit
<1>8. \A h \in Started : Own(stk2, dep2)'[h] = own2[h]
  <2>. SUFFICES ASSUME NEW h \in Started PROVE Own(stk2, dep2)'[h] = own2[h]
    OBVIOUS
  <2>1. h \in Heaps
    BY DEF Started
  <2>2. CASE h = Large
    BY <1>2, <1>3, <2>1, <2>2 DEF Own
  <2>3. CASE h # Large
    <3>1. h \in Domains
      BY <2>1, <2>3 DEF Heaps
    <3>. QED
      BY <1>4, <2>1, <2>3, <3>1 DEF Own
  <2>. QED
    BY <2>2, <2>3
<1>9. Sound(m, dir, Started, Own(stk2, dep2))'
  <2>. DEFINE o3 == Own(stk2, dep2)'
  <2>1. \A h \in Started : o3[h] = own2[h]
    BY <1>8
  <2>. HIDE DEF o3
  <2>2. Sound(m', dir, Started, o3)
    BY <2>1, SoundFor
  <2>. QED
    BY <1>2, <2>2 DEF o3
<1>10. SlotUses(stk2[Large], dep2[Large], len1, use1, from1)'
  BY <1>3
<1>11. Inv(stk2, dep2, len1, use1, from1)'
  BY <1>5, <1>6, <1>7, <1>9, <1>10 DEF Inv
<1>. QED
  BY <1>3, <1>4, <1>11 DEF IInv, InvWith, OtherLists

\* The pages in R get another use.
Relabel(f, R, label) == [p \in Nat |-> IF p \in R THEN label ELSE f[p]]

\* The pages of the large domain are numbers.
LEMMA LargeNumbers ==
    ASSUME Typed, BootOrder, Cursors, NEW p \in LargeRegion
    PROVE  p \in Nat /\ p < PageOf(cursor[Large])
<1>1. Large \in Heaps /\ cursor[Large] \in Nat /\ Large \in Nat
  BY HeapNumbers DEF Heaps, Typed
<1>2. PageOf(cursor[Large]) \in Nat /\ BasePage(Large) \in Nat
  BY <1>1, AddressParts, BaseIsPage
<1>. QED
  BY <1>2 DEF LargeRegion

\* The ranges of callers, of freed slots and of the call in progress, and the
\* lost pages, have no page in common.
LEMMA RangesApart ==
    ASSUME NEW stk, NEW dep, NEW len, NEW use, NEW from, Inv(stk, dep, len, use, from)
    PROVE  /\ \A a \in Held(Large) : \A p \in HeldPages(a) :
                 /\ p \in Nat /\ \A c \in Held(Large) : p \in HeldPages(c) => c = a
                 /\ \A x \in lost : PageOf(x) # p
                 /\ \A k \in 1 .. dep[Large] : p \notin RangePages(stk[Large][k], len[k])
           /\ \A k \in 1 .. dep[Large] : \A p \in RangePages(stk[Large][k], len[k]) :
                 /\ p \in Nat /\ \A j \in 1 .. dep[Large] :
                                   p \in RangePages(stk[Large][j], len[j]) => j = k
                 /\ \A x \in lost : PageOf(x) # p
           /\ op.kind \in {"map", "unmap"} => \A p \in RangePages(op.start, op.pages) :
                 /\ p \in Nat /\ \A a \in Held(Large) : p \notin HeldPages(a)
                 /\ \A x \in lost : PageOf(x) # p
                 /\ \A k \in 1 .. dep[Large] : p \notin RangePages(stk[Large][k], len[k])
<1>1. /\ Typed /\ BootOrder /\ Cursors /\ Lists(stk, dep) /\ BlocksSplit(stk, dep)
      /\ Uses(use, from) /\ SlotUses(stk[Large], dep[Large], len, use, from) /\ CallUses(use)
  BY DEF Inv
<1>2. \A p \in LargeRegion : p \in Nat
  BY <1>1, LargeNumbers
<1>3. /\ \A a \in Held(Large) : \A p \in HeldPages(a) :
            p \in LargeRegion /\ use[p] = "held" /\ from[p] = a.ptr
      /\ \A x \in lost : use[PageOf(x)] = "lost"
  BY <1>1 DEF Uses
<1>4. \A k \in 1 .. dep[Large] : \A p \in RangePages(stk[Large][k], len[k]) :
            p \in LargeRegion /\ use[p] = "slot" /\ from[p] = stk[Large][k]
  BY <1>1 DEF SlotUses
<1>5. op.kind \in {"map", "unmap"} => \A p \in RangePages(op.start, op.pages) :
            p \in LargeRegion /\ use[p] = "call"
  BY <1>1 DEF CallUses
<1>6. \A a, c \in Held(Large) : a.ptr = c.ptr => a = c
  BY <1>1 DEF BlocksSplit, Held
<1>7. \A j, k \in 1 .. dep[Large] : stk[Large][j] = stk[Large][k] => j = k
  <2>1. IsList(m, head[Large], stk[Large], dep[Large])
    BY <1>1 DEF Lists, Heaps
  <2>. QED
    BY <2>1 DEF IsList
<1>8. ASSUME NEW a \in Held(Large), NEW p \in HeldPages(a)
      PROVE  /\ p \in Nat /\ \A c \in Held(Large) : p \in HeldPages(c) => c = a
             /\ \A x \in lost : PageOf(x) # p
             /\ \A k \in 1 .. dep[Large] : p \notin RangePages(stk[Large][k], len[k])
  BY <1>2, <1>3, <1>4, <1>6
<1>9. ASSUME NEW k \in 1 .. dep[Large], NEW p \in RangePages(stk[Large][k], len[k])
      PROVE  /\ p \in Nat /\ \A j \in 1 .. dep[Large] :
                               p \in RangePages(stk[Large][j], len[j]) => j = k
             /\ \A x \in lost : PageOf(x) # p
  BY <1>2, <1>3, <1>4, <1>7
<1>10. ASSUME op.kind \in {"map", "unmap"}, NEW p \in RangePages(op.start, op.pages)
       PROVE  /\ p \in Nat /\ \A a \in Held(Large) : p \notin HeldPages(a)
              /\ \A x \in lost : PageOf(x) # p
              /\ \A k \in 1 .. dep[Large] : p \notin RangePages(stk[Large][k], len[k])
  BY <1>2, <1>3, <1>4, <1>5, <1>10
<1>. QED
  BY <1>8, <1>9, <1>10

\* The parts of Uses and SlotUses, one range at a time.
HeldUse(a, use, from) ==
    /\ a.ptr % PageWords = 1 /\ WordAt(m, a.ptr - 1) = PagesFor(a.size)
    /\ \A p \in HeldPages(a) : p \in LargeRegion /\ use[p] = "held" /\ from[p] = a.ptr
LostUse(x, use) ==
    x % PageWords = 0 /\ PageOf(x) \in LargeRegion /\ use[PageOf(x)] = "lost"
SlotUse(s, n, use, from) ==
    /\ s % PageWords = 0 /\ n \in Nat \ {0} /\ WordAt(m, s + 1) = n
    /\ \A p \in RangePages(s, n) : p \in LargeRegion /\ use[p] = "slot" /\ from[p] = s

\* Ranges outside R keep their use.
LEMMA Relabelled ==
    ASSUME NEW stk, NEW dep, NEW len, NEW use, NEW from, Inv(stk, dep, len, use, from),
           LargeRegion \subseteq LargeRegion', NEW R, NEW label, NEW v,
           NEW use1, use1 = Relabel(use, R, label), NEW from1, from1 = Relabel(from, R, v)
    PROVE  /\ \A a \in Held(Large) :
                 /\ \A p \in HeldPages(a) : p \notin R
                 /\ WordAt(m', a.ptr - 1) = WordAt(m, a.ptr - 1)
                 => HeldUse(a, use1, from1)'
           /\ \A x \in lost : PageOf(x) \notin R => LostUse(x, use1)'
           /\ \A k \in 1 .. dep[Large] :
                 /\ \A p \in RangePages(stk[Large][k], len[k]) : p \notin R
                 /\ WordAt(m', stk[Large][k] + 1) = WordAt(m, stk[Large][k] + 1)
                 => SlotUse(stk[Large][k], len[k], use1, from1)'
<1>1. /\ Typed /\ BootOrder /\ Cursors
      /\ Uses(use, from) /\ SlotUses(stk[Large], dep[Large], len, use, from)
  BY DEF Inv
<1>2. \A p \in LargeRegion : p \notin R =>
         p \in LargeRegion' /\ use1[p] = use[p] /\ from1[p] = from[p]
  BY <1>1, LargeNumbers DEF Relabel
<1>3. ASSUME NEW a \in Held(Large), \A p \in HeldPages(a) : p \notin R,
             WordAt(m', a.ptr - 1) = WordAt(m, a.ptr - 1)
      PROVE  HeldUse(a, use1, from1)'
  <2>1. /\ a.ptr % PageWords = 1 /\ WordAt(m, a.ptr - 1) = PagesFor(a.size)
        /\ \A p \in HeldPages(a) : p \in LargeRegion /\ use[p] = "held" /\ from[p] = a.ptr
    BY <1>1 DEF Uses
  <2>. QED
    BY <1>2, <1>3, <2>1 DEF HeldUse
<1>4. ASSUME NEW x \in lost, PageOf(x) \notin R PROVE LostUse(x, use1)'
  BY <1>1, <1>2, <1>4 DEF Uses, LostUse
<1>5. ASSUME NEW k \in 1 .. dep[Large],
             \A p \in RangePages(stk[Large][k], len[k]) : p \notin R,
             WordAt(m', stk[Large][k] + 1) = WordAt(m, stk[Large][k] + 1)
      PROVE  SlotUse(stk[Large][k], len[k], use1, from1)'
  <2>1. /\ stk[Large][k] % PageWords = 0 /\ len[k] \in Nat \ {0}
        /\ WordAt(m, stk[Large][k] + 1) = len[k]
        /\ \A p \in RangePages(stk[Large][k], len[k]) :
              p \in LargeRegion /\ use[p] = "slot" /\ from[p] = stk[Large][k]
    BY <1>1 DEF SlotUses
  <2>. QED
    BY <1>2, <1>5, <2>1 DEF SlotUse
<1>. QED
  BY <1>3, <1>4, <1>5

\* What callers have written stays when no word of an allocation changes.
LEMMA SpansStay ==
    ASSUME Fits, NEW stk, NEW dep, NEW len, NEW use, NEW from,
           Inv(stk, dep, len, use, from),
           \A c \in live : c \in live' => \A x \in Span(c) : WordAt(m', x) = WordAt(m, x),
           \A c \in live' : op' # [kind |-> "fill", of |-> c] =>
              c \in live /\ op # [kind |-> "fill", of |-> c]
    PROVE  DataKept'
<1>. SUFFICES ASSUME NEW c \in live', op' # [kind |-> "fill", of |-> c],
                     NEW x \in UserWords(c)
              PROVE  WordAt(m', x) = x
  BY DEF DataKept, UserWords
<1>1. c \in live /\ op # [kind |-> "fill", of |-> c]
  OBVIOUS
<1>2. x \in Span(c)
  BY <1>1, SpanPlace DEF Inv
<1>3. WordAt(m, x) = x
  BY <1>1 DEF Inv, DataKept
<1>. QED
  BY <1>1, <1>2, <1>3

\* The large domain's state in an idle moment.
LEMMA IdleFacts ==
    ASSUME Fits, NEW stk, NEW dep, NEW len, NEW use, NEW from,
           Inv(stk, dep, len, use, from), op = Idle
    PROVE  /\ op.kind = "idle" /\ CallPages = {} /\ Started = Heaps /\ Large \in Started
           /\ Large \in Heaps /\ cursor[Large] \in Nat /\ head[Large] \in Nat
           /\ IsList(m, head[Large], stk[Large], dep[Large])
           /\ stk[Large] \in [Nat -> Nat] /\ dep[Large] \in Nat
           /\ cursor[Large] % PageWords = 0 /\ BasePage(Large) <= PageOf(cursor[Large])
           /\ PageOf(cursor[Large]) <= RegionEnd(Large)
           /\ Own(stk, dep)[Large] = LargeOwn(Members(stk[Large], dep[Large]))
<1>1. Typed /\ BootOrder /\ Cursors /\ Lists(stk, dep)
  BY DEF Inv
<1>2. op.kind = "idle" /\ CallPages = {} /\ Large \in Heaps
  BY <1>1, CallKinds DEF Typed, CallPages, Heaps
<1>3. Started = Heaps
  BY <1>1, <1>2 DEF BootOrder
<1>. QED
  BY <1>1, <1>2, <1>3 DEF Typed, Cursors, Lists, Own

\* The cursor of the large domain does not wrap, as long as it stays within the
\* pages it may pass.
LEMMA CursorMoves ==
    ASSUME NEW c \in Nat, c % PageWords = 0, BasePage(Large) <= PageOf(c),
           NEW n \in Nat \ {0},
           c + n * PageWords <= Base(Large) + MaxLargePages * PageWords,
           NEW after, after = AfterPages(c, n)
    PROVE  /\ after \in Nat /\ after % PageWords = 0 /\ PageOf(after) = PageOf(c) + n
           /\ BasePage(Large) <= PageOf(after) /\ PageOf(after) <= RegionEnd(Large)
<1>. DEFINE x == c + n * PageWords
            top == Base(Large) + MaxLargePages * PageWords
<1>1. /\ Large \in Nat /\ MaxLargePages \in Nat /\ PageWords \in Nat /\ Large \in Heaps
      /\ PageOf(c) \in Nat
  BY HeapNumbers, AddressParts DEF Heaps
<1>2. Base(Large) \in Nat /\ PageOf(Base(Large)) = BasePage(Large) /\ BasePage(Large) \in Nat
  BY <1>1, BaseIsPage
<1>3. x \in Nat /\ PageOf(x) = PageOf(c) + n /\ x % PageWords = 0
  BY ByPages
<1>4. top \in Nat /\ PageOf(top) = BasePage(Large) + MaxLargePages
  <2>. DEFINE b == Base(Large)
  <2>1. b \in Nat /\ PageOf(b) = BasePage(Large)
    BY <1>2
  <2>. HIDE DEF b
  <2>2. b + MaxLargePages * PageWords \in Nat
        /\ PageOf(b + MaxLargePages * PageWords) = PageOf(b) + MaxLargePages
    BY <1>1, <2>1, ByPages
  <2>. QED
    BY <2>1, <2>2 DEF b
<1>5. x <= top
  OBVIOUS
<1>. HIDE DEF x, top
<1>6. PageOf(x) <= PageOf(top)
  BY <1>3, <1>4, <1>5, PageOrder
<1>7. PageOf(x) <= RegionEnd(Large)
  BY <1>4, <1>6 DEF RegionEnd
<1>8. x \in Word
  <2>. DEFINE q == PageOf(x) - 1
  <2>1. q \in Int /\ BasePage(Large) <= q /\ q < RegionEnd(Large) /\ PageOf(x) <= q + 1
    <3>1. RegionEnd(Large) \in Nat
      BY <1>1, <1>2 DEF RegionEnd
    <3>. QED
      BY <1>1, <1>2, <1>3, <1>7, <3>1
  <2>. HIDE DEF q
  <2>2. q \in LowPages
    BY <1>1, <2>1, RegionLow
  <2>. QED
    BY <1>3, <2>1, <2>2, LowIsWord
<1>9. x % AddressLimit = x
  <2>1. AddressLimit \in Nat \ {0}
    BY PagingAssumption DEF AddressLimit
  <2>2. x \in 0 .. AddressLimit - 1 /\ x = x + AddressLimit * 0
    BY <1>3, <1>8, <2>1 DEF Word
  <2>. QED
    BY <1>3, <2>1, <2>2, QuotientUnique
<1>10. after = x
  BY <1>9 DEF AfterPages, x
<1>. QED
  BY <1>1, <1>2, <1>3, <1>7, <1>10

\* kmalloc_large takes a new range.
LEMMA BeginFresh ==
    ASSUME Fits, NEW stk, NEW dep, NEW len, NEW use, NEW from,
           Inv(stk, dep, len, use, from), NEW size \in Sizes, large_begin(size),
           ~SlotFits(head[Large], PagesFor(size)), NEW c, c = cursor[Large]
    PROVE  IInv' /\ InvWith(len, dep[Large])'
<1>. DEFINE n == PagesFor(size)
            own == Own(stk, dep)
            after == AfterPages(c, n)
            R == RangePages(c, n)
            use1 == Relabel(use, R, "call")
            from1 == Relabel(from, R, c)
            s == stk[Large]
            d == dep[Large]
<1>i. /\ Typed /\ BootOrder /\ Cursors /\ Sound(m, dir, Started, own) /\ Lists(stk, dep)
      /\ BlocksSplit(stk, dep) /\ Uses(use, from) /\ SlotUses(s, d, len, use, from)
  BY DEF Inv
<1>0. op = Idle /\ ClassOf(size) = Large
      /\ c + n * PageWords <= Base(Large) + MaxLargePages * PageWords
  BY DEF large_begin
<1>1. /\ op.kind = "idle" /\ CallPages = {} /\ Started = Heaps /\ Large \in Started
      /\ Large \in Heaps /\ c \in Nat /\ head[Large] \in Nat
      /\ IsList(m, head[Large], s, d) /\ s \in [Nat -> Nat] /\ d \in Nat
      /\ c % PageWords = 0 /\ BasePage(Large) <= PageOf(c)
      /\ own[Large] = LargeOwn(Members(s, d))
  BY <1>0, IdleFacts
<1>2. n \in Nat \ {0} /\ size \in Nat
  BY PagesForFacts
<1>3. head[Large] # NULL => Mapped(m, head[Large])
  <2>. SUFFICES ASSUME head[Large] # NULL PROVE Mapped(m, head[Large])
    OBVIOUS
  <2>. DEFINE x == head[Large]
  <2>1. Popped(m, x, s, d)
    BY <1>1, ListPop
  <2>2. x \in Owned(Started, own)
    BY <1>1, <2>1, KnownWords DEF Popped
  <2>. HIDE DEF x, own
  <2>3. Mapped(m, x)
    BY <1>i, <2>2, OwnedAddress
  <2>. QED
    BY <2>3 DEF x
<1>4. /\ m' = m /\ head' = head /\ cursor' = [cursor EXCEPT ![Large] = after]
      /\ op' = [kind |-> "map", i |-> 0, pages |-> n, size |-> size, start |-> c]
      /\ dir' = dir /\ live' = live /\ lost' = lost /\ cpu' = cpu
  BY <1>3 DEF large_begin
<1>. HIDE DEF after
<1>5. /\ after \in Nat /\ after % PageWords = 0 /\ PageOf(after) = PageOf(c) + n
      /\ BasePage(Large) <= PageOf(after) /\ PageOf(after) <= RegionEnd(Large)
  BY <1>0, <1>1, <1>2, CursorMoves DEF after
<1>6. cursor'[Large] = after /\ \A h \in Domains : cursor'[h] = cursor[h] /\ head'[h] = head[h]
  BY <1>i, <1>1, <1>4, HeapNumbers DEF Typed, Heaps
<1>. HIDE DEF n, own, R, use1, from1, s, d
<1>a. op'.kind = "map" /\ op'.i = 0 /\ op'.pages = n /\ op'.size = size /\ op'.start = c
  BY <1>4
<1>7. \A h : Held(h)' = Held(h)
  BY <1>4 DEF Held
<1>8. PageOf(c) \in Nat /\ BasePage(Large) \in Nat
  BY <1>1, HeapNumbers, AddressParts, BaseIsPage
<1>9. /\ LargeRegion \subseteq LargeRegion' /\ R \subseteq LargeRegion' /\ R \subseteq Nat
      /\ \A p \in LargeRegion : p \notin R
  BY <1>1, <1>2, <1>5, <1>6, <1>8 DEF LargeRegion, R, RangePages
<1>10. CallPages' = {}
  BY <1>8, <1>a DEF CallPages, RangePages
<1>11. LargeOwn(Members(s, d))' = own[Large]
  BY <1>1, <1>4, <1>7, <1>10 DEF LargeOwn
<1>12. Typed'
  <2>1. cursor' \in [Heaps -> Nat]
    BY <1>i, <1>1, <1>4, <1>5 DEF Typed
  <2>2. op' \in Calls'
    BY <1>1, <1>2, <1>4 DEF Calls
  <2>. QED
    BY <1>i, <1>4, <2>1, <2>2 DEF Typed
<1>13. BootOrder'
  <2>1. Started' = Started
    BY <1>4 DEF Started
  <2>. QED
    BY <1>1, <1>a, <2>1 DEF BootOrder
<1>14. DataKept'
  <2>1. /\ \A x \in live : x \in live' => \A y \in Span(x) : WordAt(m', y) = WordAt(m, y)
        /\ \A x \in live' : op' # [kind |-> "fill", of |-> x] =>
              x \in live /\ op # [kind |-> "fill", of |-> x]
    BY <1>0, <1>1, <1>4
  <2>. QED
    BY <2>1, SpansStay
<1>15. use1 = Relabel(use, R, "call") /\ from1 = Relabel(from, R, c)
  BY DEF use1, from1
<1>16. /\ \A a \in Held(Large) : HeldUse(a, use1, from1)'
       /\ \A x \in lost : LostUse(x, use1)'
       /\ \A k \in 1 .. d : SlotUse(s[k], len[k], use1, from1)'
  <2>1. /\ \A a \in Held(Large) :
              /\ \A p \in HeldPages(a) : p \notin R
              /\ WordAt(m', a.ptr - 1) = WordAt(m, a.ptr - 1)
              => HeldUse(a, use1, from1)'
        /\ \A x \in lost : PageOf(x) \notin R => LostUse(x, use1)'
        /\ \A k \in 1 .. dep[Large] :
              /\ \A p \in RangePages(stk[Large][k], len[k]) : p \notin R
              /\ WordAt(m', stk[Large][k] + 1) = WordAt(m, stk[Large][k] + 1)
              => SlotUse(stk[Large][k], len[k], use1, from1)'
    BY <1>9, <1>15, Relabelled
  <2>2. /\ \A a \in Held(Large) : \A p \in HeldPages(a) : p \notin R
        /\ \A x \in lost : PageOf(x) \notin R
        /\ \A k \in 1 .. d : \A p \in RangePages(s[k], len[k]) : p \notin R
    BY <1>i, <1>9 DEF Uses, SlotUses
  <2>. QED
    BY <1>4, <2>1, <2>2 DEF s, d
<1>17. Uses(use1, from1)'
  BY <1>4, <1>7, <1>16 DEF Uses, HeldUse, LostUse
<1>18. SlotUses(s, d, len, use1, from1)'
  BY <1>16 DEF SlotUses, SlotUse
<1>19. CallUses(use1)'
  <2>1. \A p \in R : p \in LargeRegion' /\ use1[p] = "call"
    BY <1>9, <1>15 DEF Relabel
  <2>2. n = PagesFor(size) /\ R = RangePages(c, n) /\ 0 <= n
    BY <1>2 DEF n, R
  <2>. QED
    BY <1>0, <1>1, <1>2, <1>a, <2>1, <2>2 DEF CallUses
<1>20. /\ \A a, b \in live' : a.ptr = b.ptr => a = b
       /\ Sound(m', dir, Started, own) /\ IsList(m', head'[Large], s, d)
       /\ \A h \in Started : h # Large => \A x \in Nat : PageOf(x) \in own[h] =>
             WordAt(m', x) = WordAt(m, x)
       /\ cursor'[Large] % PageWords = 0
       /\ BasePage(Large) <= PageOf(cursor'[Large])
       /\ PageOf(cursor'[Large]) <= RegionEnd(Large)
       /\ own[Large] = LargeOwn(Members(s, d))'
       /\ \A h \in Domains :
             head'[h] = head[h] /\ cursor'[h] = cursor[h] /\ Held(h)' = Held(h)
  BY <1>i, <1>1, <1>4, <1>5, <1>6, <1>7, <1>11 DEF BlocksSplit
<1>inv. IInv' /\ InvWith(len, d)'
  BY <1>1, <1>4, <1>12, <1>13, <1>14, <1>17, <1>18, <1>19, <1>20, LargeStep DEF own
<1>. QED
  BY <1>inv DEF d

\* The first slot on the list: its length, and its pages.
LEMMA FirstSlot ==
    ASSUME Fits, NEW stk, NEW dep, NEW len, NEW use, NEW from,
           Inv(stk, dep, len, use, from), NEW slot, slot = head[Large], slot # NULL,
           NEW s, s = stk[Large], NEW d, d = dep[Large]
    PROVE  /\ Popped(m, slot, s, d) /\ d \in 1 .. d /\ slot = s[d] /\ slot \in Nat
           /\ slot % PageWords = 0 /\ len[d] \in Nat \ {0}
           /\ Mapped(m, slot) /\ Read(m, slot) = WordAt(m, slot) /\ WordAt(m, slot) \in Nat
           /\ Read(m, slot + 1) = len[d] /\ slot \in LowAddress
           /\ PageOf(slot) \in RangePages(slot, len[d])
<1>. DEFINE own == Own(stk, dep)
<1>i. /\ Typed /\ Sound(m, dir, Started, own) /\ Lists(stk, dep)
      /\ SlotUses(s, d, len, use, from)
  BY DEF Inv
<1>1. IsList(m, slot, s, d) /\ Large \in Heaps
  BY <1>i DEF Lists, Heaps
<1>2. Popped(m, slot, s, d)
  BY <1>1, ListPop
<1>3. slot \in Members(s, d) /\ d - 1 \in Nat
  BY <1>2 DEF Popped
<1>4. d \in 1 .. d /\ slot = s[d] /\ slot \in Nat
  <2>1. d \in Nat /\ slot = IF d = 0 THEN NULL ELSE s[d]
    BY <1>1 DEF IsList
  <2>. QED
    BY <1>1, <2>1 DEF IsList
<1>5. slot % PageWords = 0 /\ len[d] \in Nat \ {0} /\ WordAt(m, slot + 1) = len[d]
  BY <1>i, <1>4 DEF SlotUses
<1>6. slot \in Owned(Started, own) /\ slot + 1 \in Owned(Started, own)
  BY <1>1, <1>3, KnownWords
<1>. HIDE DEF own
<1>7. /\ Mapped(m, slot) /\ Read(m, slot) = WordAt(m, slot) /\ WordAt(m, slot) \in Nat
      /\ slot \in LowAddress
  BY <1>i, <1>6, OwnedAddress
<1>8. Read(m, slot + 1) = len[d]
  <2>. DEFINE y == slot + 1
  <2>1. y \in Owned(Started, own)
    BY <1>6
  <2>. HIDE DEF y
  <2>2. Read(m, y) = WordAt(m, y)
    BY <1>i, <2>1, OwnedAddress
  <2>. QED
    BY <1>5, <2>2 DEF y
<1>9. PageOf(slot) \in RangePages(slot, len[d])
  BY <1>4, <1>5, FirstPage
<1>. QED
  BY <1>2, <1>4, <1>5, <1>7, <1>8, <1>9

\* kmalloc_large takes the last freed slot: its page is unmapped, the slot off
\* the list.
LEMMA BeginReuse ==
    ASSUME Fits, NEW stk, NEW dep, NEW len, NEW use, NEW from,
           Inv(stk, dep, len, use, from), NEW size \in Sizes, large_begin(size),
           NEW slot, slot = head[Large], SlotFits(slot, PagesFor(size))
    PROVE  IInv' /\ InvWith(len, dep[Large] - 1)' /\ StaysPut /\ OtherLists(stk, dep, Large)
<1>. DEFINE n == PagesFor(size)
            own == Own(stk, dep)
            p0 == PageOf(slot)
            R == RangePages(slot, n)
            use1 == Relabel(use, R, "call")
            from1 == Relabel(from, R, slot)
            s == stk[Large]
            d == dep[Large]
            own2 == [g \in Heaps |-> IF g = Large THEN own[g] \ {p0} ELSE own[g]]
<1>i. /\ Typed /\ BootOrder /\ Cursors /\ Sound(m, dir, Started, own) /\ Lists(stk, dep)
      /\ BlocksSplit(stk, dep) /\ Uses(use, from) /\ SlotUses(s, d, len, use, from)
  BY DEF Inv
<1>0. op = Idle /\ ClassOf(size) = Large /\ slot # NULL /\ Read(m, slot + 1) >= n
  BY DEF large_begin, SlotFits
<1>1. /\ op.kind = "idle" /\ CallPages = {} /\ Started = Heaps /\ Large \in Started
      /\ Large \in Heaps /\ s \in [Nat -> Nat] /\ d \in Nat
      /\ cursor[Large] \in Nat /\ cursor[Large] % PageWords = 0
      /\ BasePage(Large) <= PageOf(cursor[Large]) /\ PageOf(cursor[Large]) <= RegionEnd(Large)
      /\ own[Large] = LargeOwn(Members(s, d))
  BY <1>0, IdleFacts
<1>2. n \in Nat \ {0} /\ size \in Nat
  BY PagesForFacts
<1>3. /\ Popped(m, slot, s, d) /\ d \in 1 .. d /\ slot = s[d] /\ slot \in Nat
      /\ slot % PageWords = 0 /\ len[d] \in Nat \ {0}
      /\ Mapped(m, slot) /\ Read(m, slot) = WordAt(m, slot) /\ WordAt(m, slot) \in Nat
      /\ Read(m, slot + 1) = len[d] /\ slot \in LowAddress
      /\ p0 \in RangePages(slot, len[d])
  BY <1>0, FirstSlot
<1>4. /\ m' = UnmapPage(m, dir[Large], slot)
      /\ head' = [head EXCEPT ![Large] = WordAt(m, slot)] /\ cursor' = cursor
      /\ op' = [kind |-> "map", i |-> 0, pages |-> n, size |-> size, start |-> slot]
      /\ dir' = dir /\ live' = live /\ lost' = lost /\ cpu' = cpu
  BY <1>3 DEF large_begin
<1>. DEFINE d1 == d - 1
<1>5. /\ IsList(m, WordAt(m, slot), s, d1) /\ d1 \in Nat /\ slot \in Members(s, d)
      /\ Members(s, d1) = Members(s, d) \ {slot}
  BY <1>3 DEF Popped
<1>6. \A k \in 1 .. d1 : k \in 1 .. d /\ k # d
  BY <1>1
<1>. HIDE DEF n, own, R, use1, from1, s, d, p0, d1
<1>a. op'.kind = "map" /\ op'.i = 0 /\ op'.pages = n /\ op'.size = size /\ op'.start = slot
  BY <1>4
<1>7. \A h : Held(h)' = Held(h)
  BY <1>4 DEF Held
<1>8. p0 \in Nat /\ p0 = PageOf(slot)
  BY <1>3, AddressParts DEF p0
\* the slot's pages are no one else's
<1>9. /\ \A p \in R : p \in RangePages(slot, len[d]) /\ p \in LargeRegion
      /\ R \subseteq Nat
  <2>1. n <= len[d] /\ n \in Nat /\ len[d] \in Nat
    BY <1>0, <1>2, <1>3
  <2>2. \A p \in R : p \in RangePages(slot, len[d])
    BY <1>8, <2>1 DEF R, RangePages
  <2>3. \A p \in RangePages(slot, len[d]) : p \in LargeRegion
    BY <1>i, <1>3 DEF SlotUses
  <2>4. \A p \in R : p \in Nat
    BY <1>2, <1>8 DEF R, RangePages
  <2>. QED
    BY <2>2, <2>3, <2>4
<1>10. ASSUME NEW p \in RangePages(slot, len[d])
       PROVE  /\ \A a \in Held(Large) : p \notin HeldPages(a)
              /\ \A x \in lost : PageOf(x) # p
              /\ \A k \in 1 .. d1 : p \notin RangePages(s[k], len[k])
  <2>1. d \in 1 .. dep[Large] /\ p \in RangePages(stk[Large][d], len[d])
    BY <1>3 DEF s, d
  <2>. QED
    BY <1>6, <2>1, RangesApart DEF s, d
<1>11. ASSUME NEW x \in Members(s, d1) PROVE PageOf(x) # p0
  <2>1. PICK k \in 1 .. d1 : x = s[k]
    BY DEF Members
  <2>2. x \in Nat /\ len[k] \in Nat \ {0}
    BY <1>i, <1>1, <1>6, <2>1 DEF SlotUses
  <2>3. PageOf(x) \in RangePages(x, len[k])
    BY <2>2, FirstPage
  <2>. QED
    BY <1>3, <1>10, <2>1, <2>3
<1>12. CallPages' = {}
  BY <1>8, <1>a DEF CallPages, RangePages, p0
<1>13. own2[Large] = LargeOwn(Members(s, d1))'
  <2>1. own2[Large] = own[Large] \ {p0}
    BY <1>1
  <2>2. LargeOwn(Members(s, d1))' = (UNION {HeldPages(a) : a \in Held(Large)})
           \cup {PageOf(x) : x \in Members(s, d1)} \cup {PageOf(x) : x \in lost}
    BY <1>4, <1>7, <1>12 DEF LargeOwn
  <2>3. own[Large] = (UNION {HeldPages(a) : a \in Held(Large)})
           \cup {PageOf(x) : x \in Members(s, d)} \cup {PageOf(x) : x \in lost}
    BY <1>1 DEF LargeOwn
  <2>4. {PageOf(x) : x \in Members(s, d)} = {PageOf(x) : x \in Members(s, d1)} \cup {p0}
    BY <1>5, <1>8
  <2>5. /\ p0 \notin UNION {HeldPages(a) : a \in Held(Large)}
        /\ p0 \notin {PageOf(x) : x \in lost} /\ p0 \notin {PageOf(x) : x \in Members(s, d1)}
    BY <1>3, <1>10, <1>11
  <2>. QED
    BY <2>1, <2>2, <2>3, <2>4, <2>5
<1>14. PageLeaves(Started, own, own2, Large, p0)
  <2>1. p0 \in own[Large]
    BY <1>1, <1>5, <1>8 DEF LargeOwn
  <2>. QED
    BY <1>1, <2>1 DEF PageLeaves
<1>15. \A h \in Started : h # Large => own2[h] = own[h]
  BY <1>1
<1>. HIDE DEF own2
<1>16. Sound(m', dir, Started, own2) /\ KeepsPages(m, m', Started, own2)
  <2>1. NumFrames <= AddressableFrames
    BY DEF Fits
  <2>. QED
    BY <1>i, <1>1, <1>3, <1>4, <1>8, <1>14, <2>1, UnmapSound
<1>17. ASSUME NEW x \in Owned(Started, own), PageOf(x) # p0
       PROVE  WordAt(m', x) = WordAt(m, x)
  <2>1. x \in Owned(Started, own2)
    BY <1>14, <1>17 DEF Owned, PageLeaves
  <2>. QED
    BY <1>16, <2>1, KeptWords DEF SameWords
<1>18. ASSUME NEW c \in live, NEW x \in Span(c)
       PROVE  WordAt(m', x) = WordAt(m, x) /\ PageOf(x) # p0
  <2>1. x \in Owned(Started, own)
    BY KnownWords DEF own
  <2>2. PageOf(x) # p0
    BY <1>5, <1>8, SpansApart DEF s, d
  <2>. QED
    BY <1>17, <2>1, <2>2
<1>19. ASSUME NEW x \in Members(s, d1)
       PROVE  WordAt(m', x) = WordAt(m, x) /\ WordAt(m', x + 1) = WordAt(m, x + 1)
  <2>1. x \in Members(stk[Large], dep[Large])
    BY <1>5 DEF s, d
  <2>2. x \in Owned(Started, own) /\ x + 1 \in Owned(Started, own) /\ PageOf(x + 1) = PageOf(x)
    BY <1>1, <2>1, KnownWords DEF own
  <2>. QED
    BY <1>11, <1>17, <2>2
<1>20. IsList(m', head'[Large], s, d1)
  <2>1. head'[Large] = WordAt(m, slot)
    BY <1>i, <1>1, <1>4 DEF Typed
  <2>2. \A x \in Members(s, d1) : WordAt(m', x) = WordAt(m, x)
    BY <1>19
  <2>. DEFINE v == WordAt(m, slot)
  <2>. HIDE DEF v
  <2>3. IsList(m, v, s, d1)
    BY <1>5 DEF v
  <2>4. IsList(m', v, s, d1)
    BY <2>2, <2>3, ListKept
  <2>. QED
    BY <2>1, <2>4 DEF v
<1>21. Typed'
  <2>1. head' \in [Heaps -> Nat]
    BY <1>i, <1>1, <1>3, <1>4 DEF Typed
  <2>2. op' \in Calls'
    BY <1>2, <1>3, <1>4 DEF Calls
  <2>. QED
    BY <1>i, <1>4, <2>1, <2>2 DEF Typed
<1>22. BootOrder'
  <2>1. Started' = Started
    BY <1>4 DEF Started
  <2>. QED
    BY <1>1, <1>a, <2>1 DEF BootOrder
<1>23. DataKept'
  <2>1. /\ \A c \in live : c \in live' => \A x \in Span(c) : WordAt(m', x) = WordAt(m, x)
        /\ \A c \in live' : op' # [kind |-> "fill", of |-> c] =>
              c \in live /\ op # [kind |-> "fill", of |-> c]
    BY <1>0, <1>1, <1>4, <1>18
  <2>. QED
    BY <2>1, SpansStay
<1>24. use1 = Relabel(use, R, "call") /\ from1 = Relabel(from, R, slot)
       /\ LargeRegion' = LargeRegion
  BY <1>4 DEF use1, from1, LargeRegion
<1>25. /\ \A a \in Held(Large) : HeldUse(a, use1, from1)'
       /\ \A x \in lost : LostUse(x, use1)'
       /\ \A k \in 1 .. d1 : SlotUse(s[k], len[k], use1, from1)'
  <2>1. /\ \A a \in Held(Large) :
              /\ \A p \in HeldPages(a) : p \notin R
              /\ WordAt(m', a.ptr - 1) = WordAt(m, a.ptr - 1)
              => HeldUse(a, use1, from1)'
        /\ \A x \in lost : PageOf(x) \notin R => LostUse(x, use1)'
        /\ \A k \in 1 .. dep[Large] :
              /\ \A p \in RangePages(stk[Large][k], len[k]) : p \notin R
              /\ WordAt(m', stk[Large][k] + 1) = WordAt(m, stk[Large][k] + 1)
              => SlotUse(stk[Large][k], len[k], use1, from1)'
    BY <1>24, Relabelled
  <2>2. /\ \A a \in Held(Large) : \A p \in HeldPages(a) : p \notin R
        /\ \A x \in lost : PageOf(x) \notin R
        /\ \A k \in 1 .. d1 : \A p \in RangePages(s[k], len[k]) : p \notin R
    BY <1>9, <1>10
  <2>3. ASSUME NEW a \in Held(Large) PROVE WordAt(m', a.ptr - 1) = WordAt(m, a.ptr - 1)
    <3>1. a \in live /\ ClassOf(a.size) = Large
      BY DEF Held
    <3>2. a.ptr - 1 \in Span(a)
      BY <1>i, <3>1, SpanPlace
    <3>. QED
      BY <1>18, <3>1, <3>2
  <2>4. \A k \in 1 .. d1 : s[k] \in Members(s, d1)
    BY DEF Members
  <2>. QED
    BY <1>6, <1>19, <2>1, <2>2, <2>3, <2>4 DEF s, d
<1>26. Uses(use1, from1)'
  BY <1>4, <1>7, <1>25 DEF Uses, HeldUse, LostUse
<1>27. SlotUses(s, d1, len, use1, from1)'
  BY <1>25 DEF SlotUses, SlotUse
<1>28. CallUses(use1)'
  <2>1. \A p \in R : p \in LargeRegion' /\ use1[p] = "call"
    BY <1>9, <1>24 DEF Relabel
  <2>2. n = PagesFor(size) /\ R = RangePages(slot, n) /\ 0 <= n
    BY <1>2 DEF n, R
  <2>. QED
    BY <1>0, <1>2, <1>3, <1>a, <2>1, <2>2 DEF CallUses
<1>29. ASSUME NEW h \in Started, h # Large, NEW x \in Nat, PageOf(x) \in own[h]
       PROVE  WordAt(m', x) = WordAt(m, x)
  <2>1. x \in Owned(Started, own2)
    BY <1>15, <1>29 DEF Owned
  <2>. QED
    BY <1>16, <2>1, KeptWords DEF SameWords
<1>30. /\ \A a, b \in live' : a.ptr = b.ptr => a = b
       /\ cursor'[Large] % PageWords = 0
       /\ BasePage(Large) <= PageOf(cursor'[Large])
       /\ PageOf(cursor'[Large]) <= RegionEnd(Large)
       /\ \A h \in Domains :
             head'[h] = head[h] /\ cursor'[h] = cursor[h] /\ Held(h)' = Held(h)
  BY <1>i, <1>1, <1>4, <1>7, HeapNumbers DEF BlocksSplit, Typed, Heaps
<1>31. /\ \A h \in Started : h # Large => \A x \in Nat : PageOf(x) \in own[h] =>
             WordAt(m', x) = WordAt(m, x)
       /\ s \in [Nat -> Nat] /\ d1 \in Nat /\ Large \in Started /\ dir' = dir
       /\ Sound(m', dir, Started, own2)
  BY <1>1, <1>4, <1>5, <1>16, <1>29
<1>inv. IInv' /\ InvWith(len, d1)' /\ OtherLists(stk, dep, Large)
  BY <1>13, <1>15, <1>20, <1>21, <1>22, <1>23, <1>26, <1>27, <1>28,
     <1>30, <1>31, LargeStep DEF own
<1>stay. StaysPut
  <2>1. \A c \in live : \A x \in Span(c) : PageOf(x) # p0
    BY <1>18
  <2>2. /\ PageLeaves(Started, Own(stk, dep), own2, Large, p0)
        /\ SameFrames(m, m', Started, own2)
    BY <1>14, <1>16, KeptWords DEF own
  <2>. QED
    BY <2>1, <2>2, OthersStay
<1>. QED
  BY <1>inv, <1>stay DEF d1, d

\* The large domain's state in the middle of kmalloc_large or kfree_large.
LEMMA CallFacts ==
    ASSUME Fits, NEW stk, NEW dep, NEW len, NEW use, NEW from,
           Inv(stk, dep, len, use, from), op.kind \in {"map", "unmap"},
           NEW start, start = op.start, NEW i, i = op.i, NEW n, n = op.pages,
           NEW s, s = stk[Large], NEW d, d = dep[Large]
    PROVE  /\ start \in Nat /\ i \in Nat /\ n \in Nat \ {0} /\ i <= n
           /\ start % PageWords = 0 /\ PageOf(start) \in Nat
           /\ op.kind = "map" => /\ op.size \in Sizes /\ n = PagesFor(op.size)
                                 /\ ClassOf(op.size) = Large
                                 /\ op = [kind |-> "map", i |-> i, pages |-> n,
                                          size |-> op.size, start |-> start]
           /\ op.kind = "unmap" => /\ i >= 1
                                   /\ op = [kind |-> "unmap", i |-> i, pages |-> n,
                                            start |-> start]
           /\ \A p \in RangePages(start, n) :
                 /\ p \in LargeRegion /\ p \in Nat /\ use[p] = "call"
                 /\ \A a \in Held(Large) : p \notin HeldPages(a)
                 /\ \A x \in lost : PageOf(x) # p
                 /\ \A k \in 1 .. d : p \notin RangePages(s[k], len[k])
                 /\ \A x \in Members(s, d) : PageOf(x) # p
           /\ Started = Heaps /\ Large \in Started
           /\ Large \in Heaps /\ cursor[Large] \in Nat /\ head[Large] \in Nat
           /\ IsList(m, head[Large], s, d)
           /\ s \in [Nat -> Nat] /\ d \in Nat
           /\ cursor[Large] % PageWords = 0 /\ BasePage(Large) <= PageOf(cursor[Large])
           /\ PageOf(cursor[Large]) <= RegionEnd(Large)
           /\ Own(stk, dep)[Large] = LargeOwn(Members(s, d))
<1>i. Typed /\ BootOrder /\ Cursors /\ Lists(stk, dep) /\ CallUses(use)
      /\ SlotUses(s, d, len, use, from)
  BY DEF Inv
<1>1. /\ start \in Nat /\ i \in Nat /\ n \in Nat
      /\ op.kind = "map" => op.size \in Sizes
                            /\ op = [kind |-> "map", i |-> i, pages |-> n,
                                     size |-> op.size, start |-> start]
      /\ op.kind = "unmap" => op = [kind |-> "unmap", i |-> i, pages |-> n, start |-> start]
  <2>1. CASE op.kind = "map"
    <3>1. op \in [kind : {"map"}, i : Nat, pages : Nat, size : Sizes, start : Nat]
      BY <1>i, <2>1, CallKinds DEF Typed
    <3>. QED
      BY <2>1, <3>1
  <2>2. CASE op.kind = "unmap"
    <3>1. op \in [kind : {"unmap"}, i : Nat, pages : Nat, start : Nat]
      BY <1>i, <2>2, CallKinds DEF Typed
    <3>. QED
      BY <2>2, <3>1
  <2>. QED
    BY <2>1, <2>2
<1>2. /\ start % PageWords = 0 /\ n # 0 /\ i <= n
      /\ op.kind = "map" => n = PagesFor(op.size) /\ ClassOf(op.size) = Large
      /\ op.kind = "unmap" => i >= 1
      /\ \A p \in RangePages(start, n) : p \in LargeRegion /\ use[p] = "call"
  BY <1>i DEF CallUses
<1>3. Started = Heaps /\ Large \in Heaps
  BY <1>i DEF BootOrder, Heaps
<1>4. PageOf(start) \in Nat
  BY <1>1, AddressParts
<1>5. /\ cursor[Large] \in Nat /\ head[Large] \in Nat
      /\ IsList(m, head[Large], s, d) /\ s \in [Nat -> Nat] /\ d \in Nat
      /\ cursor[Large] % PageWords = 0 /\ BasePage(Large) <= PageOf(cursor[Large])
      /\ PageOf(cursor[Large]) <= RegionEnd(Large)
      /\ Own(stk, dep)[Large] = LargeOwn(Members(s, d))
  BY <1>i, <1>3 DEF Typed, Cursors, Lists, Own
<1>6. ASSUME NEW p \in RangePages(start, n)
      PROVE  /\ p \in Nat /\ \A a \in Held(Large) : p \notin HeldPages(a)
             /\ \A x \in lost : PageOf(x) # p
             /\ \A k \in 1 .. d : p \notin RangePages(s[k], len[k])
  BY RangesApart
<1>7. ASSUME NEW p \in RangePages(start, n), NEW x \in Members(s, d) PROVE PageOf(x) # p
  <2>1. PICK k \in 1 .. d : x = s[k]
    BY DEF Members
  <2>2. x \in Nat /\ len[k] \in Nat \ {0}
    BY <1>i, <1>5, <2>1 DEF SlotUses
  <2>3. PageOf(x) \in RangePages(x, len[k])
    BY <2>2, FirstPage
  <2>. QED
    BY <1>6, <2>1, <2>3
<1>. QED
  BY <1>1, <1>2, <1>3, <1>4, <1>5, <1>6, <1>7

\* The addresses of the first i pages of a range.
LEMMA RangeStarts ==
    ASSUME NEW start \in Nat, start % PageWords = 0, NEW i \in Nat
    PROVE  /\ \A x \in LargePages(start, i) :
                 x \in Nat /\ x % PageWords = 0 /\ PageOf(x) \in RangePages(start, i)
           /\ {PageOf(x) : x \in LargePages(start, i)} = RangePages(start, i)
<1>1. PageOf(start) \in Nat
  BY AddressParts
<1>2. ASSUME NEW j \in 0 .. i - 1
      PROVE  /\ start + j * PageWords \in Nat /\ (start + j * PageWords) % PageWords = 0
             /\ PageOf(start + j * PageWords) = PageOf(start) + j
  <2>1. j \in Nat
    OBVIOUS
  <2>. QED
    BY <2>1, ByPages
<1>3. ASSUME NEW x \in LargePages(start, i)
      PROVE  x \in Nat /\ x % PageWords = 0 /\ PageOf(x) \in RangePages(start, i)
  <2>1. PICK j \in 0 .. i - 1 : x = start + j * PageWords
    BY DEF LargePages
  <2>2. PageOf(start) + j \in RangePages(start, i)
    BY <1>1 DEF RangePages
  <2>. QED
    BY <1>2, <2>1, <2>2
<1>4. ASSUME NEW p \in RangePages(start, i)
      PROVE  \E x \in LargePages(start, i) : p = PageOf(x)
  <2>. DEFINE j == p - PageOf(start)
  <2>1. j \in 0 .. i - 1 /\ p = PageOf(start) + j
    BY <1>1 DEF RangePages
  <2>. HIDE DEF j
  <2>2. start + j * PageWords \in LargePages(start, i)
    BY <2>1 DEF LargePages
  <2>. QED
    BY <1>2, <2>1, <2>2
<1>. QED
  BY <1>3, <1>4

\* kmalloc_large gives up: the pages it has mapped are lost.
LEMMA MapFails ==
    ASSUME Fits, NEW stk, NEW dep, NEW len, NEW use, NEW from,
           Inv(stk, dep, len, use, from), large_map, ProcessFrame = NoFrame,
           NEW start, start = op.start, NEW i, i = op.i
    PROVE  IInv' /\ InvWith(len, dep[Large])'
<1>. DEFINE n == op.pages
            own == Own(stk, dep)
            R == RangePages(start, i)
            use1 == Relabel(use, R, "lost")
            from1 == Relabel(from, R, 0)
            s == stk[Large]
            d == dep[Large]
<1>i. /\ Typed /\ BootOrder /\ Cursors /\ Sound(m, dir, Started, own) /\ Lists(stk, dep)
      /\ BlocksSplit(stk, dep) /\ Uses(use, from) /\ SlotUses(s, d, len, use, from)
  BY DEF Inv
<1>0. op.kind = "map" /\ i < n /\ ~ScanHangs
  BY <1>i, NoHang DEF large_map
<1>1. /\ start \in Nat /\ i \in Nat /\ n \in Nat /\ start % PageWords = 0 /\ PageOf(start) \in Nat
      /\ \A p \in RangePages(start, n) :
            /\ p \in LargeRegion /\ p \in Nat
            /\ \A a \in Held(Large) : p \notin HeldPages(a)
            /\ \A x \in lost : PageOf(x) # p
            /\ \A k \in 1 .. d : p \notin RangePages(s[k], len[k])
      /\ Started = Heaps /\ Large \in Started /\ Large \in Heaps
      /\ IsList(m, head[Large], s, d) /\ s \in [Nat -> Nat] /\ d \in Nat
      /\ cursor[Large] % PageWords = 0 /\ BasePage(Large) <= PageOf(cursor[Large])
      /\ PageOf(cursor[Large]) <= RegionEnd(Large)
      /\ own[Large] = LargeOwn(Members(s, d))
  <2>. HIDE DEF s, d, n, own
  <2>1. s = stk[Large] /\ d = dep[Large] /\ n = op.pages /\ own = Own(stk, dep)
    BY DEF s, d, n, own
  <2>. QED
    BY <1>0, <2>1, CallFacts
<1>2. /\ m' = m /\ dir' = dir /\ cursor' = cursor /\ head' = head /\ live' = live /\ cpu' = cpu
      /\ op' = Idle /\ lost' = lost \cup LargePages(start, i)
  BY <1>0 DEF large_map, LargePages
<1>. HIDE DEF n, own, R, use1, from1, s, d
<1>3. /\ \A x \in LargePages(start, i) :
            x \in Nat /\ x % PageWords = 0 /\ PageOf(x) \in R
      /\ {PageOf(x) : x \in LargePages(start, i)} = R
  BY <1>1, RangeStarts DEF R
<1>4. \A p \in R : p \in RangePages(start, n)
  BY <1>0, <1>1 DEF R, RangePages
<1>5. /\ \A h : Held(h)' = Held(h)
      /\ LargeRegion' = LargeRegion /\ Started' = Started /\ op'.kind = "idle"
  BY <1>2 DEF Held, LargeRegion, Started, Idle
<1>6. CallPages' = {} /\ CallPages = R
  BY <1>0, <1>5 DEF CallPages, R
<1>7. LargeOwn(Members(s, d))' = own[Large]
  <2>1. {PageOf(x) : x \in lost'} = {PageOf(x) : x \in lost} \cup R
    BY <1>2, <1>3
  <2>2. LargeOwn(Members(s, d))' = (UNION {HeldPages(a) : a \in Held(Large)})
           \cup {PageOf(x) : x \in Members(s, d)} \cup {PageOf(x) : x \in lost'}
    BY <1>5, <1>6 DEF LargeOwn
  <2>3. own[Large] = (UNION {HeldPages(a) : a \in Held(Large)})
           \cup {PageOf(x) : x \in Members(s, d)} \cup {PageOf(x) : x \in lost} \cup R
    BY <1>1, <1>6 DEF LargeOwn
  <2>. QED
    BY <2>1, <2>2, <2>3
<1>8. Typed'
  <2>1. op' \in Calls' /\ lost' \subseteq Nat
    BY <1>i, <1>2, <1>3 DEF Calls, Typed
  <2>. QED
    BY <1>i, <1>2, <2>1 DEF Typed
<1>9. BootOrder'
  BY <1>1, <1>5 DEF BootOrder
<1>10. DataKept'
  <2>1. /\ \A c \in live : c \in live' => \A x \in Span(c) : WordAt(m', x) = WordAt(m, x)
        /\ \A c \in live' : op' # [kind |-> "fill", of |-> c] =>
              c \in live /\ op # [kind |-> "fill", of |-> c]
    BY <1>0, <1>2
  <2>. QED
    BY <2>1, SpansStay
<1>11. use1 = Relabel(use, R, "lost") /\ from1 = Relabel(from, R, 0)
  BY DEF use1, from1
<1>12. /\ \A a \in Held(Large) : HeldUse(a, use1, from1)'
       /\ \A x \in lost : LostUse(x, use1)'
       /\ \A k \in 1 .. d : SlotUse(s[k], len[k], use1, from1)'
  <2>1. /\ \A a \in Held(Large) :
              /\ \A p \in HeldPages(a) : p \notin R
              /\ WordAt(m', a.ptr - 1) = WordAt(m, a.ptr - 1)
              => HeldUse(a, use1, from1)'
        /\ \A x \in lost : PageOf(x) \notin R => LostUse(x, use1)'
        /\ \A k \in 1 .. dep[Large] :
              /\ \A p \in RangePages(stk[Large][k], len[k]) : p \notin R
              /\ WordAt(m', stk[Large][k] + 1) = WordAt(m, stk[Large][k] + 1)
              => SlotUse(stk[Large][k], len[k], use1, from1)'
    BY <1>5, <1>11, Relabelled
  <2>2. /\ \A a \in Held(Large) : \A p \in HeldPages(a) : p \notin R
        /\ \A x \in lost : PageOf(x) \notin R
        /\ \A k \in 1 .. d : \A p \in RangePages(s[k], len[k]) : p \notin R
    BY <1>1, <1>4
  <2>. QED
    BY <1>2, <2>1, <2>2 DEF s, d
<1>13. \A x \in LargePages(start, i) : LostUse(x, use1)'
  BY <1>1, <1>3, <1>4, <1>5, <1>11 DEF LostUse, Relabel
<1>14. Uses(use1, from1)'
  BY <1>2, <1>5, <1>12, <1>13 DEF Uses, HeldUse, LostUse
<1>15. SlotUses(s, d, len, use1, from1)'
  BY <1>12 DEF SlotUses, SlotUse
<1>16. CallUses(use1)'
  BY <1>5 DEF CallUses
<1>17. /\ \A a, b \in live' : a.ptr = b.ptr => a = b
       /\ Sound(m', dir, Started, own) /\ IsList(m', head'[Large], s, d)
       /\ \A h \in Started : h # Large => \A x \in Nat : PageOf(x) \in own[h] =>
             WordAt(m', x) = WordAt(m, x)
       /\ cursor'[Large] % PageWords = 0
       /\ BasePage(Large) <= PageOf(cursor'[Large])
       /\ PageOf(cursor'[Large]) <= RegionEnd(Large)
       /\ own[Large] = LargeOwn(Members(s, d))'
       /\ \A h \in Domains :
             head'[h] = head[h] /\ cursor'[h] = cursor[h] /\ Held(h)' = Held(h)
       /\ s \in [Nat -> Nat] /\ d \in Nat /\ Large \in Started /\ dir' = dir
  BY <1>i, <1>1, <1>2, <1>5, <1>7 DEF BlocksSplit
<1>inv. IInv' /\ InvWith(len, d)'
  BY <1>8, <1>9, <1>10, <1>14, <1>15, <1>16, <1>17, LargeStep DEF own
<1>. QED
  BY <1>inv DEF d

\* A page of the large domain's region is in the lower half, and no size
\* class's.
LEMMA LargePlace ==
    ASSUME Fits, NEW stk, NEW dep, NEW len, NEW use, NEW from,
           Inv(stk, dep, len, use, from), Started = Heaps, NEW p \in LargeRegion
    PROVE  /\ p \in Nat /\ p \in LowPages /\ p > 0
           /\ \A g \in Started : g # Large => p \notin Own(stk, dep)[g]
<1>i. /\ Typed /\ BootOrder /\ Cursors /\ Lists(stk, dep) /\ Uses(use, from) /\ CallUses(use)
      /\ SlotUses(stk[Large], dep[Large], len, use, from)
  BY DEF Inv
<1>1. Large \in Heaps /\ Large \in Nat /\ PageOf(cursor[Large]) <= RegionEnd(Large)
      /\ PageOf(cursor[Large]) \in Nat /\ BasePage(Large) \in Nat /\ RegionEnd(Large) \in Nat
  <2>1. Large \in Heaps /\ Large \in Nat /\ MaxLargePages \in Nat
    BY HeapNumbers DEF Heaps
  <2>2. cursor[Large] \in Nat /\ PageOf(cursor[Large]) <= RegionEnd(Large)
    BY <1>i, <2>1 DEF Cursors, Typed
  <2>3. BasePage(Large) \in Nat
    BY <2>1, BaseIsPage
  <2>. QED
    BY <2>1, <2>2, <2>3, AddressParts DEF RegionEnd
<1>2. p \in Nat /\ BasePage(Large) <= p /\ p < RegionEnd(Large)
  BY <1>1 DEF LargeRegion
<1>3. p \in LowPages /\ p > 0
  BY <1>1, <1>2, RegionLow
<1>4. ASSUME NEW g \in Started, g # Large, p \in Own(stk, dep)[g] PROVE FALSE
  <2>1. BasePage(g) <= p /\ p < RegionEnd(g)
    BY <1>i, <1>4, OwnInRegion
  <2>2. g \in Heaps
    BY DEF Started
  <2>. QED
    BY <1>1, <1>2, <1>4, <2>1, <2>2, RegionsApart
<1>. QED
  BY <1>2, <1>3, <1>4

\* One round of kmalloc_large's loop with a frame: one page more is mapped.
LEMMA MapGrows ==
    ASSUME Fits, NEW stk, NEW dep, NEW len, NEW use, NEW from,
           Inv(stk, dep, len, use, from), large_map, ProcessFrame # NoFrame, Sane',
           NEW start, start = op.start, NEW i, i = op.i, NEW n, n = op.pages,
           NEW size, size = op.size
    PROVE  IInv' /\ InvWith(len, dep[Large])' /\ StaysPut /\ OtherLists(stk, dep, Large)
<1>. DEFINE f == ProcessFrame
            virt == start + i * PageWords
            p == PageOf(start) + i
            own == Own(stk, dep)
            use1 == Relabel(use, {}, "call")
            from1 == Relabel(from, {}, 0)
            s == stk[Large]
            d == dep[Large]
            own2 == [g \in Heaps |-> IF g = Large THEN own[g] \cup {p} ELSE own[g]]
<1>i. /\ Typed /\ BootOrder /\ Cursors /\ Sound(m, dir, Started, own) /\ Lists(stk, dep)
      /\ BlocksSplit(stk, dep) /\ Uses(use, from) /\ SlotUses(s, d, len, use, from)
  BY DEF Inv
<1>0. op.kind = "map" /\ i < n /\ ~ScanHangs
  BY <1>i, NoHang DEF large_map
<1>1. /\ start \in Nat /\ i \in Nat /\ n \in Nat \ {0} /\ start % PageWords = 0
      /\ PageOf(start) \in Nat
      /\ size \in Sizes /\ n = PagesFor(size) /\ ClassOf(size) = Large
      /\ op = [kind |-> "map", i |-> i, pages |-> n, size |-> size, start |-> start]
      /\ \A q \in RangePages(start, n) :
            /\ q \in LargeRegion /\ q \in Nat /\ use[q] = "call"
            /\ \A a \in Held(Large) : q \notin HeldPages(a)
            /\ \A x \in lost : PageOf(x) # q
            /\ \A x \in Members(s, d) : PageOf(x) # q
      /\ Started = Heaps /\ Large \in Started /\ Large \in Heaps
      /\ IsList(m, head[Large], s, d) /\ s \in [Nat -> Nat] /\ d \in Nat
      /\ cursor[Large] % PageWords = 0 /\ BasePage(Large) <= PageOf(cursor[Large])
      /\ PageOf(cursor[Large]) <= RegionEnd(Large)
      /\ own[Large] = LargeOwn(Members(s, d))
  <2>. HIDE DEF s, d, own
  <2>1. s = stk[Large] /\ d = dep[Large] /\ own = Own(stk, dep)
    BY DEF s, d, own
  <2>. QED
    BY <1>0, <2>1, CallFacts
<1>2. /\ m' \in DoubleMap(Large, virt, f) /\ op' = [op EXCEPT !.i = i + 1]
      /\ dir' = dir /\ cursor' = cursor /\ head' = head /\ live' = live /\ cpu' = cpu
      /\ lost' = lost
  BY <1>0 DEF large_map
<1>3. op' = [kind |-> "map", i |-> i + 1, pages |-> n, size |-> size, start |-> start]
  BY <1>1, <1>2
<1>4. virt \in Nat /\ PageOf(virt) = p
  BY <1>1, ByPages
<1>5. p \in RangePages(start, n) /\ p \in Nat /\ p \notin RangePages(start, i)
      /\ RangePages(start, i + 1) = RangePages(start, i) \cup {p}
      /\ i + 1 \in Nat /\ i + 1 <= n
  BY <1>0, <1>1 DEF RangePages
<1>. HIDE DEF own, use1, from1, s, d, p, f
<1>6. op'.kind = "map" /\ op'.i = i + 1 /\ op'.pages = n /\ op'.size = size /\ op'.start = start
  BY <1>3
<1>7. /\ \A h : Held(h)' = Held(h)
      /\ LargeRegion' = LargeRegion /\ Started' = Started
  BY <1>2 DEF Held, LargeRegion, Started
<1>8. CallPages = RangePages(start, i) /\ CallPages' = RangePages(start, i + 1)
  BY <1>0, <1>6 DEF CallPages
<1>9. own2[Large] = LargeOwn(Members(s, d))'
  <2>1. own2[Large] = own[Large] \cup {p}
    BY <1>1
  <2>2. LargeOwn(Members(s, d))' = (UNION {HeldPages(a) : a \in Held(Large)})
           \cup {PageOf(x) : x \in Members(s, d)} \cup {PageOf(x) : x \in lost}
           \cup RangePages(start, i + 1)
    BY <1>2, <1>7, <1>8 DEF LargeOwn
  <2>3. own[Large] = (UNION {HeldPages(a) : a \in Held(Large)})
           \cup {PageOf(x) : x \in Members(s, d)} \cup {PageOf(x) : x \in lost}
           \cup RangePages(start, i)
    BY <1>1, <1>8 DEF LargeOwn
  <2>. QED
    BY <1>5, <2>1, <2>2, <2>3
<1>10. p \in LowPages /\ \A g \in Started : p \notin own[g]
  <2>1. p \in LargeRegion
    BY <1>1, <1>5
  <2>2. p \in LowPages /\ \A g \in Started : g # Large => p \notin own[g]
    BY <1>1, <2>1, LargePlace DEF own
  <2>3. p \notin own[Large]
    <3>1. p \notin UNION {HeldPages(a) : a \in Held(Large)}
      BY <1>1, <1>5
    <3>. QED
      BY <1>1, <1>5, <1>8, <3>1 DEF LargeOwn
  <2>. QED
    BY <2>2, <2>3
<1>11. PageJoins(Started, own, own2, Large, p) /\ \A h \in Started : h # Large => own2[h] = own[h]
  BY <1>1, <1>10 DEF PageJoins
<1>. HIDE DEF own2, virt
<1>12. virt \in LowAddress /\ p = PageOf(virt)
  BY <1>4, <1>10 DEF LowAddress
<1>13. f \in Frame \ (m.bitmap \cup Image)
  <2>1. m.bitmap \in SUBSET Frame /\ Image \subseteq m.bitmap
    BY <1>i DEF Sound, Tables
  <2>. QED
    BY <2>1, ProcessFrameFound DEF ProcessFrame, f
<1>14. Sound(m', dir, Started, own2) /\ KeepsPages(m, m', Started, own)
  <2>. DEFINE mem == m'
  <2>1. mem = MapTwice(m, dir[Large], virt, f) /\ NumFrames <= AddressableFrames
    BY <1>2 DEF DoubleMap, MapTwice, Fits
  <2>2. FirstTable(m, dir[Large], virt, f) # NoFrame
        /\ SecondTable(m, dir[Large], virt, f) # NoFrame
    <3>1. /\ mem \in DoubleMap(Large, virt, f) /\ dir' = dir /\ TablesBacked'
          /\ mem.ram[dir[Large]] = m'.ram[dir[Large]]
          /\ mem.ram[KernelDir] = m'.ram[KernelDir]
      BY <1>2 DEF Sane
    <3>. HIDE DEF mem
    <3>. QED
      BY <1>i, <1>1, <1>12, <1>13, <3>1, TablesFound
  <2>. HIDE DEF mem
  <2>3. Sound(mem, dir, Started, own2) /\ KeepsPages(m, mem, Started, own)
    BY <1>i, <1>1, <1>11, <1>12, <1>13, <2>1, <2>2, MapTwiceSound
  <2>. QED
    BY <2>3 DEF mem
<1>15. \A x \in Owned(Started, own) : WordAt(m', x) = WordAt(m, x)
  BY <1>14, KeptWords DEF SameWords
<1>16. IsList(m', head'[Large], s, d)
  <2>1. \A x \in Members(s, d) : WordAt(m', x) = WordAt(m, x)
    BY <1>1, <1>15, KnownWords DEF own, s, d
  <2>2. head'[Large] = head[Large]
    BY <1>2
  <2>. DEFINE v == head[Large]
  <2>. HIDE DEF v
  <2>3. IsList(m, v, s, d)
    BY <1>1 DEF v
  <2>4. IsList(m', v, s, d)
    BY <2>1, <2>3, ListKept
  <2>. QED
    BY <2>2, <2>4 DEF v
<1>17. Typed'
  <2>1. op' \in Calls'
    BY <1>1, <1>3, <1>5 DEF Calls
  <2>. QED
    BY <1>i, <1>2, <2>1 DEF Typed
<1>18. BootOrder'
  BY <1>1, <1>6, <1>7 DEF BootOrder
<1>19. DataKept'
  <2>1. \A c \in live' : op' # [kind |-> "fill", of |-> c] =>
           c \in live /\ op # [kind |-> "fill", of |-> c]
    BY <1>0, <1>2
  <2>. QED
    BY <1>15, <2>1, DataStays DEF own
<1>20. use1 = Relabel(use, {}, "call") /\ from1 = Relabel(from, {}, 0)
  BY DEF use1, from1
<1>21. /\ \A a \in Held(Large) : HeldUse(a, use1, from1)'
       /\ \A x \in lost : LostUse(x, use1)'
       /\ \A k \in 1 .. d : SlotUse(s[k], len[k], use1, from1)'
  <2>1. /\ \A a \in Held(Large) :
              /\ \A q \in HeldPages(a) : q \notin {}
              /\ WordAt(m', a.ptr - 1) = WordAt(m, a.ptr - 1)
              => HeldUse(a, use1, from1)'
        /\ \A x \in lost : PageOf(x) \notin {} => LostUse(x, use1)'
        /\ \A k \in 1 .. dep[Large] :
              /\ \A q \in RangePages(stk[Large][k], len[k]) : q \notin {}
              /\ WordAt(m', stk[Large][k] + 1) = WordAt(m, stk[Large][k] + 1)
              => SlotUse(stk[Large][k], len[k], use1, from1)'
    BY <1>7, <1>20, Relabelled
  <2>2. ASSUME NEW a \in Held(Large) PROVE WordAt(m', a.ptr - 1) = WordAt(m, a.ptr - 1)
    <3>1. a \in live /\ ClassOf(a.size) = Large
      BY DEF Held
    <3>2. a.ptr - 1 \in Span(a)
      BY <1>i, <3>1, SpanPlace
    <3>3. Span(a) \subseteq Owned(Started, own)
      BY <3>1, KnownWords DEF own
    <3>. QED
      BY <1>15, <3>2, <3>3
  <2>3. ASSUME NEW k \in 1 .. d PROVE WordAt(m', s[k] + 1) = WordAt(m, s[k] + 1)
    <3>1. s[k] \in Members(s, d)
      BY DEF Members
    <3>2. s[k] + 1 \in Owned(Started, own)
      BY <3>1, KnownWords DEF own, s, d
    <3>. QED
      BY <1>15, <3>2
  <2>. QED
    BY <2>1, <2>2, <2>3 DEF s, d
<1>22. Uses(use1, from1)'
  BY <1>2, <1>7, <1>21 DEF Uses, HeldUse, LostUse
<1>23. SlotUses(s, d, len, use1, from1)'
  BY <1>21 DEF SlotUses, SlotUse
<1>24. CallUses(use1)'
  <2>1. \A q \in RangePages(start, n) : q \in LargeRegion' /\ use1[q] = "call"
    BY <1>1, <1>7, <1>20 DEF Relabel
  <2>. QED
    BY <1>1, <1>5, <1>6, <2>1 DEF CallUses
<1>25. /\ \A a, b \in live' : a.ptr = b.ptr => a = b
       /\ \A h \in Started : h # Large => \A x \in Nat : PageOf(x) \in own[h] =>
             WordAt(m', x) = WordAt(m, x)
       /\ cursor'[Large] % PageWords = 0
       /\ BasePage(Large) <= PageOf(cursor'[Large])
       /\ PageOf(cursor'[Large]) <= RegionEnd(Large)
       /\ \A h \in Domains :
             head'[h] = head[h] /\ cursor'[h] = cursor[h] /\ Held(h)' = Held(h)
       /\ s \in [Nat -> Nat] /\ d \in Nat /\ Large \in Started /\ dir' = dir
       /\ Sound(m', dir, Started, own2)
  BY <1>i, <1>1, <1>2, <1>7, <1>14, <1>15 DEF BlocksSplit, Owned
<1>inv. IInv' /\ InvWith(len, d)' /\ OtherLists(stk, dep, Large)
  BY <1>9, <1>11, <1>16, <1>17, <1>18, <1>19, <1>22, <1>23, <1>24, <1>25, LargeStep DEF own
<1>stay. StaysPut
  <2>1. SameFrames(m, m', Started, Own(stk, dep))
    BY <1>14, KeptWords DEF own
  <2>. QED
    BY <2>1, AllStay
<1>. QED
  BY <1>inv, <1>stay DEF d

\* The end of kmalloc_large: the header is written, the caller has the pages.
LEMMA ReturnStep ==
    ASSUME Fits, NEW stk, NEW dep, NEW len, NEW use, NEW from,
           Inv(stk, dep, len, use, from), large_return,
           NEW start, start = op.start, NEW n, n = op.pages, NEW size, size = op.size
    PROVE  IInv' /\ InvWith(len, dep[Large])' /\ StaysPut /\ OtherLists(stk, dep, Large)
<1>. DEFINE own == Own(stk, dep)
            R == RangePages(start, n)
            x1 == start + 1
            a == [ptr |-> x1, size |-> size]
            use1 == Relabel(use, R, "held")
            from1 == Relabel(from, R, x1)
            s == stk[Large]
            d == dep[Large]
            i == op.i
<1>i. /\ Typed /\ BootOrder /\ Cursors /\ Sound(m, dir, Started, own) /\ Lists(stk, dep)
      /\ BlocksSplit(stk, dep) /\ Uses(use, from) /\ SlotUses(s, d, len, use, from)
  BY DEF Inv
<1>0. op.kind = "map" /\ i = n
  BY DEF large_return
<1>1. /\ start \in Nat /\ i \in Nat /\ n \in Nat \ {0} /\ start % PageWords = 0
      /\ PageOf(start) \in Nat
      /\ size \in Sizes /\ n = PagesFor(size) /\ ClassOf(size) = Large
      /\ \A q \in RangePages(start, n) :
            /\ q \in LargeRegion /\ q \in Nat
            /\ \A c \in Held(Large) : q \notin HeldPages(c)
            /\ \A x \in lost : PageOf(x) # q
            /\ \A k \in 1 .. d : q \notin RangePages(s[k], len[k])
            /\ \A x \in Members(s, d) : PageOf(x) # q
      /\ Started = Heaps /\ Large \in Started /\ Large \in Heaps
      /\ IsList(m, head[Large], s, d) /\ s \in [Nat -> Nat] /\ d \in Nat
      /\ cursor[Large] % PageWords = 0 /\ BasePage(Large) <= PageOf(cursor[Large])
      /\ PageOf(cursor[Large]) <= RegionEnd(Large)
      /\ own[Large] = LargeOwn(Members(s, d))
  <2>. HIDE DEF s, d, i, own
  <2>1. s = stk[Large] /\ d = dep[Large] /\ i = op.i /\ own = Own(stk, dep)
    BY DEF s, d, i, own
  <2>. QED
    BY <1>0, <2>1, CallFacts
<1>2. x1 \in Nat /\ PageOf(x1) = PageOf(start) /\ x1 % PageWords = 1 /\ x1 - 1 = start
  <2>1. (start % PageWords) + 1 < PageWords
    BY <1>1, HeapNumbers
  <2>2. PageOf(start + 1) = PageOf(start) /\ (start + 1) % PageWords = (start % PageWords) + 1
    BY <1>1, <2>1, WithinPage
  <2>. QED
    BY <1>1, <2>2
<1>3. CallPages = R /\ PageOf(start) \in R /\ R \subseteq own[Large]
  <2>1. CallPages = R
    BY <1>0 DEF CallPages
  <2>. QED
    BY <1>1, <2>1, FirstPage DEF LargeOwn
<1>. HIDE DEF own, R, use1, from1, s, d, i
<1>4. start \in Owned(Started, own) /\ Mapped(m, start)
  <2>1. start \in Owned(Started, own)
    BY <1>1, <1>3 DEF Owned
  <2>. QED
    BY <1>i, <2>1, OwnedAddress
<1>5. /\ m' = Write(m, start, n) /\ live' = live \cup {a} /\ op' = [kind |-> "fill", of |-> a]
      /\ dir' = dir /\ cursor' = cursor /\ head' = head /\ lost' = lost /\ cpu' = cpu
  BY <1>4 DEF large_return, Return
<1>6. a.ptr = x1 /\ a.size = size /\ a \in [ptr : Nat, size : Sizes]
  BY <1>1, <1>2
<1>7. HeldPages(a) = R
  BY <1>1, <1>2 DEF HeldPages, RangePages, R
<1>. HIDE DEF a, x1
<1>8. /\ Held(Large)' = Held(Large) \cup {a}
      /\ \A h : h # Large => Held(h)' = Held(h)
  BY <1>1, <1>5, <1>6 DEF Held
<1>9. /\ LargeRegion' = LargeRegion /\ Started' = Started /\ op'.kind = "fill"
  BY <1>5 DEF LargeRegion, Started
<1>10. own[Large] = LargeOwn(Members(s, d))'
  <2>1. LargeOwn(Members(s, d))' = (UNION {HeldPages(c) : c \in Held(Large) \cup {a}})
           \cup {PageOf(x) : x \in Members(s, d)} \cup {PageOf(x) : x \in lost}
    BY <1>5, <1>8, <1>9 DEF LargeOwn, CallPages
  <2>2. own[Large] = (UNION {HeldPages(c) : c \in Held(Large)})
           \cup {PageOf(x) : x \in Members(s, d)} \cup {PageOf(x) : x \in lost} \cup R
    BY <1>1, <1>3 DEF LargeOwn
  <2>3. UNION {HeldPages(c) : c \in Held(Large) \cup {a}}
           = (UNION {HeldPages(c) : c \in Held(Large)}) \cup R
    BY <1>7
  <2>. QED
    BY <2>1, <2>2, <2>3
<1>11. /\ Sound(m', dir, Started, own) /\ SameFrames(m, m', Started, own)
       /\ \A y \in Owned(Started, own) :
             WordAt(m', y) = IF y = start THEN n ELSE WordAt(m, y)
  <2>1. n \in Nat /\ start \in Owned(Started, own) /\ m' = Write(m, start, n)
    BY <1>1, <1>4, <1>5
  <2>. QED
    BY <1>i, <2>1, WriteWord
<1>12. ASSUME NEW c \in live, NEW x \in Span(c)
       PROVE  WordAt(m', x) = WordAt(m, x) /\ PageOf(x) # PageOf(start)
  <2>1. x \in Owned(Started, own)
    BY KnownWords DEF own
  <2>2. PageOf(x) \notin RangePages(op.start, op.pages)
    BY <1>0, SpansApart
  <2>3. PageOf(x) # PageOf(start)
    BY <1>3, <2>2 DEF R
  <2>. QED
    BY <1>11, <2>1, <2>3
<1>13. ASSUME NEW x \in Members(s, d)
       PROVE  WordAt(m', x) = WordAt(m, x) /\ WordAt(m', x + 1) = WordAt(m, x + 1)
  <2>1. x \in Owned(Started, own) /\ x + 1 \in Owned(Started, own) /\ PageOf(x + 1) = PageOf(x)
    BY <1>1, KnownWords DEF own, s, d
  <2>2. PageOf(x) # PageOf(start)
    BY <1>1, <1>3 DEF R
  <2>. QED
    BY <1>11, <2>1, <2>2
<1>14. IsList(m', head'[Large], s, d)
  <2>. DEFINE v == head[Large]
  <2>. HIDE DEF v
  <2>1. IsList(m, v, s, d) /\ \A x \in Members(s, d) : WordAt(m', x) = WordAt(m, x)
    BY <1>1, <1>13 DEF v
  <2>2. IsList(m', v, s, d)
    BY <2>1, ListKept
  <2>. QED
    BY <1>5, <2>2 DEF v
<1>15. Typed'
  <2>1. live' \subseteq [ptr : Nat, size : Sizes] /\ a \in live'
    BY <1>i, <1>5, <1>6 DEF Typed
  <2>2. op' \in Calls'
    BY <1>5, <2>1 DEF Calls
  <2>. QED
    BY <1>i, <1>5, <2>1, <2>2 DEF Typed
<1>16. BootOrder'
  BY <1>1, <1>9 DEF BootOrder
<1>17. DataKept'
  <2>1. /\ \A c \in live : c \in live' => \A x \in Span(c) : WordAt(m', x) = WordAt(m, x)
        /\ \A c \in live' : op' # [kind |-> "fill", of |-> c] =>
              c \in live /\ op # [kind |-> "fill", of |-> c]
    BY <1>0, <1>5, <1>12
  <2>. QED
    BY <2>1, SpansStay
<1>18. use1 = Relabel(use, R, "held") /\ from1 = Relabel(from, R, x1)
  BY DEF use1, from1
<1>19. /\ \A c \in Held(Large) : HeldUse(c, use1, from1)'
       /\ \A x \in lost : LostUse(x, use1)'
       /\ \A k \in 1 .. d : SlotUse(s[k], len[k], use1, from1)'
  <2>1. /\ \A c \in Held(Large) :
              /\ \A p \in HeldPages(c) : p \notin R
              /\ WordAt(m', c.ptr - 1) = WordAt(m, c.ptr - 1)
              => HeldUse(c, use1, from1)'
        /\ \A x \in lost : PageOf(x) \notin R => LostUse(x, use1)'
        /\ \A k \in 1 .. dep[Large] :
              /\ \A p \in RangePages(stk[Large][k], len[k]) : p \notin R
              /\ WordAt(m', stk[Large][k] + 1) = WordAt(m, stk[Large][k] + 1)
              => SlotUse(stk[Large][k], len[k], use1, from1)'
    BY <1>9, <1>18, Relabelled
  <2>2. /\ \A c \in Held(Large) : \A p \in HeldPages(c) : p \notin R
        /\ \A x \in lost : PageOf(x) \notin R
        /\ \A k \in 1 .. d : \A p \in RangePages(s[k], len[k]) : p \notin R
    BY <1>1 DEF R
  <2>3. ASSUME NEW c \in Held(Large) PROVE WordAt(m', c.ptr - 1) = WordAt(m, c.ptr - 1)
    <3>1. c \in live /\ ClassOf(c.size) = Large
      BY DEF Held
    <3>2. c.ptr - 1 \in Span(c)
      BY <1>i, <3>1, SpanPlace
    <3>. QED
      BY <1>12, <3>1, <3>2
  <2>4. \A k \in 1 .. d : s[k] \in Members(s, d)
    BY DEF Members
  <2>. QED
    BY <1>13, <2>1, <2>2, <2>3, <2>4 DEF s, d
<1>20. HeldUse(a, use1, from1)'
  <2>1. \A p \in R : p \in LargeRegion' /\ use1[p] = "held" /\ from1[p] = x1
    BY <1>1, <1>9, <1>18 DEF R, Relabel
  <2>2. WordAt(m', x1 - 1) = PagesFor(size)
    BY <1>1, <1>2, <1>4, <1>11
  <2>. QED
    BY <1>2, <1>6, <1>7, <2>1, <2>2 DEF HeldUse
<1>21. Uses(use1, from1)'
  BY <1>5, <1>8, <1>19, <1>20 DEF Uses, HeldUse, LostUse
<1>22. SlotUses(s, d, len, use1, from1)'
  BY <1>19 DEF SlotUses, SlotUse
<1>23. CallUses(use1)'
  BY <1>9 DEF CallUses
<1>24. \A c, b \in live' : c.ptr = b.ptr => c = b
  <2>1. ASSUME NEW c \in live PROVE c.ptr # x1
    <3>1. c.ptr \in Span(c)
      BY <1>i, SpanPlace
    <3>. QED
      BY <1>2, <1>12, <3>1
  <2>. QED
    BY <1>i, <1>5, <1>6, <2>1 DEF BlocksSplit
<1>25. ASSUME NEW h \in Started, h # Large, NEW x \in Nat, PageOf(x) \in own[h]
       PROVE  WordAt(m', x) = WordAt(m, x)
  <2>1. x \in Owned(Started, own)
    BY <1>25 DEF Owned
  <2>2. x # start
    BY <1>i, <1>1, <1>3, <1>25 DEF Sound
  <2>. QED
    BY <1>11, <2>1, <2>2
<1>26. /\ \A h \in Started : h # Large => \A x \in Nat : PageOf(x) \in own[h] =>
             WordAt(m', x) = WordAt(m, x)
       /\ cursor'[Large] % PageWords = 0
       /\ BasePage(Large) <= PageOf(cursor'[Large])
       /\ PageOf(cursor'[Large]) <= RegionEnd(Large)
       /\ \A h \in Domains :
             head'[h] = head[h] /\ cursor'[h] = cursor[h] /\ Held(h)' = Held(h)
       /\ s \in [Nat -> Nat] /\ d \in Nat /\ Large \in Started /\ dir' = dir
       /\ Sound(m', dir, Started, own)
  BY <1>1, <1>5, <1>8, <1>11, <1>25, HeapNumbers
<1>inv. IInv' /\ InvWith(len, d)' /\ OtherLists(stk, dep, Large)
  BY <1>10, <1>14, <1>15, <1>16, <1>17, <1>21, <1>22, <1>23, <1>24, <1>26, LargeStep DEF own
<1>stay. StaysPut
  <2>1. SameFrames(m, m', Started, Own(stk, dep))
    BY <1>11 DEF own
  <2>. QED
    BY <2>1, AllStay
<1>. QED
  BY <1>inv, <1>stay DEF d

\* kfree_heap to kfree_large: the header gives the length of the range.
LEMMA FreeBegins ==
    ASSUME Fits, NEW stk, NEW dep, NEW len, NEW use, NEW from,
           Inv(stk, dep, len, use, from), NEW a \in live, large_free_begin(a)
    PROVE  IInv' /\ InvWith(len, dep[Large])'
<1>. DEFINE own == Own(stk, dep)
            n == PagesFor(a.size)
            start == a.ptr - 1
            R == RangePages(start, n)
            use1 == Relabel(use, R, "call")
            from1 == Relabel(from, R, 0)
            s == stk[Large]
            d == dep[Large]
<1>i. /\ Typed /\ BootOrder /\ Cursors /\ Sound(m, dir, Started, own) /\ Lists(stk, dep)
      /\ BlocksSplit(stk, dep) /\ Uses(use, from) /\ SlotUses(s, d, len, use, from)
  BY DEF Inv
<1>0. op = Idle /\ ClassOf(a.size) = Large
  BY RouteOfHeld DEF large_free_begin
<1>1. /\ op.kind = "idle" /\ CallPages = {} /\ Started = Heaps /\ Large \in Started
      /\ Large \in Heaps /\ IsList(m, head[Large], s, d) /\ s \in [Nat -> Nat] /\ d \in Nat
      /\ cursor[Large] \in Nat /\ cursor[Large] % PageWords = 0
      /\ BasePage(Large) <= PageOf(cursor[Large]) /\ PageOf(cursor[Large]) <= RegionEnd(Large)
      /\ own[Large] = LargeOwn(Members(s, d))
  BY <1>0, IdleFacts
<1>2. a.ptr \in Nat /\ a.size \in Sizes /\ a \in Held(Large)
  BY <1>i, <1>0, HeldFacts
<1>3. n \in Nat \ {0}
  BY <1>2, PagesForFacts
<1>4. /\ start \in Span(a) /\ start \in Nat /\ start \in Owned(Started, own)
      /\ PageOf(start) = PageOf(a.ptr) /\ start % PageWords = 0
  BY <1>i, <1>0, SpanPlace, KnownWords
<1>5. HeldPages(a) = R /\ PageOf(start) \in Nat /\ PageOf(start) \in R
  <2>1. HeldPages(a) = R
    BY <1>4 DEF HeldPages, RangePages
  <2>. HIDE DEF start, n
  <2>. QED
    BY <1>3, <1>4, <2>1, FirstPage
<1>6. WordAt(m, start) = n /\ \A p \in R : p \in LargeRegion /\ p \in Nat
  <2>1. \A p \in HeldPages(a) : p \in LargeRegion
    BY <1>i, <1>2 DEF Uses
  <2>2. WordAt(m, start) = n
    BY <1>i, <1>2 DEF Uses
  <2>. QED
    BY <1>i, <1>5, <2>1, <2>2, LargeNumbers
<1>7. /\ \A c \in Held(Large) : c # a => \A p \in HeldPages(c) : p \notin R
      /\ \A x \in lost : PageOf(x) \notin R
      /\ \A k \in 1 .. d : \A p \in RangePages(s[k], len[k]) : p \notin R
  <2>1. \A c \in Held(Large) : \A p \in HeldPages(c) : p \in HeldPages(a) => c = a
    BY <1>2, RangesApart
  <2>2. \A p \in HeldPages(a) : /\ \A x \in lost : PageOf(x) # p
                                /\ \A k \in 1 .. d : p \notin RangePages(s[k], len[k])
    BY <1>2, RangesApart
  <2>. QED
    BY <1>5, <2>1, <2>2
<1>. HIDE DEF own, R, use1, from1, s, d, n
<1>8. Mapped(m, start) /\ Read(m, start) = n
  <2>. HIDE DEF start
  <2>. QED
    BY <1>i, <1>4, <1>6, OwnedAddress
<1>9. /\ op' = [kind |-> "unmap", i |-> 1, start |-> start, pages |-> n]
      /\ live' = live \ {a} /\ m' = m /\ dir' = dir /\ cursor' = cursor /\ head' = head
      /\ lost' = lost /\ cpu' = cpu
  BY <1>8 DEF large_free_begin
<1>. HIDE DEF start
<1>10. op'.kind = "unmap" /\ op'.i = 1 /\ op'.pages = n /\ op'.start = start
  BY <1>9
<1>11. /\ Held(Large)' = Held(Large) \ {a} /\ \A h : h # Large => Held(h)' = Held(h)
       /\ LargeRegion' = LargeRegion /\ Started' = Started
  BY <1>0, <1>9 DEF Held, LargeRegion, Started
<1>12. CallPages' = R
  <2>1. PageOf(start) + 1 .. PageOf(start) + 1 - 1 = {}
    BY <1>5
  <2>. QED
    BY <1>10, <2>1 DEF CallPages, R
<1>13. own[Large] = LargeOwn(Members(s, d))'
  <2>1. LargeOwn(Members(s, d))' = (UNION {HeldPages(c) : c \in Held(Large) \ {a}})
           \cup {PageOf(x) : x \in Members(s, d)} \cup {PageOf(x) : x \in lost} \cup R
    BY <1>9, <1>11, <1>12 DEF LargeOwn
  <2>2. own[Large] = (UNION {HeldPages(c) : c \in Held(Large)})
           \cup {PageOf(x) : x \in Members(s, d)} \cup {PageOf(x) : x \in lost}
    BY <1>1 DEF LargeOwn
  <2>3. UNION {HeldPages(c) : c \in Held(Large)}
           = (UNION {HeldPages(c) : c \in Held(Large) \ {a}}) \cup R
    BY <1>2, <1>5
  <2>. QED
    BY <2>1, <2>2, <2>3
<1>14. Typed'
  <2>1. op' \in Calls'
    BY <1>3, <1>4, <1>9 DEF Calls
  <2>. QED
    BY <1>i, <1>9, <2>1 DEF Typed
<1>15. BootOrder'
  BY <1>1, <1>10, <1>11 DEF BootOrder
<1>16. DataKept'
  <2>1. /\ \A c \in live : c \in live' => \A x \in Span(c) : WordAt(m', x) = WordAt(m, x)
        /\ \A c \in live' : op' # [kind |-> "fill", of |-> c] =>
              c \in live /\ op # [kind |-> "fill", of |-> c]
    BY <1>1, <1>9
  <2>. QED
    BY <2>1, SpansStay
<1>17. use1 = Relabel(use, R, "call") /\ from1 = Relabel(from, R, 0)
  BY DEF use1, from1
<1>18. /\ \A c \in Held(Large) : c # a => HeldUse(c, use1, from1)'
       /\ \A x \in lost : LostUse(x, use1)'
       /\ \A k \in 1 .. d : SlotUse(s[k], len[k], use1, from1)'
  <2>1. /\ \A c \in Held(Large) :
              /\ \A p \in HeldPages(c) : p \notin R
              /\ WordAt(m', c.ptr - 1) = WordAt(m, c.ptr - 1)
              => HeldUse(c, use1, from1)'
        /\ \A x \in lost : PageOf(x) \notin R => LostUse(x, use1)'
        /\ \A k \in 1 .. dep[Large] :
              /\ \A p \in RangePages(stk[Large][k], len[k]) : p \notin R
              /\ WordAt(m', stk[Large][k] + 1) = WordAt(m, stk[Large][k] + 1)
              => SlotUse(stk[Large][k], len[k], use1, from1)'
    BY <1>11, <1>17, Relabelled
  <2>. QED
    BY <1>7, <1>9, <2>1 DEF s, d
<1>19. Uses(use1, from1)'
  BY <1>9, <1>11, <1>18 DEF Uses, HeldUse, LostUse
<1>20. SlotUses(s, d, len, use1, from1)'
  BY <1>18 DEF SlotUses, SlotUse
<1>21. CallUses(use1)'
  <2>1. \A q \in RangePages(start, n) : q \in LargeRegion' /\ use1[q] = "call"
    BY <1>6, <1>11, <1>17 DEF Relabel, R
  <2>. QED
    BY <1>3, <1>4, <1>10, <2>1 DEF CallUses
<1>22. /\ \A c, b \in live' : c.ptr = b.ptr => c = b
       /\ \A h \in Started : h # Large => \A x \in Nat : PageOf(x) \in own[h] =>
             WordAt(m', x) = WordAt(m, x)
       /\ cursor'[Large] % PageWords = 0
       /\ BasePage(Large) <= PageOf(cursor'[Large])
       /\ PageOf(cursor'[Large]) <= RegionEnd(Large)
       /\ \A h \in Domains :
             head'[h] = head[h] /\ cursor'[h] = cursor[h] /\ Held(h)' = Held(h)
       /\ s \in [Nat -> Nat] /\ d \in Nat /\ Large \in Started /\ dir' = dir
       /\ Sound(m', dir, Started, own) /\ IsList(m', head'[Large], s, d)
  BY <1>i, <1>1, <1>9, <1>11, HeapNumbers DEF BlocksSplit
<1>inv. IInv' /\ InvWith(len, d)'
  BY <1>13, <1>14, <1>15, <1>16, <1>19, <1>20, <1>21, <1>22, LargeStep DEF own
<1>. QED
  BY <1>inv DEF d

\* One round of kfree_large's loop: one page less is mapped.
LEMMA UnmapStep ==
    ASSUME Fits, NEW stk, NEW dep, NEW len, NEW use, NEW from,
           Inv(stk, dep, len, use, from), large_unmap,
           NEW start, start = op.start, NEW i, i = op.i, NEW n, n = op.pages
    PROVE  IInv' /\ InvWith(len, dep[Large])' /\ StaysPut /\ OtherLists(stk, dep, Large)
<1>. DEFINE virt == start + i * PageWords
            p == PageOf(start) + i
            own == Own(stk, dep)
            use1 == Relabel(use, {}, "call")
            from1 == Relabel(from, {}, 0)
            s == stk[Large]
            d == dep[Large]
            own2 == [g \in Heaps |-> IF g = Large THEN own[g] \ {p} ELSE own[g]]
            Done(j) == PageOf(start) + 1 .. PageOf(start) + j - 1
<1>i. /\ Typed /\ BootOrder /\ Cursors /\ Sound(m, dir, Started, own) /\ Lists(stk, dep)
      /\ BlocksSplit(stk, dep) /\ Uses(use, from) /\ SlotUses(s, d, len, use, from)
  BY DEF Inv
<1>0. op.kind = "unmap" /\ i < n
  BY DEF large_unmap
<1>1. /\ start \in Nat /\ i \in Nat /\ i >= 1 /\ n \in Nat \ {0} /\ start % PageWords = 0
      /\ PageOf(start) \in Nat
      /\ op = [kind |-> "unmap", i |-> i, pages |-> n, start |-> start]
      /\ \A q \in RangePages(start, n) :
            /\ q \in LargeRegion /\ q \in Nat /\ use[q] = "call"
            /\ \A a \in Held(Large) : q \notin HeldPages(a)
            /\ \A x \in lost : PageOf(x) # q
            /\ \A x \in Members(s, d) : PageOf(x) # q
      /\ Started = Heaps /\ Large \in Started /\ Large \in Heaps
      /\ IsList(m, head[Large], s, d) /\ s \in [Nat -> Nat] /\ d \in Nat
      /\ cursor[Large] % PageWords = 0 /\ BasePage(Large) <= PageOf(cursor[Large])
      /\ PageOf(cursor[Large]) <= RegionEnd(Large)
      /\ own[Large] = LargeOwn(Members(s, d))
  <2>. HIDE DEF s, d, own
  <2>1. s = stk[Large] /\ d = dep[Large] /\ own = Own(stk, dep)
    BY DEF s, d, own
  <2>. QED
    BY <1>0, <2>1, CallFacts
<1>2. /\ m' = UnmapPage(m, dir[Large], virt) /\ op' = [op EXCEPT !.i = i + 1]
      /\ dir' = dir /\ cursor' = cursor /\ head' = head /\ live' = live /\ cpu' = cpu
      /\ lost' = lost
  BY DEF large_unmap
<1>3. op' = [kind |-> "unmap", i |-> i + 1, pages |-> n, start |-> start]
  BY <1>1, <1>2
<1>4. virt \in Nat /\ PageOf(virt) = p
  BY <1>1, ByPages
<1>5. p \in RangePages(start, n) /\ p \in Nat /\ p \notin Done(i)
      /\ Done(i + 1) = Done(i) \cup {p}
      /\ i + 1 \in Nat /\ i + 1 <= n /\ i + 1 >= 1
  BY <1>0, <1>1 DEF RangePages
<1>6. op'.kind = "unmap" /\ op'.i = i + 1 /\ op'.pages = n /\ op'.start = start
  BY <1>3
<1>7. /\ \A h : Held(h)' = Held(h)
      /\ LargeRegion' = LargeRegion /\ Started' = Started
  BY <1>2 DEF Held, LargeRegion, Started
<1>8. /\ CallPages = RangePages(start, n) \ Done(i)
      /\ CallPages' = RangePages(start, n) \ Done(i + 1)
  BY <1>0, <1>6 DEF CallPages
<1>. HIDE DEF own, use1, from1, s, d, p, Done
<1>9. /\ p \notin UNION {HeldPages(a) : a \in Held(Large)}
      /\ p \notin {PageOf(x) : x \in lost} /\ p \notin {PageOf(x) : x \in Members(s, d)}
  BY <1>1, <1>5
<1>10. own2[Large] = LargeOwn(Members(s, d))' /\ p \in own[Large]
  <2>1. own2[Large] = own[Large] \ {p}
    BY <1>1
  <2>2. LargeOwn(Members(s, d))' = (UNION {HeldPages(a) : a \in Held(Large)})
           \cup {PageOf(x) : x \in Members(s, d)} \cup {PageOf(x) : x \in lost}
           \cup (RangePages(start, n) \ Done(i + 1))
    BY <1>2, <1>7, <1>8 DEF LargeOwn
  <2>3. own[Large] = (UNION {HeldPages(a) : a \in Held(Large)})
           \cup {PageOf(x) : x \in Members(s, d)} \cup {PageOf(x) : x \in lost}
           \cup (RangePages(start, n) \ Done(i))
    BY <1>1, <1>8 DEF LargeOwn
  <2>. QED
    BY <1>5, <1>9, <2>1, <2>2, <2>3
<1>11. /\ PageLeaves(Started, own, own2, Large, p)
       /\ \A h \in Started : h # Large => own2[h] = own[h]
  BY <1>1, <1>10 DEF PageLeaves
<1>. HIDE DEF own2, virt
<1>12. virt \in LowAddress /\ p = PageOf(virt)
  <2>1. p \in LowPages
    BY <1>1, <1>5, LargePlace
  <2>. QED
    BY <1>4, <2>1 DEF LowAddress
<1>13. Sound(m', dir, Started, own2) /\ KeepsPages(m, m', Started, own2)
  <2>1. NumFrames <= AddressableFrames /\ m' = UnmapPage(m, dir[Large], virt)
    BY <1>2 DEF Fits
  <2>. QED
    BY <1>i, <1>1, <1>11, <1>12, <2>1, UnmapSound
<1>14. ASSUME NEW x \in Owned(Started, own), PageOf(x) # p
       PROVE  WordAt(m', x) = WordAt(m, x)
  <2>1. x \in Owned(Started, own2)
    BY <1>11, <1>14 DEF Owned, PageLeaves
  <2>. QED
    BY <1>13, <2>1, KeptWords DEF SameWords
<1>15. ASSUME NEW c \in live, NEW x \in Span(c)
       PROVE  WordAt(m', x) = WordAt(m, x) /\ PageOf(x) # p
  <2>1. x \in Owned(Started, own)
    BY KnownWords DEF own
  <2>2. PageOf(x) # p
    <3>1. PageOf(x) \notin RangePages(op.start, op.pages)
      BY <1>0, SpansApart
    <3>. QED
      BY <1>5, <3>1
  <2>. QED
    BY <1>14, <2>1, <2>2
<1>16. ASSUME NEW x \in Members(s, d)
       PROVE  WordAt(m', x) = WordAt(m, x) /\ WordAt(m', x + 1) = WordAt(m, x + 1)
  <2>1. x \in Owned(Started, own) /\ x + 1 \in Owned(Started, own) /\ PageOf(x + 1) = PageOf(x)
    BY <1>1, KnownWords DEF own, s, d
  <2>. QED
    BY <1>9, <1>14, <2>1
<1>17. IsList(m', head'[Large], s, d)
  <2>. DEFINE v == head[Large]
  <2>. HIDE DEF v
  <2>1. IsList(m, v, s, d) /\ \A x \in Members(s, d) : WordAt(m', x) = WordAt(m, x)
    BY <1>1, <1>16 DEF v
  <2>2. IsList(m', v, s, d)
    BY <2>1, ListKept
  <2>. QED
    BY <1>2, <2>2 DEF v
<1>18. Typed'
  <2>1. op' \in Calls'
    BY <1>1, <1>3, <1>5 DEF Calls
  <2>. QED
    BY <1>i, <1>2, <2>1 DEF Typed
<1>19. BootOrder'
  BY <1>1, <1>6, <1>7 DEF BootOrder
<1>20. DataKept'
  <2>1. /\ \A c \in live : c \in live' => \A x \in Span(c) : WordAt(m', x) = WordAt(m, x)
        /\ \A c \in live' : op' # [kind |-> "fill", of |-> c] =>
              c \in live /\ op # [kind |-> "fill", of |-> c]
    BY <1>0, <1>2, <1>15
  <2>. QED
    BY <2>1, SpansStay
<1>21. use1 = Relabel(use, {}, "call") /\ from1 = Relabel(from, {}, 0)
  BY DEF use1, from1
<1>22. /\ \A a \in Held(Large) : HeldUse(a, use1, from1)'
       /\ \A x \in lost : LostUse(x, use1)'
       /\ \A k \in 1 .. d : SlotUse(s[k], len[k], use1, from1)'
  <2>1. /\ \A a \in Held(Large) :
              /\ \A q \in HeldPages(a) : q \notin {}
              /\ WordAt(m', a.ptr - 1) = WordAt(m, a.ptr - 1)
              => HeldUse(a, use1, from1)'
        /\ \A x \in lost : PageOf(x) \notin {} => LostUse(x, use1)'
        /\ \A k \in 1 .. dep[Large] :
              /\ \A q \in RangePages(stk[Large][k], len[k]) : q \notin {}
              /\ WordAt(m', stk[Large][k] + 1) = WordAt(m, stk[Large][k] + 1)
              => SlotUse(stk[Large][k], len[k], use1, from1)'
    BY <1>7, <1>21, Relabelled
  <2>2. ASSUME NEW a \in Held(Large) PROVE WordAt(m', a.ptr - 1) = WordAt(m, a.ptr - 1)
    <3>1. a \in live /\ ClassOf(a.size) = Large
      BY DEF Held
    <3>2. a.ptr - 1 \in Span(a)
      BY <1>i, <3>1, SpanPlace
    <3>. QED
      BY <1>15, <3>1, <3>2
  <2>3. \A k \in 1 .. d : s[k] \in Members(s, d)
    BY DEF Members
  <2>. QED
    BY <1>16, <2>1, <2>2, <2>3 DEF s, d
<1>23. Uses(use1, from1)'
  BY <1>2, <1>7, <1>22 DEF Uses, HeldUse, LostUse
<1>24. SlotUses(s, d, len, use1, from1)'
  BY <1>22 DEF SlotUses, SlotUse
<1>25. CallUses(use1)'
  <2>1. \A q \in RangePages(start, n) : q \in LargeRegion' /\ use1[q] = "call"
    BY <1>1, <1>7, <1>21 DEF Relabel
  <2>. QED
    BY <1>1, <1>5, <1>6, <2>1 DEF CallUses
<1>26. ASSUME NEW h \in Started, h # Large, NEW x \in Nat, PageOf(x) \in own[h]
       PROVE  WordAt(m', x) = WordAt(m, x)
  <2>1. x \in Owned(Started, own2)
    BY <1>11, <1>26 DEF Owned
  <2>. QED
    BY <1>13, <2>1, KeptWords DEF SameWords
<1>27. /\ \A a, b \in live' : a.ptr = b.ptr => a = b
       /\ \A h \in Started : h # Large => \A x \in Nat : PageOf(x) \in own[h] =>
             WordAt(m', x) = WordAt(m, x)
       /\ cursor'[Large] % PageWords = 0
       /\ BasePage(Large) <= PageOf(cursor'[Large])
       /\ PageOf(cursor'[Large]) <= RegionEnd(Large)
       /\ \A h \in Domains :
             head'[h] = head[h] /\ cursor'[h] = cursor[h] /\ Held(h)' = Held(h)
       /\ s \in [Nat -> Nat] /\ d \in Nat /\ Large \in Started /\ dir' = dir
       /\ Sound(m', dir, Started, own2)
  BY <1>i, <1>1, <1>2, <1>7, <1>13, <1>26 DEF BlocksSplit
<1>inv. IInv' /\ InvWith(len, d)' /\ OtherLists(stk, dep, Large)
  BY <1>10, <1>11, <1>17, <1>18, <1>19, <1>20, <1>23, <1>24, <1>25, <1>27, LargeStep DEF own
<1>stay. StaysPut
  <2>1. \A c \in live : \A x \in Span(c) : PageOf(x) # p
    BY <1>15
  <2>2. /\ PageLeaves(Started, Own(stk, dep), own2, Large, p)
        /\ SameFrames(m, m', Started, own2)
    BY <1>11, <1>13, KeptWords DEF own
  <2>. QED
    BY <2>1, <2>2, OthersStay
<1>. QED
  BY <1>inv, <1>stay DEF d

\* The end of kfree_large: the first page is a slot in front of the list.
LEMMA FreeReturns ==
    ASSUME Fits, NEW stk, NEW dep, NEW len, NEW use, NEW from,
           Inv(stk, dep, len, use, from), large_free_return,
           NEW start, start = op.start, NEW n, n = op.pages
    PROVE  /\ IInv' /\ InvWith(Longer(len, dep[Large], n), dep[Large] + 1)'
           /\ StaysPut /\ OtherLists(stk, dep, Large)
<1>. DEFINE own == Own(stk, dep)
            R == RangePages(start, n)
            use1 == Relabel(use, R, "slot")
            from1 == Relabel(from, R, start)
            s == stk[Large]
            d == dep[Large]
            i == op.i
            x1 == start + 1
            v == head[Large]
            s1 == Pushed(s, d, start)
            d1 == d + 1
            len1 == [k \in Nat |-> IF k = d + 1 THEN n ELSE len[k]]
<1>i. /\ Typed /\ BootOrder /\ Cursors /\ Sound(m, dir, Started, own) /\ Lists(stk, dep)
      /\ BlocksSplit(stk, dep) /\ Uses(use, from) /\ SlotUses(s, d, len, use, from)
  BY DEF Inv
<1>0. op.kind = "unmap" /\ i >= n
  BY DEF large_free_return
<1>1. /\ start \in Nat /\ i \in Nat /\ i <= n /\ n \in Nat \ {0} /\ start % PageWords = 0
      /\ PageOf(start) \in Nat
      /\ \A q \in RangePages(start, n) :
            /\ q \in LargeRegion /\ q \in Nat
            /\ \A a \in Held(Large) : q \notin HeldPages(a)
            /\ \A x \in lost : PageOf(x) # q
            /\ \A k \in 1 .. d : q \notin RangePages(s[k], len[k])
            /\ \A x \in Members(s, d) : PageOf(x) # q
      /\ Started = Heaps /\ Large \in Started /\ Large \in Heaps
      /\ IsList(m, v, s, d) /\ s \in [Nat -> Nat] /\ d \in Nat /\ v \in Nat
      /\ cursor[Large] % PageWords = 0 /\ BasePage(Large) <= PageOf(cursor[Large])
      /\ PageOf(cursor[Large]) <= RegionEnd(Large)
      /\ own[Large] = LargeOwn(Members(s, d))
  <2>. HIDE DEF s, d, i, own
  <2>1. s = stk[Large] /\ d = dep[Large] /\ i = op.i /\ own = Own(stk, dep)
    BY DEF s, d, i, own
  <2>. QED
    BY <1>0, <2>1, CallFacts
<1>2. x1 \in Nat /\ PageOf(x1) = PageOf(start) /\ x1 # start
  <2>1. (start % PageWords) + 1 < PageWords
    BY <1>1, HeapNumbers
  <2>2. PageOf(start + 1) = PageOf(start)
    BY <1>1, <2>1, WithinPage
  <2>. QED
    BY <1>1, <2>2
<1>3. CallPages = {PageOf(start)} /\ PageOf(start) \in R
  <2>1. i = n
    BY <1>0, <1>1
  <2>2. CallPages = R \ (PageOf(start) + 1 .. PageOf(start) + n - 1)
    BY <1>0, <2>1 DEF CallPages
  <2>. QED
    BY <1>1, <2>2 DEF RangePages
<1>4. PageOf(start) \in own[Large]
  BY <1>1, <1>3 DEF LargeOwn
<1>. HIDE DEF own, R, use1, from1, s, d, i, v, x1, s1, d1, len1
<1>5. /\ start \in Owned(Started, own) /\ x1 \in Owned(Started, own)
      /\ Mapped(m, start)
  <2>1. start \in Owned(Started, own) /\ x1 \in Owned(Started, own)
    BY <1>1, <1>2, <1>4 DEF Owned
  <2>. QED
    BY <1>i, <2>1, OwnedAddress
<1>. DEFINE m1 == Write(m, start, v)
<1>6. /\ m' = Write(m1, x1, n) /\ head' = [head EXCEPT ![Large] = start] /\ op' = Idle
      /\ dir' = dir /\ cursor' = cursor /\ live' = live /\ lost' = lost /\ cpu' = cpu
  BY <1>5 DEF large_free_return, v, x1
<1>7. /\ \A h : Held(h)' = Held(h)
      /\ LargeRegion' = LargeRegion /\ Started' = Started /\ op'.kind = "idle"
      /\ head'[Large] = start /\ head' \in [Heaps -> Nat]
      /\ \A h \in Domains : head'[h] = head[h]
  BY <1>i, <1>1, <1>6, HeapNumbers DEF Held, LargeRegion, Started, Idle, Typed, Heaps
<1>8. /\ Sound(m', dir, Started, own) /\ SameFrames(m, m', Started, own)
      /\ \A y \in Owned(Started, own) :
            WordAt(m', y) = IF y = x1 THEN n ELSE IF y = start THEN v ELSE WordAt(m, y)
  <2>1. m1 = Write(m, start, v) /\ v \in Nat
    BY <1>1
  <2>. HIDE DEF m1
  <2>2. /\ Sound(m1, dir, Started, own) /\ SameFrames(m, m1, Started, own)
        /\ \A y \in Owned(Started, own) :
              WordAt(m1, y) = IF y = start THEN v ELSE WordAt(m, y)
    BY <1>i, <1>5, <2>1, WriteWord
  <2>3. m' = Write(m1, x1, n) /\ n \in Nat
    BY <1>1, <1>6
  <2>4. /\ Sound(m', dir, Started, own) /\ SameFrames(m1, m', Started, own)
        /\ \A y \in Owned(Started, own) :
              WordAt(m', y) = IF y = x1 THEN n ELSE WordAt(m1, y)
    <3>1. Sound(m1, dir, Started, own) /\ x1 \in Owned(Started, own)
      BY <1>5, <2>2
    <3>. QED
      BY <2>3, <3>1, WriteWord
  <2>5. SameFrames(m, m', Started, own)
    BY <2>2, <2>4 DEF SameFrames
  <2>. QED
    BY <2>2, <2>4, <2>5
<1>. HIDE DEF m1
<1>9. ASSUME NEW x \in Owned(Started, own), PageOf(x) # PageOf(start)
      PROVE  WordAt(m', x) = WordAt(m, x)
  BY <1>2, <1>8, <1>9
<1>10. WordAt(m', start) = v /\ WordAt(m', x1) = n
  BY <1>2, <1>5, <1>8
<1>11. ASSUME NEW c \in live, NEW x \in Span(c) PROVE WordAt(m', x) = WordAt(m, x)
  <2>1. x \in Owned(Started, own)
    BY KnownWords DEF own
  <2>2. PageOf(x) # PageOf(start)
    <3>1. PageOf(x) \notin RangePages(op.start, op.pages)
      BY <1>0, SpansApart
    <3>. QED
      BY <1>3, <3>1 DEF R
  <2>. QED
    BY <1>9, <2>1, <2>2
<1>12. ASSUME NEW x \in Members(s, d)
       PROVE  /\ WordAt(m', x) = WordAt(m, x) /\ WordAt(m', x + 1) = WordAt(m, x + 1)
              /\ PageOf(x) # PageOf(start)
  <2>1. x \in Owned(Started, own) /\ x + 1 \in Owned(Started, own) /\ PageOf(x + 1) = PageOf(x)
    BY <1>1, KnownWords DEF own, s, d
  <2>2. PageOf(x) # PageOf(start)
    BY <1>1, <1>3 DEF R
  <2>. QED
    BY <1>9, <2>1, <2>2
<1>13. start # NULL
  <2>1. PageOf(start) > 0
    BY <1>1, <1>3, LargePlace DEF R
  <2>. QED
    BY <1>1, <2>1, NotNull
<1>14. IsList(m', start, s1, d1) /\ Members(s1, d1) = Members(s, d) \cup {start}
  <2>1. start \notin Members(s, d) /\ \A y \in Members(s, d) : WordAt(m', y) = WordAt(m, y)
    BY <1>12
  <2>2. IsList(m, v, s, d) /\ start \in Nat /\ start # NULL /\ WordAt(m', start) = v
    BY <1>1, <1>10, <1>13
  <2>3. /\ IsList(m', start, Pushed(s, d, start), d + 1)
        /\ Members(Pushed(s, d, start), d + 1) = Members(s, d) \cup {start}
    BY <2>1, <2>2, ListPush
  <2>. QED
    BY <2>3 DEF s1, d1
<1>15. s1 \in [Nat -> Nat] /\ d1 \in Nat /\ d1 = d + 1
  BY <1>1 DEF s1, d1, Pushed
<1>16. \A k \in 1 .. d1 : IF k = d1 THEN s1[k] = start /\ len1[k] = n
                          ELSE k \in 1 .. d /\ s1[k] = s[k] /\ len1[k] = len[k]
  BY <1>1, <1>15 DEF s1, Pushed, len1
<1>17. own[Large] = LargeOwn(Members(s1, d1))'
  <2>1. LargeOwn(Members(s1, d1))' = (UNION {HeldPages(c) : c \in Held(Large)})
           \cup {PageOf(x) : x \in Members(s1, d1)} \cup {PageOf(x) : x \in lost}
    BY <1>6, <1>7 DEF LargeOwn, CallPages
  <2>2. own[Large] = (UNION {HeldPages(c) : c \in Held(Large)})
           \cup {PageOf(x) : x \in Members(s, d)} \cup {PageOf(x) : x \in lost}
           \cup {PageOf(start)}
    BY <1>1, <1>3 DEF LargeOwn
  <2>3. {PageOf(x) : x \in Members(s1, d1)} = {PageOf(x) : x \in Members(s, d)} \cup {PageOf(start)}
    BY <1>14
  <2>. QED
    BY <2>1, <2>2, <2>3
<1>18. Typed'
  <2>1. op' \in Calls'
    BY <1>6 DEF Calls
  <2>. QED
    BY <1>i, <1>6, <1>7, <2>1 DEF Typed
<1>19. BootOrder'
  BY <1>1, <1>7 DEF BootOrder
<1>20. DataKept'
  <2>1. /\ \A c \in live : c \in live' => \A x \in Span(c) : WordAt(m', x) = WordAt(m, x)
        /\ \A c \in live' : op' # [kind |-> "fill", of |-> c] =>
              c \in live /\ op # [kind |-> "fill", of |-> c]
    BY <1>0, <1>6, <1>11
  <2>. QED
    BY <2>1, SpansStay
<1>21. use1 = Relabel(use, R, "slot") /\ from1 = Relabel(from, R, start)
  BY DEF use1, from1
<1>22. /\ \A a \in Held(Large) : HeldUse(a, use1, from1)'
       /\ \A x \in lost : LostUse(x, use1)'
       /\ \A k \in 1 .. d : SlotUse(s[k], len[k], use1, from1)'
  <2>1. /\ \A a \in Held(Large) :
              /\ \A q \in HeldPages(a) : q \notin R
              /\ WordAt(m', a.ptr - 1) = WordAt(m, a.ptr - 1)
              => HeldUse(a, use1, from1)'
        /\ \A x \in lost : PageOf(x) \notin R => LostUse(x, use1)'
        /\ \A k \in 1 .. dep[Large] :
              /\ \A q \in RangePages(stk[Large][k], len[k]) : q \notin R
              /\ WordAt(m', stk[Large][k] + 1) = WordAt(m, stk[Large][k] + 1)
              => SlotUse(stk[Large][k], len[k], use1, from1)'
    BY <1>7, <1>21, Relabelled
  <2>2. /\ \A a \in Held(Large) : \A p \in HeldPages(a) : p \notin R
        /\ \A x \in lost : PageOf(x) \notin R
        /\ \A k \in 1 .. d : \A p \in RangePages(s[k], len[k]) : p \notin R
    BY <1>1 DEF R
  <2>3. ASSUME NEW a \in Held(Large) PROVE WordAt(m', a.ptr - 1) = WordAt(m, a.ptr - 1)
    <3>1. a \in live /\ ClassOf(a.size) = Large
      BY DEF Held
    <3>2. a.ptr - 1 \in Span(a)
      BY <1>i, <3>1, SpanPlace
    <3>. QED
      BY <1>11, <3>1, <3>2
  <2>4. \A k \in 1 .. d : s[k] \in Members(s, d)
    BY DEF Members
  <2>. QED
    BY <1>12, <2>1, <2>2, <2>3, <2>4 DEF s, d
<1>23. SlotUse(start, n, use1, from1)'
  <2>1. \A q \in R : q \in LargeRegion' /\ use1[q] = "slot" /\ from1[q] = start
    BY <1>1, <1>7, <1>21 DEF R, Relabel
  <2>. QED
    BY <1>1, <1>10, <2>1 DEF SlotUse, R, x1
<1>24. Uses(use1, from1)'
  BY <1>6, <1>7, <1>22 DEF Uses, HeldUse, LostUse
<1>25. SlotUses(s1, d1, len1, use1, from1)'
  <2>1. \A k \in 1 .. d1 : SlotUse(s1[k], len1[k], use1, from1)'
    BY <1>16, <1>22, <1>23
  <2>. QED
    BY <2>1 DEF SlotUses, SlotUse
<1>26. CallUses(use1)'
  BY <1>7 DEF CallUses
<1>27. ASSUME NEW h \in Started, h # Large, NEW x \in Nat, PageOf(x) \in own[h]
       PROVE  WordAt(m', x) = WordAt(m, x)
  <2>1. x \in Owned(Started, own)
    BY <1>27 DEF Owned
  <2>2. PageOf(x) # PageOf(start)
    BY <1>i, <1>1, <1>4, <1>27 DEF Sound
  <2>. QED
    BY <1>9, <2>1, <2>2
<1>28. /\ \A a, b \in live' : a.ptr = b.ptr => a = b
       /\ \A h \in Started : h # Large => \A x \in Nat : PageOf(x) \in own[h] =>
             WordAt(m', x) = WordAt(m, x)
       /\ cursor'[Large] % PageWords = 0
       /\ BasePage(Large) <= PageOf(cursor'[Large])
       /\ PageOf(cursor'[Large]) <= RegionEnd(Large)
       /\ \A h \in Domains :
             head'[h] = head[h] /\ cursor'[h] = cursor[h] /\ Held(h)' = Held(h)
       /\ Large \in Started /\ dir' = dir
       /\ Sound(m', dir, Started, own) /\ IsList(m', head'[Large], s1, d1)
       /\ s1 \in [Nat -> Nat] /\ d1 \in Nat
  BY <1>i, <1>1, <1>6, <1>7, <1>8, <1>14, <1>15, <1>27 DEF BlocksSplit
<1>inv. IInv' /\ InvWith(len1, d1)' /\ OtherLists(stk, dep, Large)
  BY <1>17, <1>18, <1>19, <1>20, <1>24, <1>25, <1>26, <1>28, LargeStep DEF own
<1>stay. StaysPut
  <2>1. SameFrames(m, m', Started, Own(stk, dep))
    BY <1>8 DEF own
  <2>. QED
    BY <2>1, AllStay
<1>. QED
  BY <1>inv, <1>stay DEF d1, d, len1, Longer

-----------------------------------------------------------------------------
(* The caller uses its memory. *)

\* What user_fill writes: every word of the allocation, and no other.
LEMMA FillWrites ==
    ASSUME Fits, NEW stk, NEW dep, NEW len, NEW use, NEW from,
           Inv(stk, dep, len, use, from), user_fill, op.of \in live,
           NEW own, own = Own(stk, dep)
    PROVE  /\ Sound(m', dir, Started, own) /\ op' = Idle
           /\ SameFrames(m, m', Started, own)
           /\ m'.ram[KernelDir] = m.ram[KernelDir]
           /\ dir' = dir /\ cursor' = cursor /\ head' = head /\ live' = live
           /\ lost' = lost /\ cpu' = cpu
           /\ \A y \in Owned(Started, own) :
                 WordAt(m', y) = IF y \in UserWords(op.of) THEN y ELSE WordAt(m, y)
<1>. DEFINE a == op.of
            Pages == UserPages(a)
            frameAt == [p \in Pages |-> Translate(m, p)[1]]
            fill(f, p) == [i \in Offset |-> IF p + i \in UserWords(a) THEN p + i
                                            ELSE m.ram[f][i]]
            ram2 == [f \in Frame |->
                       IF \E p \in Pages : frameAt[p] = f
                       THEN fill(f, CHOOSE p \in Pages : frameAt[p] = f)
                       ELSE m.ram[f]]
            start(y) == y - (y % PageWords)
<1>i. /\ Typed /\ BootOrder /\ Sound(m, dir, Started, own) /\ BlocksSplit(stk, dep)
      /\ Uses(use, from)
  BY DEF Inv
<1>1. m \in Machines /\ PageWords \in Nat /\ PageWords > 0
  BY <1>i, HeapNumbers DEF Sound
\* the start of the page of a word
<1>2. ASSUME NEW y \in Nat
      PROVE  /\ start(y) \in Nat /\ PageOf(start(y)) = PageOf(y)
             /\ start(y) + (y % PageWords) = y /\ start(y) = PageWords * PageOf(y)
  <2>1. y = (y % PageWords) + PageWords * PageOf(y) /\ PageOf(y) \in Nat
        /\ y % PageWords \in Nat
    BY AddressParts DEF Offset
  <2>. DEFINE q == PageOf(y)
              r == y % PageWords
              x == PageWords * q
  <2>2. q \in Nat /\ r \in Nat /\ y = r + x /\ x \in Nat /\ start(y) = x /\ x + r = y
    BY <1>1, <2>1
  <2>3. 0 \in Offset /\ x = 0 + PageWords * q /\ x = PageWords * q
    BY <1>1, <2>2 DEF Offset
  <2>. HIDE DEF q, x
  <2>4. PageOf(x) = q
    BY <2>2, <2>3, AddressAt
  <2>. HIDE DEF start
  <2>. QED
    BY <2>2, <2>3, <2>4 DEF q, r
<1>3. UserWords(a) \subseteq Owned(Started, own) /\ UserWords(a) \subseteq Nat
  <2>1. UserWords(a) \subseteq Span(a) /\ Span(a) \subseteq Owned(Started, own)
    BY <1>i, SpanPlace, KnownWords
  <2>. QED
    BY <2>1 DEF Owned
<1>4. ASSUME NEW p \in Pages
      PROVE  /\ p \in Owned(Started, own) /\ p = PageWords * PageOf(p) /\ p \in Nat
             /\ Mapped(m, p) /\ frameAt[p] = FrameAt(m.ram, PageOf(p)) /\ frameAt[p] \in Frame
  <2>1. PICK w \in UserWords(a) : p = start(w)
    BY DEF UserPages
  <2>2. w \in Nat /\ p \in Nat /\ PageOf(p) = PageOf(w) /\ p = PageWords * PageOf(w)
    BY <1>2, <1>3, <2>1
  <2>3. p \in Owned(Started, own)
    BY <1>3, <2>1, <2>2 DEF Owned
  <2>4. Mapped(m, p) /\ FrameAt(m.ram, PageOf(p)) \in Frame
        /\ Translate(m, p) = <<FrameAt(m.ram, PageOf(p)), p % PageWords>>
    BY <1>i, <2>3, OwnedAddress
  <2>5. frameAt[p] = FrameAt(m.ram, PageOf(p))
    BY <2>4
  <2>. QED
    BY <2>2, <2>3, <2>4, <2>5
<1>5. /\ m' = [m EXCEPT !.ram = ram2] /\ op' = Idle
      /\ dir' = dir /\ cursor' = cursor /\ head' = head /\ live' = live
      /\ lost' = lost /\ cpu' = cpu
  <2>1. ~\E p \in UserPages(a) : ~Mapped(m, p)
    BY <1>4
  <2>. QED
    BY <2>1 DEF user_fill, Sentinel
<1>6. ASSUME NEW p \in Pages, NEW q \in Pages, frameAt[p] = frameAt[q] PROVE p = q
  <2>1. PICK g \in Started, h \in Started : PageOf(p) \in own[g] /\ PageOf(q) \in own[h]
    BY <1>4 DEF Owned
  <2>2. PageOf(p) = PageOf(q)
    BY <1>i, <1>4, <1>6, <2>1 DEF Sound
  <2>. QED
    BY <1>4, <2>2
<1>7. ASSUME NEW p \in Pages, NEW f, f = frameAt[p] PROVE ram2[f] = fill(f, p)
  <2>. DEFINE c == CHOOSE q \in Pages : frameAt[q] = f
  <2>1. f \in Frame /\ f = frameAt[p]
    BY <1>4, <1>7
  <2>. HIDE DEF frameAt
  <2>2. c \in Pages /\ frameAt[c] = f
    BY <2>1
  <2>3. c = p
    BY <1>6, <2>1, <2>2
  <2>4. ram2[f] = fill(f, c)
    BY <2>1
  <2>. QED
    BY <2>3, <2>4
<1>8. \A f \in Frame : (~\E p \in Pages : frameAt[p] = f) => ram2[f] = m.ram[f]
  OBVIOUS
<1>f. ASSUME NEW f \in Frame, NEW p \in Nat PROVE fill(f, p) \in [Offset -> Nat]
  <2>1. m.ram[f] \in [Offset -> Nat]
    BY <1>1 DEF Machines, Memory
  <2>. QED
    BY <1>3, <2>1
<1>r. ram2 = [f \in Frame |-> ram2[f]]
  OBVIOUS
<1>. HIDE DEF ram2, fill, frameAt, Pages
<1>9. ram2 \in Memory
  <2>1. ASSUME NEW f \in Frame PROVE ram2[f] \in [Offset -> Nat]
    <3>1. CASE \E p \in Pages : frameAt[p] = f
      <4>1. PICK p \in Pages : frameAt[p] = f
        BY <3>1
      <4>2. ram2[f] = fill(f, p) /\ p \in Nat
        BY <1>4, <1>7, <4>1
      <4>. QED
        BY <1>f, <4>2
    <3>2. CASE ~\E p \in Pages : frameAt[p] = f
      BY <1>1, <1>8, <3>2 DEF Machines, Memory
    <3>. QED
      BY <3>1, <3>2
  <2>. QED
    BY <1>r, <2>1 DEF Memory
<1>10. /\ Sound(m', dir, Started, own) /\ SameFrames(m, m', Started, own)
       /\ m'.ram = ram2 /\ m'.ram[KernelDir] = m.ram[KernelDir]
  <2>1. m' = [bitmap |-> m.bitmap, ram |-> ram2, tlb |-> m.tlb]
    BY <1>1, <1>5 DEF Machines
  <2>2. ASSUME NEW f \in Frame
        PROVE  ram2[f] = m.ram[f] \/ \E g \in Started : \E p \in own[g] : FrameAt(m.ram, p) = f
    <3>1. CASE \E p \in Pages : frameAt[p] = f
      <4>1. PICK p \in Pages : frameAt[p] = f
        BY <3>1
      <4>. QED
        BY <1>4, <4>1 DEF Owned
    <3>2. CASE ~\E p \in Pages : frameAt[p] = f
      BY <1>8, <3>2
    <3>. QED
      BY <3>1, <3>2
  <2>3. m'.ram = ram2
    BY <2>1
  <2>. DEFINE mem2 == m'
  <2>4. mem2 = [bitmap |-> m.bitmap, ram |-> ram2, tlb |-> m.tlb]
    BY <2>1
  <2>. HIDE DEF mem2
  <2>5. /\ Sound(mem2, dir, Started, own) /\ SameFrames(m, mem2, Started, own)
        /\ \A D \in DirSet(dir, Started) : mem2.ram[D] = m.ram[D]
    BY <1>i, <1>9, <2>2, <2>4, DataWrites
  <2>6. KernelDir \in DirSet(dir, Started)
    BY DEF DirSet
  <2>. QED
    BY <2>3, <2>5, <2>6 DEF mem2
<1>11. ASSUME NEW y \in Owned(Started, own)
       PROVE  WordAt(m', y) = IF y \in UserWords(a) THEN y ELSE WordAt(m, y)
  <2>. DEFINE f == FrameAt(m.ram, PageOf(y))
              o == y % PageWords
  <2>1. y \in Nat /\ f \in Frame /\ o \in Offset
    BY <1>i, <1>11, OwnedAddress DEF Owned
  <2>2. WordAt(m', y) = ram2[f][o] /\ WordAt(m, y) = m.ram[f][o]
    BY <1>10, <1>11 DEF WordAt, SameFrames, Owned
  <2>3. CASE \E p \in Pages : frameAt[p] = f
    <3>1. PICK p \in Pages : frameAt[p] = f
      BY <2>3
    <3>2. PICK g \in Started, h \in Started : PageOf(p) \in own[g] /\ PageOf(y) \in own[h]
      BY <1>4, <1>11 DEF Owned
    <3>3. PageOf(p) = PageOf(y)
      BY <1>i, <1>4, <3>1, <3>2 DEF Sound
    <3>4. p + o = y
      BY <1>2, <1>4, <2>1, <3>3
    <3>5. ram2[f] = fill(f, p)
      BY <1>7, <3>1
    <3>. QED
      BY <2>1, <2>2, <3>4, <3>5 DEF fill
  <2>4. CASE ~\E p \in Pages : frameAt[p] = f
    <3>1. y \notin UserWords(a)
      <4>. SUFFICES ASSUME y \in UserWords(a) PROVE FALSE
        OBVIOUS
      <4>1. start(y) \in Pages /\ PageOf(start(y)) = PageOf(y)
        BY <1>2, <2>1 DEF UserPages, Pages
      <4>. QED
        BY <1>4, <2>4, <4>1
    <3>. QED
      BY <1>8, <2>1, <2>2, <2>4, <3>1
  <2>. QED
    BY <2>3, <2>4
<1>. QED
  BY <1>5, <1>10, <1>11

\* The caller fills its memory.
LEMMA FillStep ==
    ASSUME Fits, NEW stk, NEW dep, NEW len, NEW use, NEW from,
           Inv(stk, dep, len, use, from), user_fill, NEW a, a = op.of
    PROVE  IInv' /\ InvWith(len, dep[Large])' /\ OtherLists(stk, dep, Large)
<1>. DEFINE own == Own(stk, dep)
<1>i. /\ Typed /\ BootOrder /\ Cursors /\ Sound(m, dir, Started, own) /\ Lists(stk, dep)
      /\ BlocksSplit(stk, dep) /\ DataKept /\ Uses(use, from) /\ CallUses(use)
      /\ SlotUses(stk[Large], dep[Large], len, use, from)
  BY DEF Inv
<1>0. op.kind = "fill" /\ a \in live /\ op = [kind |-> "fill", of |-> a]
  <2>1. op.kind = "fill"
    BY DEF user_fill
  <2>2. op \in [kind : {"fill"}, of : live]
    BY <1>i, <2>1, CallKinds DEF Typed
  <2>. QED
    BY <2>1, <2>2
<1>. HIDE DEF own
<1>1. /\ Sound(m', dir, Started, own) /\ op' = Idle
      /\ dir' = dir /\ cursor' = cursor /\ head' = head /\ live' = live
      /\ lost' = lost /\ cpu' = cpu
      /\ \A y \in Owned(Started, own) :
            WordAt(m', y) = IF y \in UserWords(a) THEN y ELSE WordAt(m, y)
  <2>1. own = Own(stk, dep) /\ op.of \in live
    BY <1>0 DEF own
  <2>. QED
    BY <2>1, FillWrites
<1>2. /\ Started' = Started /\ op'.kind = "idle" /\ Started = Heaps
      /\ \A h : Held(h)' = Held(h)
      /\ LargeRegion' = LargeRegion /\ \A h : SmallPages(h)' = SmallPages(h)
  BY <1>i, <1>0, <1>1 DEF Started, Idle, Held, LargeRegion, SmallPages, BootOrder
<1>3. CallPages = {} /\ CallPages' = {}
  BY <1>0, <1>2 DEF CallPages
<1>4. Own(stk, dep)' = own
  BY <1>1, <1>2, <1>3 DEF Own, own, LargeOwn
<1>5. UserWords(a) \subseteq Span(a)
  BY <1>i, <1>0, SpanPlace
<1>6. ASSUME NEW y \in Owned(Started, own), y \notin Span(a) PROVE WordAt(m', y) = WordAt(m, y)
  BY <1>1, <1>5, <1>6
<1>7. ASSUME NEW h \in Heaps, NEW x \in Members(stk[h], dep[h])
      PROVE  WordAt(m', x) = WordAt(m, x)
  <2>1. x \in Owned(Started, own)
    BY KnownWords DEF own
  <2>2. x \notin Span(a)
    BY <1>0, SpansApart
  <2>. QED
    BY <1>6, <2>1, <2>2
<1>8. Typed' /\ BootOrder' /\ Cursors'
  <2>1. op' \in Calls'
    BY <1>1 DEF Calls
  <2>2. Typed'
    BY <1>i, <1>1, <2>1 DEF Typed
  <2>3. BootOrder'
    BY <1>2 DEF BootOrder
  <2>. QED
    BY <1>i, <1>1, <1>2, <2>2, <2>3 DEF Cursors
<1>9. Sound(m, dir, Started, Own(stk, dep))'
  BY <1>1, <1>2, <1>4
<1>10. Lists(stk, dep)'
  <2>1. ASSUME NEW h \in Heaps PROVE IsList(m', head'[h], stk[h], dep[h])
    <3>. DEFINE v == head[h]
    <3>. HIDE DEF v
    <3>1. /\ IsList(m, v, stk[h], dep[h])
          /\ \A x \in Members(stk[h], dep[h]) : WordAt(m', x) = WordAt(m, x)
      BY <1>i, <1>7 DEF Lists, v
    <3>2. IsList(m', v, stk[h], dep[h])
      BY <3>1, ListKept
    <3>. QED
      BY <1>1, <3>2 DEF v
  <2>. QED
    BY <1>i, <2>1 DEF Lists
<1>11. BlocksSplit(stk, dep)'
  <2>1. \A e : Blocks(e)' = Blocks(e)
    BY <1>2 DEF Blocks
  <2>. QED
    BY <1>i, <1>1, <1>2, <2>1 DEF BlocksSplit
<1>12. DataKept'
  <2>. SUFFICES ASSUME NEW c \in live', NEW x \in UserWords(c)
                PROVE  WordAt(m', x) = x
    BY DEF DataKept, UserWords
  <2>1. c \in live /\ x \in Span(c) /\ Span(c) \subseteq Owned(Started, own)
    BY <1>i, <1>1, SpanPlace, KnownWords DEF own
  <2>2. CASE c = a
    BY <1>1, <2>1, <2>2
  <2>3. CASE c # a
    <3>1. x \notin Span(a)
      BY <1>0, <2>1, <2>3, SpansApart
    <3>2. op # [kind |-> "fill", of |-> c]
      BY <1>0, <2>3
    <3>3. WordAt(m, x) = x
      BY <1>i, <2>1, <3>2 DEF DataKept
    <3>. QED
      BY <1>6, <2>1, <3>1, <3>3
  <2>. QED
    BY <2>2, <2>3
<1>13. ASSUME NEW c \in Held(Large) PROVE WordAt(m', c.ptr - 1) = WordAt(m, c.ptr - 1)
  <2>1. c \in live /\ ClassOf(c.size) = Large
    BY DEF Held
  <2>2. c.ptr - 1 \in Span(c) /\ c.ptr - 1 \notin UserWords(c)
        /\ Span(c) \subseteq Owned(Started, own)
    BY <1>i, <2>1, SpanPlace, KnownWords DEF own
  <2>. DEFINE x == c.ptr - 1
  <2>3. x \in Span(c) /\ x \notin UserWords(c) /\ x \in Owned(Started, own)
    BY <2>2
  <2>. HIDE DEF x
  <2>4. x \notin UserWords(a)
    <3>1. CASE c = a
      BY <2>3, <3>1
    <3>2. CASE c # a
      BY <1>0, <1>5, <2>1, <2>3, <3>2, SpansApart
    <3>. QED
      BY <3>1, <3>2
  <2>5. WordAt(m', x) = WordAt(m, x)
    BY <1>1, <2>3, <2>4
  <2>. QED
    BY <2>5 DEF x
<1>14. Uses(use, from)'
  BY <1>i, <1>1, <1>2, <1>13 DEF Uses
<1>15. SlotUses(stk[Large], dep[Large], len, use, from)'
  <2>1. ASSUME NEW k \in 1 .. dep[Large]
        PROVE  WordAt(m', stk[Large][k] + 1) = WordAt(m, stk[Large][k] + 1)
    <3>. DEFINE y == stk[Large][k]
                x == y + 1
    <3>1. y \in Members(stk[Large], dep[Large])
      BY DEF Members
    <3>2. x \in Owned(Started, own) /\ PageOf(x) = PageOf(y)
      BY <3>1, KnownWords DEF own
    <3>. HIDE DEF x, y
    <3>3. x \notin Span(a)
      BY <1>0, <3>1, <3>2, SpansApart
    <3>4. WordAt(m', x) = WordAt(m, x)
      BY <1>6, <3>2, <3>3
    <3>. QED
      BY <3>4 DEF x, y
  <2>. QED
    BY <1>i, <1>2, <2>1 DEF SlotUses
<1>16. CallUses(use)'
  BY <1>2 DEF CallUses
<1>17. Inv(stk, dep, len, use, from)'
  BY <1>8, <1>9, <1>10, <1>11, <1>12, <1>14, <1>15, <1>16 DEF Inv
<1>. QED
  BY <1>10, <1>17 DEF IInv, InvWith, OtherLists, Lists, Heaps

-----------------------------------------------------------------------------
(* The invariant holds, and what follows from it. *)

\* The machine that boot hands to init_all_heaps.
LEMMA BootMachine ==
    ASSUME NEW dr, NEW own, NEW mem,
           mem = [bitmap |-> Image, ram |-> KernelMemory(ResetWord), tlb |-> NoneCached]
    PROVE  Sound(mem, dr, {}, own)
<1>. DEFINE ram == KernelMemory(ResetWord)
<1>1. /\ KernelDir \in Image /\ KernelHalf \in Nat /\ Image \subseteq Frame
      /\ PageWords \in Nat \ {0}
  BY PagingAssumption, ImageInFrame, HeapNumbers DEF Image
<1>2. ResetWord \in Nat /\ Entry(KernelHalf, PAGE_KERNEL) \in Nat
  BY <1>1, HeapAssumption DEF Word, Entry, PAGE_KERNEL
<1>3. ram \in Memory
  BY <1>2 DEF KernelMemory, Memory
<1>4. \A i \in LowEntries : ram[KernelDir][i] = 0
  <2>1. \A i \in LowEntries : i \in Offset /\ ~(i >= KernelEntry)
    BY PagingAssumption DEF LowEntries, Offset
  <2>2. KernelDir \in Frame /\ KernelDir \in Image
    BY <1>1
  <2>. QED
    BY <2>1, <2>2 DEF KernelMemory
<1>5. ~Present(0)
  BY DEF Present
<1>6. DirSet(dr, {}) = {KernelDir}
  BY DEF DirSet
<1>7. mem.bitmap = Image /\ mem.ram = ram /\ mem \in Machines
  BY <1>1, <1>3 DEF Machines
<1>. HIDE DEF ram
<1>8. Tables(Image, ram, {KernelDir})
  BY <1>1, <1>3, <1>4, <1>5 DEF Tables
<1>. QED
  BY <1>6, <1>7, <1>8 DEF Sound

\* The invariant holds when the first heap is about to be set up.
LEMMA InitInv ==
    ASSUME Fits, Init
    PROVE  IInv
<1>. DEFINE stk == [h \in Heaps |-> [k \in Nat |-> 0]]
            dep == [h \in Heaps |-> 0]
            own == Own(stk, dep)
<1>1. /\ 1 \in Heaps /\ 0 \in Frame /\ Large \in Heaps
  <2>1. NumFrames \in Nat /\ NumFrames > 0
    BY FrameConstants, ImageAssumption
  <2>. QED
    BY <2>1, HeapNumbers DEF Heaps, Frame
<1>2. /\ m = [bitmap |-> Image, ram |-> KernelMemory(ResetWord), tlb |-> NoneCached]
      /\ dir = [h \in Heaps |-> 0] /\ cursor = [h \in Heaps |-> 0]
      /\ head = [h \in Heaps |-> NULL] /\ live = {} /\ lost = {}
      /\ op = [kind |-> "init", heap |-> 1] /\ cpu = "run"
  BY DEF Init
<1>3. Started = {} /\ op.kind = "init" /\ op.heap = 1 /\ \A h : Held(h) = {}
  BY <1>2 DEF Started, Held
<1>4. Typed
  <2>1. op \in Calls
    BY <1>1, <1>2 DEF Calls
  <2>. QED
    BY <1>1, <1>2, <2>1 DEF Typed, NULL
<1>5. BootOrder /\ Cursors
  BY <1>2, <1>3 DEF BootOrder, Cursors, NULL
<1>6. Sound(m, dir, Started, own)
  <2>. HIDE DEF own
  <2>. QED
    BY <1>2, <1>3, BootMachine
<1>7. Lists(stk, dep)
  <2>1. ASSUME NEW h \in Heaps PROVE IsList(m, head[h], stk[h], dep[h])
    BY <1>2 DEF IsList, NULL
  <2>. QED
    BY <2>1 DEF Lists
<1>8. \A h \in Heaps : Members(stk[h], dep[h]) = {}
  BY DEF Members
<1>9. BlocksSplit(stk, dep)
  <2>1. ASSUME NEW d \in Domains PROVE Blocks(d) = {}
    <3>1. d \in Heaps /\ d \in Nat
      BY HeapNumbers DEF Heaps
    <3>2. BasePage(d) \in Nat /\ PageOf(0) = 0
      <4>1. 0 \div PageWords = 0
        BY HeapNumbers
      <4>. QED
        BY <3>1, <4>1, BaseIsPage DEF PageOf
    <3>3. SmallPages(d) = {}
      BY <1>2, <3>1, <3>2 DEF SmallPages
    <3>. QED
      BY <3>3 DEF Blocks
  <2>2. \A d \in Domains : d \in Heaps
    BY DEF Heaps
  <2>. HIDE DEF stk, dep
  <2>. QED
    BY <1>2, <1>3, <1>8, <2>1, <2>2 DEF BlocksSplit
<1>10. DataKept /\ Uses(0, 0) /\ CallUses(0)
  BY <1>2, <1>3 DEF DataKept, Uses, CallUses
<1>11. SlotUses(stk[Large], dep[Large], 0, 0, 0)
  BY <1>1 DEF SlotUses
<1>12. Inv(stk, dep, 0, 0, 0)
  BY <1>4, <1>5, <1>6, <1>7, <1>9, <1>10, <1>11 DEF Inv
<1>. HIDE DEF stk, dep
<1>. QED
  BY <1>12 DEF IInv

\* Every step keeps the invariant.
LEMMA StepInv ==
    ASSUME Fits, IInv, Sane, Sane', [Next]_vars
    PROVE  IInv'
<1>1. PICK stk, dep, len, use, from : Inv(stk, dep, len, use, from)
  BY DEF IInv
<1>2. CASE UNCHANGED vars
  BY <1>1, <1>2, Stutter
<1>3. CASE init_heap
  <2>1. PICK h : h = op.heap
    OBVIOUS
  <2>. QED
    BY <1>1, <1>3, <2>1, InitStep
<1>4. CASE premap
  <2>1. PICK h : h = op.heap
    OBVIOUS
  <2>2. PICK v : v = cursor[h]
    OBVIOUS
  <2>. QED
    BY <1>1, <1>4, <2>1, <2>2, PremapStep
<1>5. CASE large_map
  <2>1. PICK s, i, n, z : s = op.start /\ i = op.i /\ n = op.pages /\ z = op.size
    OBVIOUS
  <2>2. CASE ProcessFrame = NoFrame
    BY <1>1, <1>5, <2>1, <2>2, MapFails
  <2>3. CASE ProcessFrame # NoFrame
    BY <1>1, <1>5, <2>1, <2>3, MapGrows
  <2>. QED
    BY <2>2, <2>3
<1>6. CASE large_return
  <2>1. PICK s, n, z : s = op.start /\ n = op.pages /\ z = op.size
    OBVIOUS
  <2>. QED
    BY <1>1, <1>6, <2>1, ReturnStep
<1>7. CASE large_unmap
  <2>1. PICK s, i, n : s = op.start /\ i = op.i /\ n = op.pages
    OBVIOUS
  <2>. QED
    BY <1>1, <1>7, <2>1, UnmapStep
<1>8. CASE large_free_return
  <2>1. PICK s, n : s = op.start /\ n = op.pages
    OBVIOUS
  <2>. QED
    BY <1>1, <1>8, <2>1, FreeReturns
<1>9. CASE user_fill
  <2>1. PICK a : a = op.of
    OBVIOUS
  <2>. QED
    BY <1>1, <1>9, <2>1, FillStep
<1>10. ASSUME NEW size \in Sizes, alloc_fast(size) PROVE IInv'
  BY <1>1, <1>10, FastStep
<1>11. ASSUME NEW size \in Sizes, alloc_slow(size) PROVE IInv'
  <2>1. PICK d, v : d = ClassOf(size) /\ v = cursor[d]
    OBVIOUS
  <2>. QED
    BY <1>1, <1>11, <2>1, SlowStep
<1>12. ASSUME NEW size \in Sizes, large_begin(size) PROVE IInv'
  <2>1. PICK slot, c : slot = head[Large] /\ c = cursor[Large]
    OBVIOUS
  <2>2. CASE SlotFits(slot, PagesFor(size))
    BY <1>1, <1>12, <2>1, <2>2, BeginReuse
  <2>3. CASE ~SlotFits(slot, PagesFor(size))
    BY <1>1, <1>12, <2>1, <2>3, BeginFresh
  <2>. QED
    BY <2>2, <2>3
<1>13. ASSUME NEW a \in live, free_small(a) PROVE IInv'
  <2>1. PICK d : d = ClassOf(a.size)
    OBVIOUS
  <2>. QED
    BY <1>1, <1>13, <2>1, FreeStep
<1>14. ASSUME NEW a \in live, large_free_begin(a) PROVE IInv'
  BY <1>1, <1>14, FreeBegins
<1>. QED
  BY <1>2, <1>3, <1>4, <1>5, <1>6, <1>7, <1>8, <1>9, <1>10, <1>11, <1>12, <1>13, <1>14
     DEF Next, Step

-----------------------------------------------------------------------------
(* Regions are not outgrown.  A class takes a page only when its list is    *)
(* empty, and an empty list means that all its blocks are held.             *)

\* The numbering of blocks within pages and within the region.
LEMMA BlockArith ==
    ASSUME NEW b \in Nat, NEW K \in Nat, NEW base \in Nat, NEW r \in Nat, NEW j \in Nat
    PROVE  base + (j + K * r) * b = (base + r * (b * K)) + j * b
<1>1. (j + K * r) * b = j * b + (K * r) * b
  OBVIOUS
<1>2. (K * r) * b = r * (b * K)
  OBVIOUS
<1>3. j * b \in Nat /\ r * (b * K) \in Nat /\ (K * r) * b \in Nat /\ (j + K * r) * b \in Nat
  <2>1. b * K \in Nat /\ K * r \in Nat
    OBVIOUS
  <2>2. j + K * r \in Nat
    BY <2>1
  <2>. QED
    BY <2>1, <2>2
<1>. QED
  BY <1>1, <1>2, <1>3

\* The blocks cut so far, counted from the region's base, are those of its pages.
LEMMA CarvedBlocks ==
    ASSUME NEW d \in Domains, d \in Started, Typed, Cursors
    PROVE  /\ Carved(d) = Blocks(d)
           /\ IsFiniteSet(Carved(d))
           /\ (cursor[d] - Base(d)) \div ClassSize[d] =
                 BlocksPerPage(d) * (PageOf(cursor[d]) - BasePage(d))
<1>. DEFINE b == ClassSize[d]
            K == BlocksPerPage(d)
            bp == BasePage(d)
            base == Base(d)
            q == PageOf(cursor[d])
            t == q - bp
            N == (cursor[d] - base) \div b
<1>1. b \in Nat \ {0} /\ K \in Nat \ {0} /\ PageWords = b * K /\ PageWords \in Nat /\ d \in Nat
  BY PageDivided, HeapNumbers
<1>2. base \in Nat /\ PageOf(base) = bp /\ base % PageWords = 0 /\ bp \in Nat
  BY <1>1, BaseIsPage
<1>3. cursor[d] \in Nat /\ cursor[d] % PageWords = 0 /\ q \in Nat /\ bp <= q
  BY AddressParts DEF Typed, Cursors, Started
<1>4. base = 0 + PageWords * bp /\ cursor[d] = 0 + PageWords * q
  BY <1>2, <1>3, AddressParts
<1>. HIDE DEF b, K, bp, base, q
<1>5. t \in Nat /\ q = bp + t
  BY <1>2, <1>3
<1>. HIDE DEF t
<1>6. cursor[d] - base = 0 + b * (K * t) /\ K * t \in Nat /\ cursor[d] - base \in Nat
  <2>1. K * t \in Nat /\ PageWords * bp \in Nat /\ PageWords * t \in Nat
    BY <1>1, <1>2, <1>5
  <2>2. PageWords * (bp + t) = PageWords * bp + PageWords * t
    BY <1>1, <1>2, <1>5
  <2>3. PageWords * t = b * (K * t)
    BY <1>1, <1>5
  <2>. QED
    BY <1>4, <1>5, <2>1, <2>2, <2>3
<1>7. N = K * t
  <2>. DEFINE x == cursor[d] - base
              y == K * t
  <2>1. x \in Nat /\ y \in Nat /\ x = 0 + b * y /\ 0 \in 0 .. b - 1
    BY <1>1, <1>6
  <2>. HIDE DEF x, y
  <2>2. x \div b = y
    BY <1>1, <2>1, QuotientUnique
  <2>. QED
    BY <2>2 DEF x, y, N
<1>. HIDE DEF N
<1>8. Carved(d) = {base + i * b : i \in 0 .. N - 1}
  BY DEF Carved, base, b, N
<1>9. ASSUME NEW i \in 0 .. N - 1 PROVE base + i * b \in Blocks(d)
  <2>. DEFINE r == i \div K
              j == i % K
              virt == base + r * PageWords
              w == base + i * b
  <2>1. i \in Nat /\ i < K * t
    BY <1>6, <1>7
  <2>2. r \in Nat /\ j \in 0 .. K - 1 /\ j \in Nat /\ i = j + K * r
    <3>1. r \in Nat /\ j \in 0 .. K - 1 /\ i = j + K * r
      BY <1>1, <2>1, Division
    <3>. HIDE DEF r, j
    <3>. QED
      BY <1>1, <3>1
  <2>. HIDE DEF r, j
  <2>3. r < t
    <3>. SUFFICES ASSUME t <= r PROVE FALSE
      BY <1>5, <2>2
    <3>1. K * t <= K * r
      BY <1>1, <1>5, <2>2, ProductMonotone
    <3>2. K * r \in Nat /\ K * t \in Nat
      BY <1>1, <1>5, <2>2
    <3>. QED
      BY <2>1, <2>2, <3>1, <3>2
  <2>4. virt \in Nat /\ PageOf(virt) = bp + r /\ virt % PageWords = 0
    BY <1>2, <2>2, ByPages
  <2>5. w = virt + j * b
    BY <1>1, <1>2, <2>2, BlockArith
  <2>. HIDE DEF virt, w
  <2>6. j \in 0 .. BlocksPerPage(d) - 1 /\ w = virt + j * ClassSize[d]
    BY <2>2, <2>5 DEF K, b
  <2>7. w \in Nat /\ PageOf(w) = PageOf(virt) /\ BlockStart(d, w)
    BY <2>4, <2>6, PageBlocks
  <2>8. PageOf(w) \in bp .. q - 1
    BY <1>2, <1>5, <2>2, <2>3, <2>4, <2>7
  <2>. QED
    BY <2>7, <2>8 DEF Blocks, SmallPages, bp, q, w
<1>10. ASSUME NEW w \in Blocks(d) PROVE \E i \in 0 .. N - 1 : w = base + i * b
  <2>. DEFINE p == PageOf(w)
              r == p - bp
              virt == base + r * PageWords
  <2>1. w \in Nat /\ p \in bp .. q - 1 /\ BlockStart(d, w)
    BY DEF Blocks, SmallPages, bp, q
  <2>. HIDE DEF p
  <2>2. r \in Nat /\ r + 1 <= t /\ bp + r = p
    BY <1>2, <1>3, <1>5, <2>1
  <2>. HIDE DEF r
  <2>3. virt \in Nat /\ PageOf(virt) = PageOf(w) /\ virt % PageWords = 0
    BY <1>2, <2>2, ByPages DEF p
  <2>4. PICK j \in 0 .. BlocksPerPage(d) - 1 : w = virt + j * ClassSize[d]
    <3>. HIDE DEF virt
    <3>. QED
      BY <2>1, <2>3, BlockNumber
  <2>5. j \in Nat /\ j < K /\ w = virt + j * b
    BY <1>1, <2>4 DEF K, b
  <2>6. w = base + (j + K * r) * b
    BY <1>1, <1>2, <2>2, <2>5, BlockArith
  <2>7. j + K * r \in 0 .. N - 1
    <3>1. K * (r + 1) <= K * t /\ K * (r + 1) = K * r + K
      BY <1>1, <1>5, <2>2, ProductMonotone
    <3>2. K * r \in Nat /\ K * t \in Nat
      BY <1>1, <1>5, <2>2
    <3>. QED
      BY <1>1, <1>7, <2>5, <3>1, <3>2
  <2>. QED
    BY <2>6, <2>7
<1>11. Carved(d) = Blocks(d)
  BY <1>8, <1>9, <1>10
<1>12. IsFiniteSet(Carved(d))
  <2>. DEFINE f == [i \in 0 .. N - 1 |-> base + i * b]
              T == {base + i * b : i \in 0 .. N - 1}
  <2>1. f \in Surjection(0 .. N - 1, T)
    BY DEF Surjection
  <2>2. IsFiniteSet(0 .. N - 1)
    BY <1>6, <1>7, FS_Interval
  <2>. HIDE DEF f, T
  <2>3. IsFiniteSet(T)
    BY <2>1, <2>2, FS_Surjection
  <2>. QED
    BY <1>8, <2>3 DEF T
<1>. QED
  BY <1>7, <1>11, <1>12 DEF N, K, t, q, bp, base, b

\* With an empty list every block of the class is held.
LEMMA ClassFull ==
    ASSUME IInv, IsFiniteSet(live), NEW d \in Domains, d \in Started, head[d] = NULL
    PROVE  /\ BlocksPerPage(d) * (PageOf(cursor[d]) - BasePage(d)) <= Cardinality(Held(d))
           /\ \A a \in Held(d) : PageOf(a.ptr) # PageOf(cursor[d])
           /\ IsFiniteSet(Held(d))
<1>. DEFINE b == ClassSize[d]
            base == Base(d)
            N == (cursor[d] - base) \div b
            H == Held(d)
<1>1. PICK stk, dep, len, use, from : Inv(stk, dep, len, use, from)
  BY DEF IInv
<1>2. /\ Typed /\ Cursors /\ IsList(m, head[d], stk[d], dep[d])
      /\ Members(stk[d], dep[d]) \cup {a.ptr : a \in H} = Blocks(d)
  BY <1>1 DEF Inv, Lists, BlocksSplit, Started
<1>3. Members(stk[d], dep[d]) = {}
  <2>1. dep[d] \in Nat
    BY <1>2 DEF IsList
  <2>2. dep[d] # 0 => dep[d] \in 1 .. dep[d]
    BY <2>1
  <2>3. dep[d] = 0
    BY <1>2, <2>2 DEF IsList
  <2>. QED
    BY <2>3 DEF Members
<1>4. {a.ptr : a \in H} = Blocks(d)
  BY <1>2, <1>3
<1>5. Carved(d) = Blocks(d) /\ N = BlocksPerPage(d) * (PageOf(cursor[d]) - BasePage(d))
  BY <1>2, CarvedBlocks
<1>6. Carved(d) = {base + i * b : i \in 0 .. N - 1}
  BY DEF Carved
<1>7. IsFiniteSet(H)
  <2>1. H \subseteq live
    BY DEF Held
  <2>. QED
    BY <2>1, FS_Subset
<1>8. /\ PageOf(cursor[d]) \in Nat /\ BasePage(d) \in Nat /\ BasePage(d) <= PageOf(cursor[d])
      /\ b \in Nat \ {0} /\ BlocksPerPage(d) \in Nat /\ base \in Nat
  <2>1. d \in Nat /\ d \in Heaps
    BY HeapNumbers
  <2>2. cursor[d] \in Nat /\ BasePage(d) <= PageOf(cursor[d])
    BY <1>2, <2>1 DEF Typed, Cursors
  <2>. QED
    BY <2>1, <2>2, PageDivided, BaseIsPage, AddressParts
<1>9. \A a \in H : PageOf(a.ptr) # PageOf(cursor[d])
  <2>. SUFFICES ASSUME NEW a \in H PROVE PageOf(a.ptr) # PageOf(cursor[d])
    OBVIOUS
  <2>1. a.ptr \in Blocks(d)
    BY <1>4
  <2>2. PageOf(a.ptr) \in BasePage(d) .. PageOf(cursor[d]) - 1
    BY <2>1 DEF Blocks, SmallPages
  <2>. QED
    BY <1>8, <2>2
<1>10. N \in Nat
  <2>. DEFINE t == PageOf(cursor[d]) - BasePage(d)
  <2>1. t \in Nat
    BY <1>8
  <2>2. BlocksPerPage(d) * t \in Nat
    BY <1>8, <2>1
  <2>. QED
    BY <1>5, <2>2
<1>. HIDE DEF N, H, b, base
<1>11. \A i \in 0 .. N - 1 : \E a \in H : a.ptr = base + i * b
  <2>. SUFFICES ASSUME NEW i \in 0 .. N - 1 PROVE \E a \in H : a.ptr = base + i * b
    OBVIOUS
  <2>1. base + i * b \in {a.ptr : a \in H}
    BY <1>4, <1>5, <1>6
  <2>. QED
    BY <2>1
<1>12. PICK g : g = [i \in 0 .. N - 1 |-> CHOOSE a \in H : a.ptr = base + i * b]
  OBVIOUS
<1>13. \A i \in 0 .. N - 1 : g[i] \in H /\ g[i].ptr = base + i * b
  BY <1>11, <1>12
<1>14. \A i, k \in 0 .. N - 1 : g[i] = g[k] => i = k
  <2>. SUFFICES ASSUME NEW i \in 0 .. N - 1, NEW k \in 0 .. N - 1, g[i] = g[k] PROVE i = k
    OBVIOUS
  <2>1. i \in Nat /\ k \in Nat /\ b \in Nat \ {0} /\ base \in Nat
    BY <1>8, <1>10
  <2>2. base + i * b = base + k * b
    BY <1>13
  <2>3. i * b \in Nat /\ k * b \in Nat
    BY <2>1
  <2>4. i * b = k * b
    BY <2>1, <2>2, <2>3
  <2>. QED
    BY <2>1, <2>4, SameProduct
<1>15. g \in Injection(0 .. N - 1, H)
  <2>1. g \in [0 .. N - 1 -> H]
    BY <1>12, <1>13
  <2>. QED
    BY <1>14, <2>1 DEF Injection, IsInjective
<1>16. Cardinality(0 .. N - 1) = N
  <2>1. 0 \in Int /\ N - 1 \in Int /\ (N = 0 => 0 > N - 1) /\ (N # 0 => 0 <= N - 1)
    BY <1>10
  <2>2. Cardinality(0 .. N - 1) = IF 0 > N - 1 THEN 0 ELSE (N - 1) - 0 + 1
    BY <2>1, FS_Interval
  <2>3. (N - 1) - 0 + 1 = N
    BY <1>10
  <2>. QED
    BY <2>1, <2>2, <2>3, <1>10
<1>17. N <= Cardinality(H)
  BY <1>7, <1>15, <1>16, FS_Injection
<1>. QED
  BY <1>5, <1>7, <1>9, <1>17 DEF H

\* What grows with the heap: cursors within their regions, the pre-map loop's cursor
\* at its count, finitely many allocations.
Settled ==
    /\ Room /\ IsFiniteSet(live)
    /\ op.kind = "premap" => cursor[op.heap] = Base(op.heap) + op.i * PageWords

\* A page less than the region's number of pages leaves room for one.
LEMMA RoomForOne ==
    ASSUME NEW d \in Domains, NEW t \in Nat, t < RegionPages
    PROVE  Base(d) + t * PageWords + PageWords <= Base(d + 1)
<1>1. d \in Nat /\ RegionPages \in Nat /\ PageWords \in Nat
  BY HeapNumbers
<1>2. PageWords * (t + 1) <= PageWords * RegionPages
  BY <1>1, ProductMonotone
<1>3. PageWords * (t + 1) = t * PageWords + PageWords
  BY <1>1
<1>4. (d + 1) * RegionPages = d * RegionPages + RegionPages /\ d * RegionPages \in Nat
  BY <1>1
<1>5. PICK x \in Nat : x = d * RegionPages
  BY <1>4
<1>6. Base(d) = x * PageWords /\ Base(d + 1) = (x + RegionPages) * PageWords
  BY <1>4, <1>5 DEF Base
<1>7. (x + RegionPages) * PageWords = x * PageWords + PageWords * RegionPages
  BY <1>1
<1>8. x * PageWords \in Nat /\ t * PageWords \in Nat /\ PageWords * RegionPages \in Nat
  BY <1>1
<1>. QED
  BY <1>1, <1>2, <1>3, <1>6, <1>7, <1>8

\* A step that moves no cursor and starts no pre-map loop, and adds at most one
\* allocation or removes some, keeps this.
LEMMA GrownStays ==
    ASSUME Settled, \A d \in Domains : cursor'[d] = cursor[d],
           op'.kind = "premap" => op' = op /\ cursor' = cursor,
           live' \subseteq live \/ \E a : live' = live \cup {a}
    PROVE  Settled'
<1>1. IsFiniteSet(live)
  BY DEF Settled
<1>2. IsFiniteSet(live')
  <2>1. CASE live' \subseteq live
    BY <1>1, <2>1, FS_Subset
  <2>2. CASE \E a : live' = live \cup {a}
    BY <1>1, <2>2, FS_AddElement
  <2>. QED
    BY <2>1, <2>2
<1>3. Room'
  BY DEF Settled, Room, Base
<1>4. op'.kind = "premap" => cursor'[op'.heap] = Base(op'.heap) + op'.i * PageWords
  BY DEF Settled
<1>. QED
  BY <1>2, <1>3, <1>4 DEF Settled, Base

\* kfree_heap takes no page.
LEMMA GrownFree ==
    ASSUME Settled, NEW a, free_small(a) \/ large_free_begin(a)
    PROVE  Settled'
<1>1. cursor' = cursor /\ live' \subseteq live
  BY DEF free_small, large_free_begin, Stop
<1>2. op' = op \/ op'.kind = "unmap"
  BY DEF free_small, large_free_begin, Stop
<1>. QED
  BY <1>1, <1>2, GrownStays

\* A block from the list, and a large range, take no page of a size class.
LEMMA GrownQuick ==
    ASSUME Settled, IInv, NEW size \in Sizes, alloc_fast(size) \/ large_begin(size)
    PROVE  Settled'
<1>1. live' = live \/ \E a : live' = live \cup {a}
  BY DEF alloc_fast, large_begin, Return, Stop
<1>2. (op' = op /\ cursor' = cursor) \/ op'.kind \in {"fill", "map"}
  BY DEF alloc_fast, large_begin, Return, Stop
<1>3. cursor \in [Heaps -> Nat] /\ Large \notin Domains /\ \A d \in Domains : d \in Heaps
  BY HeapNumbers DEF IInv, Inv, Typed, Heaps
<1>4. \A d \in Domains : cursor'[d] = cursor[d]
  BY <1>3 DEF alloc_fast, large_begin, Stop
<1>5. live' \subseteq live \/ \E a : live' = live \cup {a}
  BY <1>1
<1>. QED
  BY <1>2, <1>4, <1>5, GrownStays

\* heap_domain_alloc takes a page when every block is held: there is room for it as
\* long as callers hold no more than the region has room for.
LEMMA GrownSlow ==
    ASSUME Settled, IInv, NEW size \in Sizes, alloc_slow(size), FewHeld'
    PROVE  Settled'
<1>. DEFINE d == ClassOf(size)
            virt == cursor[d]
            a == [ptr |-> virt, size |-> size]
<1>1. d \in Domains /\ head[d] = NULL /\ op = Idle
  BY DEF alloc_slow
<1>2. CASE cursor' = cursor /\ live' = live /\ op' = op
  BY <1>2, GrownStays
<1>3. CASE /\ cursor' = [cursor EXCEPT ![d] = @ + PageWords]
           /\ live' = live \cup {a} /\ op' = [kind |-> "fill", of |-> a]
  <2>1. /\ cursor \in [Heaps -> Nat] /\ BootOrder /\ Cursors /\ d \in Heaps
        /\ op.kind = "idle"
    BY <1>1 DEF IInv, Inv, Typed, Heaps, Idle
  <2>2. d \in Started /\ IsFiniteSet(live)
    BY <2>1 DEF BootOrder, Settled
  <2>. DEFINE t == PageOf(virt) - BasePage(d)
              K == BlocksPerPage(d)
              n == Cardinality(Held(d))
  <2>3. /\ K * t <= n /\ IsFiniteSet(Held(d))
        /\ \A c \in Held(d) : PageOf(c.ptr) # PageOf(virt)
    BY <1>1, <2>2, ClassFull
  <2>4. /\ Held(d)' = Held(d) \cup {a} /\ a \notin Held(d)
    <3>1. a.size = size /\ a.ptr = virt
      OBVIOUS
    <3>2. a \notin Held(d)
      BY <2>3, <3>1
    <3>3. Held(d)' = {c \in live' : ClassOf(c.size) = d}
      BY DEF Held, ClassOf
    <3>4. {c \in live' : ClassOf(c.size) = d} = Held(d) \cup {a}
      BY <1>3, <3>1 DEF Held
    <3>. QED
      BY <3>2, <3>3, <3>4
  <2>5. Cardinality(Held(d)') = n + 1 /\ n \in Nat
    BY <2>3, <2>4, FS_AddElement, FS_CardinalityType
  <2>6. Cardinality(Held(d)') <= RegionPages * K
    BY <1>1 DEF FewHeld, BlocksPerPage
  <2>7. /\ PageOf(virt) \in Nat /\ BasePage(d) \in Nat /\ BasePage(d) <= PageOf(virt)
        /\ virt \in Nat /\ virt % PageWords = 0 /\ K \in Nat \ {0} /\ RegionPages \in Nat
        /\ d \in Nat
    <3>1. d \in Nat /\ RegionPages \in Nat
      BY <1>1, HeapNumbers
    <3>2. virt \in Nat /\ virt % PageWords = 0 /\ BasePage(d) <= PageOf(virt)
      BY <2>1, <2>2 DEF Cursors
    <3>. QED
      BY <1>1, <3>1, <3>2, PageDivided, BaseIsPage, AddressParts
  <2>8. t \in Nat /\ PageOf(virt) = BasePage(d) + t
    BY <2>7
  <2>. HIDE DEF t, K, n, virt, d
  <2>9. t < RegionPages
    <3>. SUFFICES ASSUME RegionPages <= t PROVE FALSE
      BY <2>7, <2>8
    <3>1. K * RegionPages <= K * t
      BY <2>7, <2>8, ProductMonotone
    <3>2. K * RegionPages = RegionPages * K /\ RegionPages * K \in Nat /\ K * t \in Nat
      BY <2>7, <2>8
    <3>. QED
      BY <2>3, <2>5, <2>6, <3>1, <3>2
  <2>10. virt = Base(d) + t * PageWords
    <3>1. virt = 0 + PageWords * PageOf(virt) /\ Base(d) = 0 + PageWords * BasePage(d)
      BY <2>7, AddressParts, BaseIsPage
    <3>2. PageWords \in Nat
      BY HeapNumbers
    <3>3. PageWords * (BasePage(d) + t) = PageWords * BasePage(d) + t * PageWords
      BY <2>7, <2>8, <3>2
    <3>4. PageWords * BasePage(d) \in Nat /\ t * PageWords \in Nat
      BY <2>7, <2>8, <3>2
    <3>. QED
      BY <2>8, <3>1, <3>3, <3>4
  <2>11. virt + PageWords <= Base(d + 1)
    BY <1>1, <2>8, <2>9, <2>10, RoomForOne
  <2>12. cursor'[d] = virt + PageWords /\ \A e \in Domains : e # d => cursor'[e] = cursor[e]
    BY <1>1, <1>3, <2>1 DEF virt, Heaps
  <2>13. Room'
    BY <2>11, <2>12 DEF Settled, Room, Base
  <2>14. IsFiniteSet(live')
    BY <1>3, <2>2, FS_AddElement
  <2>15. op'.kind # "premap"
    BY <1>3
  <2>. QED
    BY <2>13, <2>14, <2>15 DEF Settled
<1>. QED
  BY <1>2, <1>3 DEF alloc_slow, Stop, Return, vars

\* Boot gives each class its first pages, which the region has; the other rounds of
\* the loops move no cursor.
LEMMA GrownStep ==
    ASSUME Settled, IInv, Step
    PROVE  Settled'
<1>1. Typed /\ op \in Calls /\ cursor \in [Heaps -> Nat]
  BY DEF IInv, Inv, Typed
<1>2. CASE init_heap
  <2>1. PICK h \in Heaps : h = op.heap
    BY <1>1, <1>2, CallKinds DEF init_heap
  <2>2. CASE cursor' = cursor /\ live' = live /\ op' = op
    BY <2>2, GrownStays
  <2>3. CASE /\ cursor' = [cursor EXCEPT ![h] = Base(h)] /\ live' = live
             /\ op' = IF h = Large THEN Idle ELSE [kind |-> "premap", heap |-> h, i |-> 0]
    <3>1. cursor'[h] = Base(h) /\ \A e \in Heaps : e # h => cursor'[e] = cursor[e]
      BY <1>1, <2>3
    <3>2. h \in Domains => Base(h) <= Base(h + 1)
      <4>. SUFFICES ASSUME h \in Domains PROVE Base(h) <= Base(h + 1)
        OBVIOUS
      <4>1. Base(h) + 0 * PageWords + PageWords <= Base(h + 1)
        <5>1. 0 \in Nat /\ 0 < RegionPages
          BY HeapNumbers
        <5>. QED
          BY <5>1, RoomForOne
      <4>2. Base(h) \in Nat /\ Base(h + 1) \in Nat /\ PageWords \in Nat
        <5>1. h \in Nat /\ h + 1 \in Nat /\ PageWords \in Nat
          BY HeapNumbers
        <5>. QED
          BY <5>1, BaseIsPage
      <4>. QED
        BY <4>1, <4>2
    <3>3. Room'
      BY <3>1, <3>2 DEF Settled, Room, Base, Heaps
    <3>4. IsFiniteSet(live')
      BY <2>3 DEF Settled
    <3>5. op'.kind = "premap" => cursor'[op'.heap] = Base(op'.heap) + op'.i * PageWords
      <4>. SUFFICES ASSUME op'.kind = "premap"
                    PROVE  cursor'[op'.heap] = Base(op'.heap) + op'.i * PageWords
        OBVIOUS
      <4>1. op' = [kind |-> "premap", heap |-> h, i |-> 0]
        BY <2>3 DEF Idle
      <4>2. op'.heap = h /\ op'.i = 0 /\ Base(h) \in Nat /\ PageWords \in Nat
        BY <4>1, BaseIsPage, HeapNumbers
      <4>. QED
        BY <3>1, <4>2
    <3>. QED
      BY <3>3, <3>4, <3>5 DEF Settled, Base
  <2>. QED
    BY <1>2, <2>1, <2>2, <2>3 DEF init_heap, Stop
<1>3. CASE premap
  <2>1. PICK h \in Domains, i \in 0 .. PremapPages : h = op.heap /\ i = op.i
    BY <1>1, <1>3, CallKinds DEF premap
  <2>2. op.kind = "premap" /\ h \in Heaps
    BY <1>3 DEF premap, Heaps
  <2>3. CASE cursor' = cursor /\ live' = live /\ (op' = op \/ op'.kind = "init")
    BY <2>3, GrownStays
  <2>4. CASE /\ i # PremapPages /\ cursor' = [cursor EXCEPT ![h] = @ + PageWords]
             /\ live' = live /\ op' = [op EXCEPT !.i = @ + 1]
    <3>1. /\ op'.heap = h /\ op'.i = i + 1 /\ op'.kind = "premap"
          /\ cursor'[h] = cursor[h] + PageWords
          /\ \A e \in Heaps : e # h => cursor'[e] = cursor[e]
      <4>1. op \in [kind : {"premap"}, heap : Domains, i : 0 .. PremapPages]
        BY <1>1, <2>2, CallKinds
      <4>. QED
        BY <1>1, <2>1, <2>2, <2>4, <4>1
    <3>2. cursor[h] = Base(h) + i * PageWords
      BY <2>1, <2>2 DEF Settled
    <3>3. /\ i \in Nat /\ i < RegionPages /\ Base(h) \in Nat /\ PageWords \in Nat
          /\ i * PageWords \in Nat
      <4>1. h \in Nat /\ i \in Nat /\ i < RegionPages /\ PageWords \in Nat
        <5>1. PremapPages \in Nat /\ PremapPages <= RegionPages
          BY HeapAssumption
        <5>. QED
          BY <2>1, <2>4, <5>1, HeapNumbers
      <4>. QED
        BY <4>1, BaseIsPage
    <3>4. cursor'[h] <= Base(h + 1)
      BY <3>1, <3>2, <3>3, RoomForOne
    <3>5. cursor'[h] = Base(h) + (i + 1) * PageWords
      <4>1. (i + 1) * PageWords = i * PageWords + PageWords
        BY <3>3
      <4>. QED
        BY <3>1, <3>2, <3>3, <4>1
    <3>6. Room'
      BY <3>1, <3>4 DEF Settled, Room, Base, Heaps
    <3>7. IsFiniteSet(live')
      BY <2>4 DEF Settled
    <3>8. cursor'[op'.heap] = Base(op'.heap) + op'.i * PageWords
      BY <3>1, <3>5
    <3>. QED
      BY <3>6, <3>7, <3>8 DEF Settled, Base
  <2>. QED
    BY <1>3, <2>1, <2>3, <2>4 DEF premap, Stop
<1>4. CASE large_map \/ large_return \/ large_unmap \/ large_free_return \/ user_fill
  <2>1. op.kind \in {"map", "unmap", "fill"} /\ cursor' = cursor
    BY <1>4 DEF large_map, large_return, large_unmap, large_free_return, user_fill, Stop
  <2>2. op \in [kind : {"map"}, i : Nat, pages : Nat, size : Sizes, start : Nat]
              \cup [kind : {"unmap"}, i : Nat, pages : Nat, start : Nat]
              \cup [kind : {"fill"}, of : live]
    BY <1>1, <2>1, CallKinds
  <2>3. op'.kind # "premap"
    BY <1>4, <2>1, <2>2
       DEF large_map, large_return, large_unmap, large_free_return, user_fill, Stop, Idle, Return
  <2>4. live' \subseteq live \/ \E a : live' = live \cup {a}
    BY <1>4 DEF large_map, large_return, large_unmap, large_free_return, user_fill, Stop, Return
  <2>. QED
    BY <2>1, <2>3, <2>4, GrownStays
<1>. QED
  BY <1>2, <1>3, <1>4 DEF Step

\* Every step of the heap keeps the classes within their regions.
LEMMA RoomKept ==
    ASSUME Settled, IInv, FewHeld', [Next]_vars
    PROVE  Settled'
<1>1. CASE UNCHANGED vars
  <2>1. cursor' = cursor /\ live' = live /\ op' = op
    BY <1>1 DEF vars
  <2>. QED
    BY <2>1, GrownStays
<1>2. CASE Next
  BY <1>2, GrownStep, GrownFree, GrownQuick, GrownSlow DEF Next
<1>. QED
  BY <1>1, <1>2

\* Before the first heap is set up.
LEMMA GrownStarts ==
    ASSUME Init
    PROVE  Settled
<1>1. live = {} /\ op.kind = "init" /\ cursor = [h \in Heaps |-> 0]
  BY DEF Init
<1>2. \A d \in Domains : cursor[d] = 0 /\ Base(d + 1) \in Nat
  <2>. SUFFICES ASSUME NEW d \in Domains PROVE cursor[d] = 0 /\ Base(d + 1) \in Nat
    OBVIOUS
  <2>1. d \in Heaps /\ d + 1 \in Nat
    BY HeapNumbers
  <2>. QED
    BY <1>1, <2>1, BaseIsPage
<1>3. Room
  BY <1>2 DEF Room
<1>. QED
  BY <1>1, <1>3, FS_EmptySet DEF Settled

\* Under the hypotheses, the invariant holds throughout, and no class outgrows its
\* region.
LEMMA HeapInvariant ==
    ASSUME Fits
    PROVE  Spec /\ []Supplied => [](IInv /\ Sane)
<1>1. Init => IInv /\ Settled
  BY InitInv, GrownStarts
<1>2. Settled /\ Supplied => Sane
  BY DEF Settled, Supplied, Sane
<1>3. IInv /\ Settled /\ Supplied /\ Supplied' /\ [Next]_vars => IInv' /\ Settled'
  <2>. SUFFICES ASSUME IInv, Settled, Supplied, Supplied', [Next]_vars
                PROVE  IInv' /\ Settled'
    OBVIOUS
  <2>1. Settled'
    BY RoomKept DEF Supplied
  <2>2. Sane'
    BY <2>1 DEF Settled, Supplied, Sane
  <2>. QED
    BY <1>2, <2>1, <2>2, StepInv
<1>. QED
  BY <1>1, <1>2, <1>3, PTL DEF Spec

\* Addresses below the kernel half are words.
LEMMA LowWord ==
    ASSUME NEW x \in Nat, PageOf(x) <= KernelEntry * TableEntries
    PROVE  x \in Word
<1>. DEFINE q == KernelEntry * TableEntries - 1
<1>1. KernelEntry \in Nat \ {0} /\ TableEntries \in Nat \ {0}
  BY PagingAssumption
<1>2. KernelEntry * TableEntries \in Nat \ {0}
  BY <1>1
<1>3. q \in LowPages /\ PageOf(x) <= q + 1
  BY <1>2 DEF LowPages
<1>. HIDE DEF q
<1>. QED
  BY <1>3, LowIsWord

\* The regions lie below the kernel half.
LEMMA RegionTop ==
    ASSUME NEW h \in Heaps
    PROVE  RegionEnd(h) <= KernelEntry * TableEntries /\ RegionEnd(h) \in Nat
<1>1. /\ Large \in Nat /\ Large \in Heaps /\ h \in Nat /\ h <= Large /\ MaxLargePages \in Nat
      /\ RegionPages \in Nat
  BY HeapNumbers
<1>2. /\ KernelEntry * TableEntries \in Nat
      /\ Large * RegionPages + MaxLargePages <= KernelEntry * TableEntries
  BY PagingAssumption, HeapAssumption
<1>3. RegionEnd(h) \in Nat /\ BasePage(Large) = Large * RegionPages /\ BasePage(Large) \in Nat
  BY <1>1 DEF RegionEnd, BasePage
<1>4. CASE h = Large
  BY <1>2, <1>3, <1>4 DEF RegionEnd
<1>5. CASE h # Large
  <2>1. RegionEnd(h) <= BasePage(Large)
    BY <1>1, <1>5, RegionOrder
  <2>. QED
    BY <1>1, <1>2, <1>3, <2>1
<1>. QED
  BY <1>4, <1>5

\* The invariant implies type correctness.
LEMMA InvTypes ==
    ASSUME Fits, IInv
    PROVE  TypeOK
<1>1. PICK stk, dep, len, use, from : Inv(stk, dep, len, use, from)
  BY DEF IInv
<1>i. /\ Typed /\ BootOrder /\ Cursors /\ Sound(m, dir, Started, Own(stk, dep))
      /\ Lists(stk, dep) /\ BlocksSplit(stk, dep) /\ Uses(use, from) /\ CallUses(use)
  BY <1>1 DEF Inv
<1>2. /\ KernelEntry * TableEntries \in Nat
      /\ \A p \in LowPages : p \in Nat /\ p <= KernelEntry * TableEntries
  BY PagingAssumption DEF LowPages
<1>3. 0 \in Word
  <2>1. PageOf(0) = 0
    <3>1. 0 \div PageWords = 0
      BY HeapNumbers
    <3>. QED
      BY <3>1 DEF PageOf
  <2>. QED
    BY <1>2, <2>1, LowWord
<1>4. \A x \in LowAddress : x \in Word
  BY <1>2, LowWord DEF LowAddress
<1>5. IsMachine(m)
  <2>1. m \in Machines
    BY <1>i DEF Sound
  <2>2. NoneCached \in [DOMAIN NoneCached -> Frame]
    BY DEF NoneCached
  <2>. QED
    BY <2>1, <2>2 DEF Machines, Memory, IsMachine
<1>6. cursor \in [Heaps -> Word]
  <2>1. ASSUME NEW h \in Heaps PROVE cursor[h] \in Word
    <3>1. CASE h \notin Started
      BY <1>i, <1>3, <3>1 DEF BootOrder
    <3>2. CASE h \in Started
      <4>1. /\ PageOf(cursor[h]) <= RegionEnd(h) /\ cursor[h] \in Nat
            /\ RegionEnd(h) <= KernelEntry * TableEntries /\ RegionEnd(h) \in Nat
        BY <1>i, <3>2, RegionTop DEF Cursors, Typed
      <4>. DEFINE c == cursor[h]
      <4>2. PageOf(c) \in Nat
        BY <4>1, AddressParts
      <4>3. PageOf(c) <= KernelEntry * TableEntries
        BY <1>2, <4>1, <4>2
      <4>4. c \in Nat
        BY <4>1
      <4>. HIDE DEF c
      <4>5. c \in Word
        BY <4>3, <4>4, LowWord
      <4>. QED
        BY <4>5 DEF c
    <3>. QED
      BY <3>1, <3>2
  <2>. QED
    BY <1>i, <2>1 DEF Typed
<1>7. head \in [Heaps -> Word]
  <2>1. ASSUME NEW h \in Heaps PROVE head[h] \in Word
    <3>1. IsList(m, head[h], stk[h], dep[h])
      BY <1>i DEF Lists
    <3>2. CASE dep[h] = 0
      BY <1>3, <3>1, <3>2 DEF IsList, NULL
    <3>3. CASE dep[h] # 0
      <4>1. dep[h] \in 1 .. dep[h] /\ head[h] = stk[h][dep[h]]
        BY <3>1, <3>3 DEF IsList
      <4>2. head[h] \in Members(stk[h], dep[h])
        BY <4>1 DEF Members
      <4>3. head[h] \in Owned(Started, Own(stk, dep))
        BY <1>1, <4>2, KnownWords
      <4>. DEFINE x == head[h]
                  own == Own(stk, dep)
      <4>4. x \in Owned(Started, own) /\ Sound(m, dir, Started, own)
        BY <1>i, <4>3
      <4>. HIDE DEF x, own
      <4>5. x \in LowAddress
        BY <4>4, OwnedAddress
      <4>. QED
        BY <1>4, <4>5 DEF x
    <3>. QED
      BY <3>2, <3>3
  <2>. QED
    BY <1>i, <2>1 DEF Typed
<1>8. live \subseteq [ptr : Word, size : Sizes]
  <2>1. ASSUME NEW a \in live PROVE a.ptr \in Word
    <3>1. a.ptr \in Span(a)
      BY <1>i, SpanPlace
    <3>2. a.ptr \in Owned(Started, Own(stk, dep))
      BY <1>1, <3>1, KnownWords
    <3>. DEFINE x == a.ptr
                own == Own(stk, dep)
    <3>3. x \in Owned(Started, own) /\ Sound(m, dir, Started, own)
      BY <1>i, <3>2
    <3>. HIDE DEF x, own
    <3>4. x \in LowAddress
      BY <3>3, OwnedAddress
    <3>. QED
      BY <1>4, <3>4 DEF x
  <2>. QED
    BY <1>i, <2>1 DEF Typed
<1>9. lost \subseteq Word
  <2>. SUFFICES ASSUME NEW x \in lost PROVE x \in Word
    OBVIOUS
  <2>1. Started = Heaps /\ PageOf(x) \in LargeRegion /\ x \in Nat
    BY <1>i DEF BootOrder, Uses, Typed
  <2>2. PageOf(x) \in LowPages
    BY <1>1, <2>1, LargePlace
  <2>. QED
    BY <1>4, <2>1, <2>2 DEF LowAddress
<1>10. op.kind \in {"map", "unmap"} => op.start \in Word
  <2>. SUFFICES ASSUME op.kind \in {"map", "unmap"} PROVE op.start \in Word
    OBVIOUS
  <2>1. PICK s, i, n, k, d : /\ s = op.start /\ i = op.i /\ n = op.pages
                             /\ k = stk[Large] /\ d = dep[Large]
    OBVIOUS
  <2>2. /\ s \in Nat /\ n \in Nat \ {0} /\ Started = Heaps
        /\ \A p \in RangePages(s, n) : p \in LargeRegion
    BY <1>1, <2>1, CallFacts
  <2>3. PageOf(s) \in LargeRegion
    BY <2>2, FirstPage
  <2>4. PageOf(s) \in LowPages
    BY <1>1, <2>2, <2>3, LargePlace
  <2>. QED
    BY <1>4, <2>1, <2>2, <2>4 DEF LowAddress
<1>11. op \in Ops
  <2>1. op \in Calls
    BY <1>i DEF Typed
  <2>2. CASE op.kind \in {"map", "unmap"}
    BY <1>10, <2>1, <2>2, CallKinds DEF Ops
  <2>3. CASE op.kind = "fill"
    BY <1>8, <2>1, <2>3, CallKinds DEF Ops
  <2>4. CASE op.kind \notin {"map", "unmap", "fill"}
    BY <2>1, <2>4 DEF Ops, Calls
  <2>. QED
    BY <2>2, <2>3, <2>4
<1>. QED
  BY <1>i, <1>5, <1>6, <1>7, <1>8, <1>9, <1>11 DEF TypeOK, Typed

\* Type correctness of the heap: addresses, list heads and cursors stay within
\* 32 bits and below the kernel half, in every order of calls, for every number
\* of size classes and every size of memory.
THEOREM TypeCorrect ==
    ASSUME Fits
    PROVE  Spec /\ []Supplied => []TypeOK
<1>1. IInv => TypeOK
  BY InvTypes
<1>. QED
  BY <1>1, HeapInvariant, PTL

\* The kernel never faults on a list head, a header or a user pointer, and never
\* stops in a loop of boot or of the frame scan.
THEOREM KernelRuns ==
    ASSUME Fits
    PROVE  Spec /\ []Supplied => []NeverStops
<1>1. IInv => NeverStops
  BY DEF IInv, Inv, Typed, NeverStops
<1>. QED
  BY <1>1, HeapInvariant, PTL

\* Callers find what they wrote.
LEMMA InvData ==
    ASSUME Fits, IInv
    PROVE  UserDataIntact
<1>. SUFFICES ASSUME NEW a \in live, op # [kind |-> "fill", of |-> a],
                     NEW w \in UserWords(a)
              PROVE  Mapped(m, w) /\ Read(m, w) = Sentinel(w)
  BY DEF UserDataIntact
<1>1. PICK stk, dep, len, use, from : Inv(stk, dep, len, use, from)
  BY DEF IInv
<1>2. /\ Sound(m, dir, Started, Own(stk, dep)) /\ WordAt(m, w) = w
      /\ Typed /\ BootOrder /\ BlocksSplit(stk, dep) /\ Uses(use, from)
  BY <1>1 DEF Inv, DataKept
<1>3. w \in Span(a)
  BY <1>2, SpanPlace
<1>4. w \in Owned(Started, Own(stk, dep))
  BY <1>1, <1>3, KnownWords
<1>. QED
  BY <1>2, <1>4, OwnedAddress DEF Sentinel

\* What a caller has written stays, and is mapped, until it frees the memory:
\* no link, header, page table or other caller's write reaches it.
THEOREM DataIntact ==
    ASSUME Fits
    PROVE  Spec /\ []Supplied => []UserDataIntact
<1>1. IInv => UserDataIntact
  BY InvData
<1>. QED
  BY <1>1, HeapInvariant, PTL

\* kfree_heap finds, from its address alone, the heap a pointer came from.  Nothing
\* in the code keeps next_virt_addr within the class's 256 MB, but a class takes a
\* page only when all its blocks are held: so it stays there as long as callers
\* hold no more blocks of the class than the region has room for.
THEOREM RouteIsRight ==
    ASSUME Fits
    PROVE  Spec /\ []Supplied => []RouteMatchesClass
<1>1. IInv => RouteMatchesClass
  BY RouteOfHeld DEF IInv, RouteMatchesClass
<1>. QED
  BY <1>1, HeapInvariant, PTL

-----------------------------------------------------------------------------
(* The lists as the code walks them. *)

\* What following one link gives.
ListLink == [b \in Word |-> IF b = NULL \/ ~Mapped(m, b) THEN NULL ELSE Read(m, b)]

\* Following the links of a list gives its members, newest first, then NULL.
LEMMA ChainWalks ==
    ASSUME NEW h, NEW s, NEW d, IsList(m, head[h], s, d), NEW n \in Nat, 0 \in Word,
           \A x \in Members(s, d) : x \in Word /\ Mapped(m, x) /\ Read(m, x) = WordAt(m, x)
    PROVE  \A i \in 0 .. n : Chain(h, n)[i] = IF i < d THEN s[d - i] ELSE NULL
<1>. DEFINE Follows(c) == c = [i \in 0 .. n |-> IF i = 0 THEN head[h] ELSE ListLink[c[i - 1]]]
            g == [i \in 0 .. n |-> IF i < d THEN s[d - i] ELSE NULL]
            c == Chain(h, n)
<1>1. /\ d \in Nat /\ s \in [Nat -> Nat] /\ head[h] = IF d = 0 THEN NULL ELSE s[d]
      /\ \A k \in 1 .. d :
            s[k] # NULL /\ WordAt(m, s[k]) = IF k = 1 THEN NULL ELSE s[k - 1]
  BY DEF IsList
<1>2. c = CHOOSE e : Follows(e)
  BY DEF Chain, ListLink
<1>3. ListLink[NULL] = NULL
  BY DEF ListLink, NULL
<1>4. ASSUME NEW k \in 1 .. d PROVE ListLink[s[k]] = IF k = 1 THEN NULL ELSE s[k - 1]
  <2>1. s[k] \in Members(s, d)
    BY DEF Members
  <2>2. s[k] \in Word /\ Mapped(m, s[k]) /\ Read(m, s[k]) = WordAt(m, s[k]) /\ s[k] # NULL
    BY <1>1, <2>1
  <2>. QED
    BY <1>1, <2>2 DEF ListLink
<1>5. ASSUME NEW i \in 0 .. n PROVE g[i] = IF i = 0 THEN head[h] ELSE ListLink[g[i - 1]]
  <2>1. CASE i = 0
    BY <1>1, <2>1
  <2>2. CASE i # 0 /\ i - 1 < d
    <3>. DEFINE k == d - (i - 1)
    <3>1. k \in 1 .. d /\ (k = 1 <=> ~(i < d)) /\ k - 1 = d - i
      BY <1>1, <2>2
    <3>2. g[i - 1] = s[k]
      BY <2>2
    <3>3. g[i] = IF k = 1 THEN NULL ELSE s[k - 1]
      BY <3>1
    <3>. HIDE DEF k, g
    <3>. QED
      BY <1>4, <2>2, <3>1, <3>2, <3>3
  <2>3. CASE i # 0 /\ ~(i - 1 < d)
    BY <1>1, <1>3, <2>3
  <2>. QED
    BY <2>1, <2>2, <2>3
<1>6. Follows(g)
  <2>1. g = [i \in 0 .. n |-> g[i]]
    OBVIOUS
  <2>. HIDE DEF g
  <2>. QED
    BY <1>5, <2>1
<1>7. Follows(c)
  <2>. HIDE DEF Follows, g, c
  <2>. QED
    BY <1>2, <1>6
<1>8. ASSUME NEW i \in 0 .. n PROVE c[i] = IF i = 0 THEN head[h] ELSE ListLink[c[i - 1]]
  <2>. HIDE DEF c
  <2>. QED
    BY <1>7
<1>. HIDE DEF g, c
<1>9. ASSUME NEW i \in 0 .. n, c[i] # g[i] PROVE FALSE
  <2>. DEFINE T == {j \in 0 .. n : c[j] # g[j]}
              l == Min(T)
  <2>1. T \in SUBSET Nat /\ T # {}
    BY <1>9
  <2>2. l \in T /\ \A j \in T : l <= j
    BY <2>1, MinOfNats
  <2>. HIDE DEF l
  <2>3. l \in 0 .. n /\ c[l] # g[l] /\ (l # 0 => l - 1 \in 0 .. n /\ c[l - 1] = g[l - 1])
    BY <2>2
  <2>4. c[l] = IF l = 0 THEN head[h] ELSE ListLink[c[l - 1]]
    BY <1>8, <2>3
  <2>5. g[l] = IF l = 0 THEN head[h] ELSE ListLink[g[l - 1]]
    BY <1>5, <2>3
  <2>. QED
    BY <2>3, <2>4, <2>5
<1>. QED
  BY <1>9 DEF g, c

\* A list has no more members than a finite set that holds them.
LEMMA ListBound ==
    ASSUME NEW mem, NEW first, NEW s, NEW n, IsList(mem, first, s, n),
           NEW T, Members(s, n) \subseteq T, IsFiniteSet(T)
    PROVE  n <= Cardinality(T) /\ Cardinality(T) \in Nat
<1>. DEFINE f == [k \in 1 .. n |-> s[k]]
<1>1. n \in Nat /\ \A j, k \in 1 .. n : s[j] = s[k] => j = k
  BY DEF IsList
<1>2. f \in Injection(1 .. n, T)
  BY <1>1 DEF Injection, IsInjective, Members
<1>3. IsFiniteSet(1 .. n) /\ Cardinality(1 .. n) = n
  BY <1>1, FS_Interval
<1>. HIDE DEF f
<1>4. Cardinality(1 .. n) <= Cardinality(T)
  BY <1>2, FS_Injection
<1>. QED
  BY <1>3, <1>4, FS_CardinalityType

\* So following the links from a head gives the list of the invariant.
LEMMA ListSteps ==
    ASSUME Fits, NEW stk, NEW dep, NEW len, NEW use, NEW from,
           Inv(stk, dep, len, use, from), NEW h \in Heaps, NEW n \in Nat
    PROVE  \A i \in 0 .. n :
              Chain(h, n)[i] = IF i < dep[h] THEN stk[h][dep[h] - i] ELSE NULL
<1>. DEFINE s == stk[h]
            d == dep[h]
<1>1. IsList(m, head[h], s, d) /\ Sound(m, dir, Started, Own(stk, dep)) /\ d \in Nat
  BY DEF Inv, Lists
<1>2. Members(s, d) \subseteq Owned(Started, Own(stk, dep))
  BY KnownWords
<1>3. ASSUME NEW x \in Members(s, d)
      PROVE  x \in Word /\ Mapped(m, x) /\ Read(m, x) = WordAt(m, x) /\ x \in Nat /\ x # NULL
  <2>1. x \in Owned(Started, Own(stk, dep))
    BY <1>2
  <2>2. Mapped(m, x) /\ Read(m, x) = WordAt(m, x) /\ x \in LowAddress
    BY <1>1, <2>1, OwnedAddress
  <2>3. x \in Nat /\ PageOf(x) \in LowPages
    BY <2>2 DEF LowAddress
  <2>4. KernelEntry * TableEntries \in Nat
    BY PagingAssumption
  <2>5. PageOf(x) <= KernelEntry * TableEntries
    BY <2>3, <2>4 DEF LowPages
  <2>6. x # NULL
    BY <1>1 DEF IsList, Members
  <2>. QED
    BY <2>2, <2>3, <2>5, <2>6, LowWord
<1>4. 0 \in Word
  <2>1. PageWords \in Nat \ {0} /\ KernelEntry * TableEntries \in Nat /\ 0 \in Offset
    BY PagingAssumption DEF Offset
  <2>2. PageOf(0) = 0
    BY <2>1, AddressAt
  <2>. QED
    BY <2>1, <2>2, LowWord
<1>. HIDE DEF s, d
<1>5. \A i \in 0 .. n : Chain(h, n)[i] = IF i < d THEN s[d - i] ELSE NULL
  BY <1>1, <1>3, <1>4, ChainWalks
<1>. QED
  BY <1>5 DEF s, d

\* It ends, and meets every member.
LEMMA ListWalked ==
    ASSUME Fits, NEW stk, NEW dep, NEW len, NEW use, NEW from,
           Inv(stk, dep, len, use, from), NEW h \in Heaps, NEW n \in Nat, dep[h] <= n
    PROVE  /\ Chain(h, n)[n] = NULL
           /\ OnList(h, n) = Members(stk[h], dep[h])
<1>. DEFINE s == stk[h]
            d == dep[h]
            c == Chain(h, n)
<1>1. IsList(m, head[h], s, d) /\ d \in Nat
  BY DEF Inv, Lists
<1>2. \A k \in 1 .. d : s[k] # NULL
  BY <1>1 DEF IsList
<1>5. \A i \in 0 .. n : c[i] = IF i < d THEN s[d - i] ELSE NULL
  BY ListSteps
<1>. HIDE DEF s, d
<1>. HIDE DEF c
<1>6. d <= n
  BY DEF d
<1>7. c[n] = NULL
  BY <1>1, <1>5, <1>6
<1>8. ASSUME NEW x \in {c[i] : i \in 0 .. n} \ {NULL} PROVE x \in Members(s, d)
  <2>1. PICK i \in 0 .. n : x = c[i]
    BY <1>8
  <2>2. i < d /\ x = s[d - i]
    BY <1>5, <1>8, <2>1
  <2>3. d - i \in 1 .. d
    BY <1>1, <2>2
  <2>. QED
    BY <2>2, <2>3 DEF Members
<1>9. ASSUME NEW x \in Members(s, d) PROVE x \in {c[i] : i \in 0 .. n} \ {NULL}
  <2>1. PICK k \in 1 .. d : x = s[k]
    BY DEF Members
  <2>2. d - k \in 0 .. n /\ d - k < d /\ d - (d - k) = k
    BY <1>1, <1>6
  <2>3. c[d - k] = s[k]
    BY <1>5, <2>2
  <2>. QED
    BY <1>2, <2>1, <2>2, <2>3
<1>. QED
  BY <1>7, <1>8, <1>9 DEF OnList, c, s, d

\* The free list of a size class is a finite chain of exactly the blocks that have
\* been cut and are not held: heap_domain_alloc and heap_domain_free lose no block,
\* list none twice and never list one that a caller has.
THEOREM FreeListsExact ==
    ASSUME Fits
    PROVE  Spec /\ []Supplied => []FreeListExact
<1>1. IInv => FreeListExact
  <2>. SUFFICES ASSUME IInv, NEW d \in Domains, d \in Started
                PROVE  LET n == Cardinality(Carved(d)) + 1 IN
                       /\ Chain(d, n)[n] = NULL
                       /\ OnList(d, n) = Carved(d) \ {a.ptr : a \in Held(d)}
                       /\ {a.ptr : a \in Held(d)} \subseteq Carved(d)
    BY DEF FreeListExact
  <2>. DEFINE n == Cardinality(Carved(d)) + 1
              held == {a.ptr : a \in Held(d)}
  <2>1. PICK stk, dep, len, use, from : Inv(stk, dep, len, use, from)
    BY DEF IInv
  <2>2. /\ Typed /\ Cursors /\ IsList(m, head[d], stk[d], dep[d]) /\ dep[d] \in Nat
        /\ Members(stk[d], dep[d]) \cup held = Blocks(d)
        /\ \A a \in Held(d) : a.ptr \notin Members(stk[d], dep[d])
        /\ d \in Heaps
    BY <2>1 DEF Inv, Lists, BlocksSplit, Started
  <2>3. Carved(d) = Blocks(d) /\ IsFiniteSet(Carved(d))
    BY <2>2, CarvedBlocks
  <2>4. Members(stk[d], dep[d]) \subseteq Carved(d)
    BY <2>2, <2>3
  <2>5. dep[d] <= Cardinality(Carved(d)) /\ Cardinality(Carved(d)) \in Nat
    BY <2>2, <2>3, <2>4, ListBound
  <2>6. n \in Nat /\ dep[d] <= n
    BY <2>2, <2>5
  <2>. HIDE DEF n
  <2>7. Chain(d, n)[n] = NULL /\ OnList(d, n) = Members(stk[d], dep[d])
    BY <2>1, <2>2, <2>6, ListWalked
  <2>8. Members(stk[d], dep[d]) = Carved(d) \ held /\ held \subseteq Carved(d)
    BY <2>2, <2>3
  <2>. QED
    BY <2>7, <2>8 DEF n
<1>. QED
  BY <1>1, HeapInvariant, PTL

-----------------------------------------------------------------------------
(* The ranges of the large domain. *)

\* The large domain's cursor before and after it is set up.
LEMMA LargeTop ==
    ASSUME Typed, BootOrder, Cursors
    PROVE  /\ cursor[Large] \in Nat /\ cursor[Large] % PageWords = 0
           /\ PageOf(cursor[Large]) \in Nat
           /\ PageOf(cursor[Large]) <= BasePage(Large) + MaxLargePages
           /\ BasePage(Large) \in Nat /\ PageOf(Base(Large)) = BasePage(Large)
           /\ Base(Large) \in Nat /\ Base(Large) % PageWords = 0 /\ MaxLargePages \in Nat
<1>1. Large \in Nat /\ Large \in Heaps /\ MaxLargePages \in Nat /\ PageWords \in Nat \ {0}
  BY HeapNumbers DEF Large
<1>2. /\ BasePage(Large) \in Nat /\ PageOf(Base(Large)) = BasePage(Large)
      /\ Base(Large) \in Nat /\ Base(Large) % PageWords = 0
  BY <1>1, BaseIsPage
<1>3. cursor[Large] \in Nat /\ PageOf(cursor[Large]) \in Nat
  BY <1>1, AddressParts DEF Typed
<1>4. CASE Large \in Started
  <2>1. RegionEnd(Large) = BasePage(Large) + MaxLargePages
    BY DEF RegionEnd
  <2>. QED
    BY <1>1, <1>2, <1>3, <1>4, <2>1 DEF Cursors
<1>5. CASE Large \notin Started
  <2>1. cursor[Large] = 0 /\ 0 \in Offset /\ 0 = 0 + PageWords * 0
    BY <1>1, <1>5 DEF BootOrder, Offset
  <2>2. PageOf(0) = 0 /\ 0 % PageWords = 0
    BY <2>1, AddressAt
  <2>. QED
    BY <1>1, <1>2, <1>3, <2>1, <2>2
<1>. QED
  BY <1>4, <1>5

\* A range of whole pages in the region lies between its base and the cursor.
LEMMA RangeInside ==
    ASSUME Typed, BootOrder, Cursors, NEW s \in Nat, s % PageWords = 0,
           NEW n \in Nat \ {0}, RangePages(s, n) \subseteq LargeRegion
    PROVE  s >= Base(Large) /\ s + n * PageWords <= cursor[Large]
<1>. DEFINE e == s + n * PageWords
            last == PageOf(s) + n - 1
<1>1. PageOf(s) \in Nat /\ e \in Nat /\ PageOf(e) = PageOf(s) + n /\ e % PageWords = 0
  BY AddressParts, ByPages
<1>. HIDE DEF e
<1>2. PageOf(s) \in RangePages(s, n) /\ last \in RangePages(s, n)
  BY <1>1 DEF RangePages
<1>3. BasePage(Large) <= PageOf(s) /\ last <= PageOf(cursor[Large]) - 1
  BY <1>2, LargeTop DEF LargeRegion
<1>4. PageOf(e) <= PageOf(cursor[Large]) /\ PageOf(Base(Large)) <= PageOf(s)
  BY <1>1, <1>3, LargeTop
<1>5. Base(Large) <= s /\ e <= cursor[Large]
  BY <1>1, <1>4, LargeTop, PageOrder
<1>. QED
  BY <1>5, LargeTop DEF e

\* Two ranges of whole pages without a common page do not overlap.
LEMMA RangesOrdered ==
    ASSUME NEW s \in Nat, s % PageWords = 0, NEW n \in Nat \ {0},
           NEW t \in Nat, t % PageWords = 0, NEW k \in Nat \ {0},
           \A p \in RangePages(s, n) : p \notin RangePages(t, k)
    PROVE  s + n * PageWords <= t \/ t + k * PageWords <= s
<1>. DEFINE e == s + n * PageWords
            g == t + k * PageWords
<1>1. /\ PageOf(s) \in Nat /\ e \in Nat /\ PageOf(e) = PageOf(s) + n /\ e % PageWords = 0
      /\ PageOf(t) \in Nat /\ g \in Nat /\ PageOf(g) = PageOf(t) + k /\ g % PageWords = 0
  BY AddressParts, ByPages
<1>. HIDE DEF e, g
<1>2. PageOf(e) <= PageOf(t) \/ PageOf(g) <= PageOf(s)
  <2>1. PageOf(s) \in RangePages(s, n) /\ PageOf(t) \in RangePages(t, k)
    BY <1>1 DEF RangePages
  <2>2. PageOf(s) \notin RangePages(t, k) /\ PageOf(t) \notin RangePages(s, n)
    BY <2>1
  <2>. QED
    BY <1>1, <2>2 DEF RangePages
<1>3. e <= t \/ g <= s
  BY <1>1, <1>2, PageOrder
<1>. QED
  BY <1>3 DEF e, g

\* Each slot takes a page of the region, so the list of slots is shorter than it.
LEMMA SlotBound ==
    ASSUME NEW stk, NEW dep, NEW len, NEW use, NEW from, Inv(stk, dep, len, use, from)
    PROVE  dep[Large] \in Nat /\ dep[Large] <= MaxSlots /\ MaxSlots \in Nat
<1>. DEFINE n == dep[Large]
            s == stk[Large]
            f == [k \in 1 .. n |-> PageOf(s[k])]
            top == PageOf(cursor[Large])
<1>i. /\ Typed /\ BootOrder /\ Cursors /\ Lists(stk, dep)
      /\ SlotUses(stk[Large], dep[Large], len, use, from)
  BY DEF Inv
<1>1. IsList(m, head[Large], s, n) /\ n \in Nat
  <2>1. Large \in Heaps
    BY HeapNumbers DEF Large
  <2>. QED
    BY <1>i, <2>1 DEF Lists
<1>2. ASSUME NEW k \in 1 .. n
      PROVE  PageOf(s[k]) \in LargeRegion /\ from[PageOf(s[k])] = s[k]
  <2>1. s[k] \in Nat /\ len[k] \in Nat \ {0}
    BY <1>i, <1>1 DEF IsList, SlotUses
  <2>2. PageOf(s[k]) \in RangePages(s[k], len[k])
    BY <2>1, AddressParts DEF RangePages
  <2>. QED
    BY <1>i, <2>2 DEF SlotUses
<1>3. \A j, k \in 1 .. n : s[j] = s[k] => j = k
  BY <1>1 DEF IsList
<1>. HIDE DEF n, s
<1>4. f \in Injection(1 .. n, LargeRegion)
  <2>1. f \in [1 .. n -> LargeRegion]
    BY <1>2
  <2>2. ASSUME NEW j \in 1 .. n, NEW k \in 1 .. n, f[j] = f[k] PROVE j = k
    BY <1>2, <1>3, <2>2
  <2>. HIDE DEF f
  <2>. QED
    BY <2>1, <2>2 DEF Injection, IsInjective
<1>. HIDE DEF f
<1>5. /\ IsFiniteSet(LargeRegion) /\ Cardinality(LargeRegion) \in Nat
      /\ Cardinality(LargeRegion) <= MaxLargePages
  <2>. DEFINE a == BasePage(Large)
              b == top - 1
  <2>1. a \in Nat /\ b \in Int /\ b <= a + MaxLargePages - 1 /\ MaxLargePages \in Nat
    BY <1>i, LargeTop
  <2>2. LargeRegion = a .. b
    BY DEF LargeRegion
  <2>. HIDE DEF a, b
  <2>3. IsFiniteSet(a .. b) /\ Cardinality(a .. b) = IF a > b THEN 0 ELSE b - a + 1
    BY <2>1, FS_Interval
  <2>. QED
    BY <2>1, <2>2, <2>3
<1>6. Cardinality(1 .. n) <= Cardinality(LargeRegion)
  BY <1>4, <1>5, FS_Injection
<1>7. Cardinality(1 .. n) = n
  BY <1>1, FS_Interval
<1>8. MaxLargePages \in Nat
  BY HeapNumbers
<1>. QED
  BY <1>1, <1>5, <1>6, <1>7, <1>8 DEF MaxSlots, n

\* What kind of range r is, and that its pages are marked as such.
RangeMarked(r, use, from) ==
    \/ /\ r[2] = Read(m, r[1])
       /\ \A p \in RangePages(r[1], r[2]) : use[p] = "held" /\ from[p] = r[1] + 1
    \/ /\ r[2] = Read(m, r[1] + 1)
       /\ \A p \in RangePages(r[1], r[2]) : use[p] = "slot" /\ from[p] = r[1]
    \/ /\ op.kind \in {"map", "unmap"} /\ r = <<op.start, op.pages>>
       /\ \A p \in RangePages(r[1], r[2]) : use[p] = "call"

RangePlaced(r, use, from) ==
    /\ r = <<r[1], r[2]>> /\ r[1] \in Nat /\ r[1] % PageWords = 0 /\ r[2] \in Nat \ {0}
    /\ RangePages(r[1], r[2]) \subseteq LargeRegion
    /\ RangeMarked(r, use, from)

\* Every range of the large domain is marked in the pages it takes.
LEMMA EveryRange ==
    ASSUME Fits, NEW stk, NEW dep, NEW len, NEW use, NEW from,
           Inv(stk, dep, len, use, from), NEW r \in LargeRanges
    PROVE  RangePlaced(r, use, from)
<1>i. /\ Typed /\ BootOrder /\ Cursors /\ Lists(stk, dep)
      /\ Sound(m, dir, Started, Own(stk, dep)) /\ Uses(use, from) /\ CallUses(use)
      /\ SlotUses(stk[Large], dep[Large], len, use, from)
  BY DEF Inv
<1>1. PageWords \in Nat \ {0} /\ PageWords >= 4 /\ Large \in Heaps
  BY HeapNumbers DEF Large
<1>2. ASSUME NEW a \in Held(Large), r = <<a.ptr - 1, HeaderPages(a)>>
      PROVE  RangePlaced(r, use, from)
  <2>. DEFINE s == a.ptr - 1
              n == PagesFor(a.size)
  <2>1. a \in live /\ a.ptr \in Nat /\ a.size \in Sizes /\ ClassOf(a.size) = Large
    BY <1>i DEF Held, Typed
  <2>2. /\ a.ptr % PageWords = 1 /\ WordAt(m, a.ptr - 1) = PagesFor(a.size)
        /\ \A p \in HeldPages(a) : p \in LargeRegion /\ use[p] = "held" /\ from[p] = a.ptr
    BY <1>i DEF Uses
  <2>3. n \in Nat \ {0}
    BY <2>1, PagesForFacts
  <2>4. a.ptr = 1 + PageWords * PageOf(a.ptr) /\ PageOf(a.ptr) \in Nat
    BY <2>1, <2>2, AddressParts
  <2>5. s \in Nat /\ s = 0 + PageWords * PageOf(a.ptr) /\ 0 \in Offset /\ s + 1 = a.ptr
    BY <1>1, <2>1, <2>4 DEF Offset
  <2>. HIDE DEF s, n
  <2>6. PageOf(s) = PageOf(a.ptr) /\ s % PageWords = 0
    BY <2>4, <2>5, AddressAt
  <2>7. RangePages(s, n) = HeldPages(a)
    BY <2>6 DEF RangePages, HeldPages, n
  <2>8. PageOf(s) \in HeldPages(a)
    BY <2>3, <2>4, <2>6, <2>7 DEF RangePages
  <2>9. s \in Owned(Started, Own(stk, dep))
    BY <2>1, <2>5, <2>8, KnownWords DEF Span
  <2>10. Read(m, s) = WordAt(m, s)
    BY <1>i, <2>9, OwnedAddress
  <2>11. Read(m, s) = n /\ HeaderPages(a) = n
    BY <2>2, <2>10 DEF s, n, HeaderPages
  <2>12. r = <<s, n>> /\ r[1] = s /\ r[2] = n
    BY <1>2, <2>11 DEF s
  <2>13. RangeMarked(r, use, from)
    BY <2>2, <2>5, <2>7, <2>11, <2>12 DEF RangeMarked
  <2>. QED
    BY <2>2, <2>3, <2>5, <2>6, <2>7, <2>12, <2>13 DEF RangePlaced
<1>3. ASSUME NEW s \in Slots, r = <<s, SlotPages(s)>>
      PROVE  RangePlaced(r, use, from)
  <2>1. Slots = Members(stk[Large], dep[Large])
    BY <1>1, SlotBound, ListWalked DEF Slots
  <2>2. PICK k \in 1 .. dep[Large] : s = stk[Large][k]
    BY <2>1 DEF Members
  <2>3. s + 1 \in Owned(Started, Own(stk, dep)) /\ s \in Owned(Started, Own(stk, dep))
    BY <1>1, <2>1, KnownWords
  <2>4. s \in Nat
    BY <2>3 DEF Owned
  <2>5. /\ s % PageWords = 0 /\ len[k] \in Nat \ {0} /\ WordAt(m, s + 1) = len[k]
        /\ \A p \in RangePages(s, len[k]) :
              p \in LargeRegion /\ use[p] = "slot" /\ from[p] = s
    BY <1>i, <2>2 DEF SlotUses
  <2>6. Read(m, s + 1) = len[k] /\ SlotPages(s) = len[k]
    BY <1>i, <2>3, <2>5, OwnedAddress DEF SlotPages
  <2>7. r = <<s, len[k]>> /\ r[1] = s /\ r[2] = len[k]
    BY <1>3, <2>6
  <2>8. RangeMarked(r, use, from)
    BY <2>5, <2>6, <2>7 DEF RangeMarked
  <2>. QED
    BY <2>4, <2>5, <2>7, <2>8 DEF RangePlaced
<1>4. ASSUME op.kind \in {"map", "unmap"}, r = <<op.start, op.pages>>
      PROVE  RangePlaced(r, use, from)
  <2>1. op.start \in Nat /\ op.pages \in Nat
    BY <1>i, <1>4, CallKinds DEF Typed
  <2>2. /\ op.start % PageWords = 0 /\ op.pages # 0
        /\ \A p \in RangePages(op.start, op.pages) : p \in LargeRegion /\ use[p] = "call"
    BY <1>i, <1>4 DEF CallUses
  <2>3. r[1] = op.start /\ r[2] = op.pages
    BY <1>4
  <2>4. RangeMarked(r, use, from)
    BY <1>4, <2>2, <2>3 DEF RangeMarked
  <2>. QED
    BY <1>4, <2>1, <2>2, <2>3, <2>4 DEF RangePlaced
<1>. QED
  BY <1>2, <1>3, <1>4 DEF LargeRanges

\* A page tells the range it is in.
LEMMA OneRange ==
    ASSUME NEW use, NEW from, NEW r, NEW s, RangePlaced(r, use, from),
           RangePlaced(s, use, from), NEW p, p \in RangePages(r[1], r[2]),
           p \in RangePages(s[1], s[2])
    PROVE  r = s
<1>1. r = <<r[1], r[2]>> /\ s = <<s[1], s[2]>> /\ r[1] \in Nat /\ s[1] \in Nat
  BY DEF RangePlaced
<1>2. CASE use[p] = "held"
  <2>1. r[2] = Read(m, r[1]) /\ from[p] = r[1] + 1 /\ s[2] = Read(m, s[1]) /\ from[p] = s[1] + 1
    BY <1>2 DEF RangePlaced, RangeMarked
  <2>2. r[1] = s[1]
    BY <1>1, <2>1
  <2>. QED
    BY <1>1, <2>1, <2>2
<1>3. CASE use[p] = "slot"
  <2>1. r[2] = Read(m, r[1] + 1) /\ from[p] = r[1] /\ s[2] = Read(m, s[1] + 1) /\ from[p] = s[1]
    BY <1>3 DEF RangePlaced, RangeMarked
  <2>. QED
    BY <1>1, <2>1
<1>4. CASE use[p] \notin {"held", "slot"}
  <2>1. r = <<op.start, op.pages>> /\ s = <<op.start, op.pages>>
    BY <1>4 DEF RangePlaced, RangeMarked
  <2>. QED
    BY <2>1
<1>. QED
  BY <1>2, <1>3, <1>4

\* kmalloc_large and kfree_large: what callers hold, what is on the list of freed
\* slots, which is finite, and the range of the call in progress never overlap, and
\* all lie between the region's base and the cursor.
THEOREM LargeRangesApart ==
    ASSUME Fits
    PROVE  Spec /\ []Supplied => []LargeRangesDisjoint
<1>1. IInv => LargeRangesDisjoint
  <2>. SUFFICES ASSUME IInv
                PROVE  /\ Chain(Large, MaxSlots)[MaxSlots] = NULL
                       /\ \A r \in LargeRanges :
                             /\ r[2] > 0 /\ r[1] >= Base(Large)
                             /\ r[1] + r[2] * PageWords <= cursor[Large]
                       /\ \A r, s \in LargeRanges :
                             r # s => \/ r[1] + r[2] * PageWords <= s[1]
                                      \/ s[1] + s[2] * PageWords <= r[1]
    BY DEF LargeRangesDisjoint
  <2>1. PICK stk, dep, len, use, from : Inv(stk, dep, len, use, from)
    BY DEF IInv
  <2>2. Typed /\ BootOrder /\ Cursors /\ Large \in Heaps
    BY <2>1, HeapNumbers DEF Inv, Large
  <2>3. Chain(Large, MaxSlots)[MaxSlots] = NULL
    BY <2>1, <2>2, SlotBound, ListWalked
  <2>4. \A r \in LargeRanges : RangePlaced(r, use, from)
    BY <2>1, EveryRange
  <2>5. ASSUME NEW r \in LargeRanges
        PROVE  r[2] > 0 /\ r[1] >= Base(Large) /\ r[1] + r[2] * PageWords <= cursor[Large]
    <3>1. /\ r[1] \in Nat /\ r[1] % PageWords = 0 /\ r[2] \in Nat \ {0}
          /\ RangePages(r[1], r[2]) \subseteq LargeRegion
      BY <2>4 DEF RangePlaced
    <3>. QED
      BY <2>2, <3>1, RangeInside
  <2>6. ASSUME NEW r \in LargeRanges, NEW s \in LargeRanges, r # s
        PROVE  r[1] + r[2] * PageWords <= s[1] \/ s[1] + s[2] * PageWords <= r[1]
    <3>1. RangePlaced(r, use, from) /\ RangePlaced(s, use, from)
      BY <2>4
    <3>2. /\ r[1] \in Nat /\ r[1] % PageWords = 0 /\ r[2] \in Nat \ {0}
          /\ s[1] \in Nat /\ s[1] % PageWords = 0 /\ s[2] \in Nat \ {0}
      BY <3>1 DEF RangePlaced
    <3>3. \A p \in RangePages(r[1], r[2]) : p \notin RangePages(s[1], s[2])
      BY <2>6, <3>1, OneRange
    <3>. QED
      BY <3>2, <3>3, RangesOrdered
  <2>. QED
    BY <2>3, <2>5, <2>6
<1>. QED
  BY <1>1, HeapInvariant, PTL

-----------------------------------------------------------------------------
(* What a step may not do: move a caller's memory. *)

\* Callers' pages keep their frames in every step.
LEMMA StepStays ==
    ASSUME Fits, IInv, Sane, Sane', [Next]_vars
    PROVE  StaysPut
<1>1. PICK stk, dep, len, use, from : Inv(stk, dep, len, use, from)
  BY DEF IInv
<1>2. CASE m' = m
  BY <1>2 DEF StaysPut
<1>3. CASE init_heap \/ premap
  <2>1. live = {}
    BY <1>1, <1>3 DEF Inv, BootOrder, init_heap, premap
  <2>. QED
    BY <2>1 DEF StaysPut
<1>4. CASE large_map /\ m' # m
  <2>1. PICK s, i, n, z : s = op.start /\ i = op.i /\ n = op.pages /\ z = op.size
    OBVIOUS
  <2>2. ProcessFrame # NoFrame
    BY <1>4 DEF large_map, Stop
  <2>. QED
    BY <1>1, <1>4, <2>1, <2>2, MapGrows
<1>5. CASE large_return
  <2>1. PICK s, n, z : s = op.start /\ n = op.pages /\ z = op.size
    OBVIOUS
  <2>. QED
    BY <1>1, <1>5, <2>1, ReturnStep
<1>6. CASE large_unmap
  <2>1. PICK s, i, n : s = op.start /\ i = op.i /\ n = op.pages
    OBVIOUS
  <2>. QED
    BY <1>1, <1>6, <2>1, UnmapStep
<1>7. CASE large_free_return
  <2>1. PICK s, n : s = op.start /\ n = op.pages
    OBVIOUS
  <2>. QED
    BY <1>1, <1>7, <2>1, FreeReturns
<1>8. CASE user_fill
  <2>1. op \in Calls /\ op.kind = "fill"
    BY <1>1, <1>8 DEF Inv, Typed, user_fill
  <2>2. op.of \in live
    BY <2>1, CallKinds
  <2>3. PICK own : own = Own(stk, dep)
    OBVIOUS
  <2>4. SameFrames(m, m', Started, own)
    BY <1>1, <1>8, <2>2, <2>3, FillWrites
  <2>. QED
    BY <1>1, <2>3, <2>4, AllStay
<1>9. ASSUME NEW size \in Sizes, alloc_slow(size) PROVE StaysPut
  <2>1. PICK d, v : d = ClassOf(size) /\ v = cursor[d]
    OBVIOUS
  <2>. QED
    BY <1>1, <1>9, <2>1, SlowStep
<1>10. ASSUME NEW size \in Sizes, large_begin(size), m' # m PROVE StaysPut
  <2>1. PICK slot : slot = head[Large]
    OBVIOUS
  <2>2. SlotFits(slot, PagesFor(size))
    BY <1>10, <2>1 DEF large_begin, Stop
  <2>. QED
    BY <1>1, <1>10, <2>1, <2>2, BeginReuse
<1>11. ASSUME NEW a \in live, free_small(a) PROVE StaysPut
  <2>1. PICK d : d = ClassOf(a.size)
    OBVIOUS
  <2>. QED
    BY <1>1, <1>11, <2>1, FreeStep
<1>12. ASSUME NEW size \in Sizes, alloc_fast(size) PROVE m' = m
  BY <1>12 DEF alloc_fast, Stop
<1>13. ASSUME NEW a \in live, large_free_begin(a) PROVE m' = m
  BY <1>13 DEF large_free_begin, Stop
<1>14. CASE UNCHANGED vars
  BY <1>2, <1>14 DEF vars
<1>. QED
  BY <1>2, <1>3, <1>4, <1>5, <1>6, <1>7, <1>8, <1>9, <1>10, <1>11, <1>12, <1>13, <1>14
     DEF Next, Step

\* A step lets calls begin or end: what is held before and after under one address
\* is one allocation.
LEMMA SamePointer ==
    ASSUME IInv, IInv', [Next]_vars, NEW a \in live, NEW b \in live', a.ptr = b.ptr
    PROVE  a = b
<1>1. live' = live \/ (\E c : live' = live \cup {c}) \/ (\E c : live' = live \ {c})
  <2>1. CASE UNCHANGED vars
    BY <2>1 DEF vars
  <2>2. CASE Step
    BY <2>2 DEF Step, init_heap, premap, large_map, large_return, large_unmap,
                large_free_return, user_fill, Stop, Return
  <2>3. ASSUME NEW size \in Sizes, alloc_fast(size) \/ alloc_slow(size) \/ large_begin(size)
        PROVE  live' = live \/ (\E c : live' = live \cup {c})
    BY <2>3 DEF alloc_fast, alloc_slow, large_begin, Stop, Return, vars
  <2>4. ASSUME NEW c \in live, free_small(c) \/ large_free_begin(c)
        PROVE  live' = live \/ live' = live \ {c}
    BY <2>4 DEF free_small, large_free_begin, Stop
  <2>. QED
    BY <2>1, <2>2, <2>3, <2>4 DEF Next
<1>2. (a \in live /\ b \in live) \/ (a \in live' /\ b \in live')
  BY <1>1
<1>3. \A c, e \in live : c.ptr = e.ptr => c = e
  BY DEF IInv, Inv, BlocksSplit
<1>4. (\A c, e \in live : c.ptr = e.ptr => c = e)'
  BY DEF IInv, Inv, BlocksSplit
<1>. QED
  BY <1>2, <1>3, <1>4

\* Where a caller's pages are.
HeldPlaces ==
    \A a \in live : \A p \in UserPages(a) :
        /\ Translate(m, p) = <<FrameAt(m.ram, PageOf(p)), p % PageWords>>
        /\ \E x \in Span(a) : PageOf(x) = PageOf(p)

\* The invariant gives both.
LEMMA InvPlaces ==
    ASSUME Fits, IInv
    PROVE  HeldPlaces
<1>. SUFFICES ASSUME NEW a \in live, NEW p \in UserPages(a)
              PROVE  /\ Translate(m, p) = <<FrameAt(m.ram, PageOf(p)), p % PageWords>>
                     /\ \E x \in Span(a) : PageOf(x) = PageOf(p)
  BY DEF HeldPlaces
<1>1. PICK stk, dep, len, use, from : Inv(stk, dep, len, use, from)
  BY DEF IInv
<1>2. /\ Sound(m, dir, Started, Own(stk, dep))
      /\ Typed /\ BootOrder /\ BlocksSplit(stk, dep) /\ Uses(use, from)
  BY <1>1 DEF Inv
<1>3. PICK w \in UserWords(a) : p = w - (w % PageWords)
  BY DEF UserPages
<1>4. w \in Span(a) /\ w \in Nat
  BY <1>2, SpanPlace
<1>5. /\ w = (w % PageWords) + PageWords * PageOf(w)
      /\ PageOf(w) \in Nat /\ w % PageWords \in Offset /\ PageWords \in Nat \ {0}
  BY <1>4, AddressParts, PagingAssumption
<1>6. p = 0 + PageWords * PageOf(w) /\ 0 \in Offset
  <2>1. PageWords * PageOf(w) \in Nat /\ w % PageWords \in Nat
    BY <1>5 DEF Offset
  <2>2. 0 \in Offset
    BY <1>5 DEF Offset
  <2>. DEFINE o == w % PageWords
              e == PageWords * PageOf(w)
  <2>3. w = o + e /\ o \in Nat /\ e \in Nat /\ p = w - o
    BY <1>3, <1>5, <2>1
  <2>. HIDE DEF o, e
  <2>4. p = 0 + e
    BY <2>3
  <2>. QED
    BY <2>2, <2>4 DEF e
<1>7. p \in Nat /\ PageOf(p) = PageOf(w)
  BY <1>5, <1>6, AddressAt
<1>8. w \in Owned(Started, Own(stk, dep))
  BY <1>1, <1>4, KnownWords
<1>9. p \in Owned(Started, Own(stk, dep))
  BY <1>7, <1>8 DEF Owned
<1>. QED
  BY <1>2, <1>4, <1>7, <1>9, OwnedAddress

\* A pointer keeps its physical memory as long as it is held, whatever else is
\* mapped, unmapped or reused meanwhile.
THEOREM PointersStay ==
    ASSUME Fits
    PROVE  Spec /\ []Supplied => PointersStable
<1>1. IInv => HeldPlaces
  BY InvPlaces
<1>2. ASSUME IInv, IInv', HeldPlaces, HeldPlaces', Sane, Sane', [Next]_vars
      PROVE  [TablesBacked' =>
                \A a \in live : \A b \in live' : a.ptr = b.ptr =>
                    \A p \in UserPages(a) :
                        Mapped(m, p) => Translate(m, p) = Translate(m', p)]_vars
  <2>. SUFFICES ASSUME NEW a \in live, NEW b \in live', a.ptr = b.ptr, NEW p \in UserPages(a)
                PROVE  Translate(m, p) = Translate(m', p)
    OBVIOUS
  <2>1. a = b
    BY <1>2, SamePointer
  <2>2. a \in live'
    BY <2>1
  <2>3. /\ Translate(m, p) = <<FrameAt(m.ram, PageOf(p)), p % PageWords>>
        /\ \E x \in Span(a) : PageOf(x) = PageOf(p)
    BY <1>2 DEF HeldPlaces
  <2>4. PICK x \in Span(a) : PageOf(x) = PageOf(p)
    BY <2>3
  <2>5. Translate(m', p) = <<FrameAt(m'.ram, PageOf(p)), p % PageWords>>
    <3>1. \A c \in live' : \A y \in UserPages(c) :
              Translate(m', y) = <<FrameAt(m'.ram, PageOf(y)), y % PageWords>>
      BY <1>2 DEF HeldPlaces, UserPages, UserWords
    <3>. QED
      BY <2>2, <3>1
  <2>6. FrameAt(m'.ram, PageOf(x)) = FrameAt(m.ram, PageOf(x))
    BY <1>2, <2>2, StepStays DEF StaysPut
  <2>. QED
    BY <2>3, <2>4, <2>5, <2>6
<1>. QED
  BY <1>1, <1>2, HeapInvariant, PTL DEF Spec, PointersStable
-----------------------------------------------------------------------------
(* Every frame in use has one use. *)

\* No page table is a frame of the image: the static table for the first entry
\* of the kernel's directory is never installed.
TopClear == ~Present(m.ram[KernelDir][0])

\* A region of at least the pages of one table keeps the first entry free.
LEMMA TopSlot ==
    ASSUME TableEntries <= RegionPages, NEW h \in Heaps, NEW p \in Nat, BasePage(h) <= p
    PROVE  0 # p \div TableEntries
<1>1. h \in Nat /\ h >= 1 /\ RegionPages \in Nat /\ TableEntries \in Nat \ {0}
  BY HeapNumbers, PagingAssumption
<1>2. RegionPages * 1 <= RegionPages * h
  BY <1>1, ProductMonotone
<1>3. RegionPages <= p
  BY <1>1, <1>2 DEF BasePage
<1>. DEFINE q == p \div TableEntries
            r == p % TableEntries
<1>4. q \in Nat /\ r \in 0 .. TableEntries - 1 /\ p = r + TableEntries * q
  BY <1>1, Division
<1>. HIDE DEF q, r
<1>5. q # 0
  <2>. SUFFICES ASSUME q = 0 PROVE FALSE
    OBVIOUS
  <2>1. TableEntries * q = 0
    BY <1>1
  <2>. QED
    BY <1>1, <1>3, <1>4, <2>1
<1>. QED
  BY <1>5 DEF q

\* Mapping a page of a region.
LEMMA TopMap ==
    ASSUME TableEntries <= RegionPages, NEW own, Sound(m, dir, Started, own),
           NEW h \in Started, NEW virt \in LowAddress, BasePage(h) <= PageOf(virt),
           NEW f, f = ProcessFrame, f # NoFrame, NEW mem \in DoubleMap(h, virt, f)
    PROVE  /\ mem.ram[KernelDir][0] = m.ram[KernelDir][0]
           /\ mem \in Machines /\ Translate(mem, virt)[1] = f
           /\ f \in Frame \ (m.bitmap \cup Image) /\ f # KernelDir
<1>. DEFINE D == dir[h]
            Dirs == DirSet(dir, Started)
<1>1. /\ m \in Machines /\ Tables(m.bitmap, m.ram, Dirs) /\ D \in Dirs /\ D # KernelDir
      /\ Dirs \subseteq m.bitmap /\ KernelDir \in Dirs
      /\ m.bitmap \in SUBSET Frame /\ Image \subseteq m.bitmap
  BY DEF Sound, Tables, DirSet
<1>2. f \in Frame \ (m.bitmap \cup Image)
  BY <1>1, ProcessFrameFound DEF ProcessFrame
<1>3. mem = MapTwice(m, D, virt, f)
  BY DEF DoubleMap, MapTwice
<1>4. 0 \in Offset
  BY PagingAssumption DEF Offset
<1>5. 0 # PageOf(virt) \div TableEntries
  <2>1. h \in Heaps /\ PageOf(virt) \in Nat
    BY Indices DEF Started
  <2>. QED
    BY <2>1, TopSlot
<1>6. Walkable(m.bitmap, m.ram, Dirs)
  BY <1>1, TablesWalkable
<1>. HIDE DEF D, Dirs
<1>7. mem.ram[KernelDir][0] = m.ram[KernelDir][0]
  <2>1. /\ f \in Frame
        /\ m \in Machines /\ Walkable(m.bitmap, m.ram, Dirs) /\ D \in Dirs /\ D # KernelDir
        /\ virt \in LowAddress /\ mem = MapTwice(m, D, virt, f)
    BY <1>1, <1>2, <1>3, <1>6
  <2>2. TopKept(m.ram, mem.ram, virt)
    BY ONLY <2>1, MapTwiceTop
  <2>. QED
    BY <1>4, <1>5, <2>2, Indices DEF TopKept
<1>8. mem \in Machines /\ Translate(mem, virt) = <<f, virt % PageWords>>
  BY <1>1, <1>2, <1>3, <1>6, MapTwiceEntries
<1>. QED
  BY <1>1, <1>2, <1>7, <1>8

\* A size class gets a page.
LEMMA TopCut ==
    ASSUME Fits, TableEntries <= RegionPages, NEW stk, NEW dep, NEW len, NEW use, NEW from,
           Inv(stk, dep, len, use, from), NEW d \in Domains, d \in Started,
           NEW virt, virt = cursor[d], virt + PageWords <= Base(d + 1),
           NEW f, f = ProcessFrame, f # NoFrame, NEW mem \in DoubleMap(d, virt, f),
           NEW last \in Nat, m' = Carve(mem, d, virt, last)
    PROVE  m'.ram[KernelDir][0] = m.ram[KernelDir][0]
<1>1. Sound(m, dir, Started, Own(stk, dep)) /\ Typed /\ Cursors
  BY DEF Inv
<1>2. virt \in LowAddress /\ virt \in Nat
  <2>. DEFINE after == virt + PageWords
  <2>1. after <= Base(d + 1)
    OBVIOUS
  <2>. HIDE DEF after
  <2>2. after = virt + PageWords
    BY DEF after
  <2>. QED
    BY <2>1, <2>2, FreshPage DEF LowAddress
<1>3. BasePage(d) <= PageOf(virt) /\ virt % PageWords = 0
  BY <1>1 DEF Cursors
<1>4. /\ mem.ram[KernelDir][0] = m.ram[KernelDir][0]
      /\ mem \in Machines /\ Translate(mem, virt)[1] = f
      /\ f \in Frame /\ f # KernelDir
  <2>. DEFINE own == Own(stk, dep)
  <2>1. Sound(m, dir, Started, own)
    BY <1>1
  <2>. HIDE DEF own
  <2>. QED
    BY <1>2, <1>3, <2>1, TopMap
<1>5. \A g \in Frame : g # f => m'.ram[g] = mem.ram[g]
  BY <1>2, <1>3, <1>4, CarveWrites
<1>6. KernelDir \in Frame
  BY ImageFrames3
<1>. QED
  BY <1>4, <1>5, <1>6

\* A word of a mapped page is written.
LEMMA TopWrite ==
    ASSUME NEW mem, NEW own, Sound(mem, dir, Started, own), NEW x \in Owned(Started, own),
           NEW v \in Nat, NEW mem2, mem2 = Write(mem, x, v)
    PROVE  mem2.ram[KernelDir] = mem.ram[KernelDir] /\ Sound(mem2, dir, Started, own)
<1>1. KernelDir \in DirSet(dir, Started)
  BY DEF DirSet
<1>. QED
  BY <1>1, WriteWord

\* A page of the large domain is unmapped.
LEMMA TopUnmap ==
    ASSUME Fits, NEW own, Sound(m, dir, Started, own), Large \in Started,
           NEW virt \in LowAddress, PageOf(virt) \in own[Large],
           m' = UnmapPage(m, dir[Large], virt)
    PROVE  m'.ram[KernelDir] = m.ram[KernelDir]
<1>. DEFINE p == PageOf(virt)
            own2 == [g \in Started |-> IF g = Large THEN own[g] \ {p} ELSE own[g]]
            mem == m'
<1>1. PageLeaves(Started, own, own2, Large, p)
  BY DEF PageLeaves
<1>2. p = PageOf(virt) /\ mem = UnmapPage(m, dir[Large], virt)
  OBVIOUS
<1>3. NumFrames <= AddressableFrames
  BY DEF Fits
<1>4. KernelDir \in DirSet(dir, Started)
  BY DEF DirSet
<1>. HIDE DEF p, own2, mem
<1>5. \A E \in DirSet(dir, Started) : mem.ram[E] = m.ram[E]
  BY <1>1, <1>2, <1>3, UnmapSound
<1>. QED
  BY <1>4, <1>5 DEF mem

\* The first entry stays free.
LEMMA TopStep ==
    ASSUME Fits, TableEntries <= RegionPages, IInv, IInv', Sane, Sane', [Next]_vars
    PROVE  m'.ram[KernelDir][0] = m.ram[KernelDir][0]
<1>1. PICK stk, dep, len, use, from : Inv(stk, dep, len, use, from)
  BY DEF IInv
<1>2. PICK own : own = Own(stk, dep)
  OBVIOUS
<1>i. /\ Typed /\ BootOrder /\ Cursors /\ Sound(m, dir, Started, own) /\ Lists(stk, dep)
      /\ cpu = "run"
  BY <1>1, <1>2 DEF Inv, Typed
<1>3. cpu' = "run" /\ \A d \in Domains : cursor'[d] <= Base(d + 1)
  BY DEF IInv, Inv, Typed, Sane, Room
<1>4. CASE m' = m
  BY <1>4
<1>5. CASE init_heap
  <2>1. PICK f : f = NextKernelFrame(m.bitmap)
    OBVIOUS
  <2>2. f # NoFrame /\ m' = NewDirectory(m, f)
    BY <1>3, <1>5, <2>1 DEF init_heap, Stop
  <2>3. m \in Machines /\ m.bitmap \in SUBSET Frame /\ Image \subseteq m.bitmap
    BY <1>i DEF Sound, Tables
  <2>4. f \in Frame \ (m.bitmap \cup Image)
    BY <2>1, <2>2, <2>3, KernelFrameFound
  <2>5. f # KernelDir /\ KernelDir \in Frame
    BY <2>4, ImageFrames3
  <2>. QED
    BY <2>2, <2>3, <2>5 DEF NewDirectory, Machines, Memory
<1>6. CASE premap /\ m' # m
  <2>1. PICK d : d = op.heap
    OBVIOUS
  <2>2. PICK v, f, last : v = cursor[d] /\ f = ProcessFrame /\ last = head[d]
    OBVIOUS
  <2>3. op \in [kind : {"premap"}, heap : Domains, i : 0 .. PremapPages]
    BY <1>i, <1>6, CallKinds DEF premap, Typed
  <2>4. d \in Domains /\ d \in Heaps /\ d \in Nat /\ last \in Nat /\ v \in Nat
    BY <1>i, <2>1, <2>2, <2>3, HeapNumbers DEF Heaps, Typed
  <2>5. d \in Started
    <3>1. Started = 1 .. d
      BY <1>i, <1>6, <2>1 DEF BootOrder, premap
    <3>. QED
      BY <2>4, <3>1, HeapNumbers
  <2>6. /\ f # NoFrame /\ cursor' = [cursor EXCEPT ![d] = v + PageWords]
        /\ \E mem \in DoubleMap(d, v, f) : m' = Carve(mem, d, v, last)
    BY <1>3, <1>6, <2>1, <2>2 DEF premap, Stop
  <2>7. v + PageWords <= Base(d + 1)
    BY <1>i, <1>3, <2>4, <2>6 DEF Typed
  <2>8. PICK mem \in DoubleMap(d, v, f) : m' = Carve(mem, d, v, last)
    BY <2>6
  <2>. QED
    BY <1>1, <2>2, <2>4, <2>5, <2>6, <2>7, <2>8, TopCut
<1>7. ASSUME NEW size \in Sizes, alloc_slow(size), m' # m
      PROVE  m'.ram[KernelDir][0] = m.ram[KernelDir][0]
  <2>1. PICK d : d = ClassOf(size)
    OBVIOUS
  <2>2. PICK v, f, last : v = cursor[d] /\ f = ProcessFrame /\ last = NULL
    OBVIOUS
  <2>3. d \in Domains /\ op = Idle
    BY <1>7, <2>1 DEF alloc_slow
  <2>4. d \in Heaps /\ d \in Nat /\ last \in Nat /\ v \in Nat
    BY <1>i, <2>2, <2>3, HeapNumbers DEF Heaps, Typed, NULL
  <2>5. d \in Started
    BY <1>i, <2>3, <2>4, CallKinds DEF BootOrder, Typed
  <2>6. /\ f # NoFrame /\ cursor' = [cursor EXCEPT ![d] = v + PageWords]
        /\ \E mem \in DoubleMap(d, v, f) : m' = Carve(mem, d, v, last)
    BY <1>3, <1>7, <2>1, <2>2 DEF alloc_slow, Stop, vars
  <2>7. v + PageWords <= Base(d + 1)
    BY <1>i, <1>3, <2>3, <2>4, <2>6 DEF Typed
  <2>8. PICK mem \in DoubleMap(d, v, f) : m' = Carve(mem, d, v, last)
    BY <2>6
  <2>. QED
    BY <1>1, <2>2, <2>3, <2>4, <2>5, <2>6, <2>7, <2>8, TopCut
<1>8. ASSUME op.kind \in {"map", "unmap"}
      PROVE  /\ op.start \in Nat /\ op.i \in Nat /\ op.pages \in Nat \ {0} /\ op.i <= op.pages
             /\ PageOf(op.start) \in Nat /\ op.start % PageWords = 0
             /\ op.kind = "unmap" => op.i >= 1
             /\ Started = Heaps /\ Large \in Started /\ Large \in Heaps
             /\ \A p \in RangePages(op.start, op.pages) :
                   p \in LargeRegion /\ p \in Nat /\ p \in LowPages
             /\ CallPages \subseteq own[Large]
             /\ head[Large] \in Nat
  <2>1. PICK start, i, n, s, d : start = op.start /\ i = op.i /\ n = op.pages
                                 /\ s = stk[Large] /\ d = dep[Large]
    OBVIOUS
  <2>2. /\ start \in Nat /\ i \in Nat /\ n \in Nat \ {0} /\ i <= n
        /\ start % PageWords = 0 /\ PageOf(start) \in Nat
        /\ op.kind = "unmap" => i >= 1
        /\ \A p \in RangePages(start, n) : p \in LargeRegion /\ p \in Nat
        /\ Started = Heaps /\ Large \in Started
        /\ Large \in Heaps /\ head[Large] \in Nat
        /\ Own(stk, dep)[Large] = LargeOwn(Members(s, d))
    BY <1>1, <1>8, <2>1, CallFacts
  <2>3. \A p \in LargeRegion : p \in LowPages
    BY <1>1, <2>2, LargePlace
  <2>4. CallPages \subseteq own[Large]
    BY <1>2, <2>2 DEF LargeOwn
  <2>. QED
    BY <2>1, <2>2, <2>3, <2>4
<1>9. CASE large_map /\ m' # m
  <2>1. PICK v, f, p : v = op.start + op.i * PageWords /\ f = ProcessFrame
                       /\ p = PageOf(op.start) + op.i
    OBVIOUS
  <2>2. op.kind = "map" /\ op.i < op.pages /\ f # NoFrame /\ m' \in DoubleMap(Large, v, f)
    BY <1>3, <1>9, <2>1 DEF large_map, Stop
  <2>3. v \in Nat /\ PageOf(v) = p
    BY <1>8, <2>1, <2>2, ByPages
  <2>4. p \in RangePages(op.start, op.pages)
    BY <1>8, <2>1, <2>2 DEF RangePages
  <2>5. p \in LargeRegion /\ p \in LowPages /\ v \in LowAddress
    BY <1>8, <2>2, <2>3, <2>4 DEF LowAddress
  <2>6. BasePage(Large) <= PageOf(v)
    BY <2>3, <2>5 DEF LargeRegion
  <2>7. Large \in Started
    BY <1>8, <2>2
  <2>8. PICK mem : mem = m'
    OBVIOUS
  <2>9. mem \in DoubleMap(Large, v, f)
    BY <2>2, <2>8
  <2>10. mem.ram[KernelDir][0] = m.ram[KernelDir][0]
    BY <1>i, <2>1, <2>2, <2>5, <2>6, <2>7, <2>9, TopMap
  <2>. QED
    BY <2>8, <2>10
<1>10. ASSUME op.kind \in {"map", "unmap"}, op.kind = "map" => op.i = op.pages
       PROVE  op.start \in Owned(Started, own) /\ op.start + 1 \in Owned(Started, own)
              /\ PageOf(op.start) \in own[Large]
  <2>1. PageOf(op.start) \in CallPages
    BY <1>8, <1>10 DEF CallPages, RangePages
  <2>2. PageOf(op.start) \in own[Large]
    BY <1>8, <1>10, <2>1
  <2>3. PageOf(op.start + 1) = PageOf(op.start) /\ op.start + 1 \in Nat
    <3>1. (op.start % PageWords) + 1 < PageWords
      BY <1>8, <1>10, HeapNumbers
    <3>2. PICK x, o : x = op.start /\ o = 1
      OBVIOUS
    <3>3. x \in Nat /\ o \in Nat /\ (x % PageWords) + o < PageWords
      BY <1>8, <1>10, <3>1, <3>2
    <3>4. PageOf(x + o) = PageOf(x)
      BY <3>3, WithinPage
    <3>. QED
      BY <3>2, <3>3, <3>4
  <2>. QED
    BY <1>8, <1>10, <2>2, <2>3 DEF Owned
<1>11. CASE large_return
  <2>1. /\ op.kind = "map" /\ op.i = op.pages /\ m' = Write(m, op.start, op.pages)
    BY <1>3, <1>11 DEF large_return, Stop
  <2>2. op.start \in Owned(Started, own) /\ op.pages \in Nat
    BY <1>8, <1>10, <2>1
  <2>3. PICK mem, x, v : mem = m' /\ x = op.start /\ v = op.pages
    OBVIOUS
  <2>4. mem.ram[KernelDir] = m.ram[KernelDir]
    BY <1>i, <2>1, <2>2, <2>3, TopWrite
  <2>. QED
    BY <2>3, <2>4
<1>12. CASE large_unmap
  <2>1. PICK v, p : v = op.start + op.i * PageWords /\ p = PageOf(op.start) + op.i
    OBVIOUS
  <2>2. op.kind = "unmap" /\ op.i < op.pages /\ m' = UnmapPage(m, dir[Large], v)
    BY <1>12, <2>1 DEF large_unmap
  <2>3. v \in Nat /\ PageOf(v) = p
    BY <1>8, <2>1, <2>2, ByPages
  <2>4. p \in CallPages /\ p \in RangePages(op.start, op.pages)
    BY <1>8, <2>1, <2>2 DEF RangePages, CallPages
  <2>5. p \in own[Large] /\ v \in LowAddress /\ Large \in Started
    BY <1>8, <2>2, <2>3, <2>4 DEF LowAddress
  <2>6. m'.ram[KernelDir] = m.ram[KernelDir]
    BY <1>i, <2>2, <2>3, <2>5, TopUnmap
  <2>. QED
    BY <2>6
<1>13. CASE large_free_return
  <2>1. /\ op.kind = "unmap"
        /\ m' = Write(Write(m, op.start, head[Large]), op.start + 1, op.pages)
    BY <1>3, <1>13 DEF large_free_return, Stop
  <2>2. op.start \in Owned(Started, own) /\ op.start + 1 \in Owned(Started, own)
    BY <1>10, <2>1
  <2>3. head[Large] \in Nat /\ op.pages \in Nat
    BY <1>8, <2>1
  <2>4. PICK mem, mem2, x, y, v, w :
           /\ mem = Write(m, op.start, head[Large]) /\ mem2 = m'
           /\ x = op.start /\ y = op.start + 1 /\ v = head[Large] /\ w = op.pages
    OBVIOUS
  <2>a. /\ Sound(m, dir, Started, own) /\ x \in Owned(Started, own) /\ v \in Nat
        /\ mem = Write(m, x, v) /\ y \in Owned(Started, own) /\ w \in Nat
        /\ mem2 = Write(mem, y, w)
    BY <1>i, <2>1, <2>2, <2>3, <2>4
  <2>5. mem.ram[KernelDir] = m.ram[KernelDir] /\ Sound(mem, dir, Started, own)
    BY ONLY <2>a, TopWrite
  <2>6. mem2.ram[KernelDir] = mem.ram[KernelDir]
    BY ONLY <2>a, <2>5, TopWrite
  <2>. QED
    BY <2>4, <2>5, <2>6
<1>14. CASE user_fill
  <2>1. op \in Calls /\ op.kind = "fill"
    BY <1>i, <1>14 DEF Typed, user_fill
  <2>2. op.of \in live
    BY <2>1, CallKinds
  <2>3. m'.ram[KernelDir] = m.ram[KernelDir]
    BY <1>1, <1>2, <1>14, <2>2, FillWrites
  <2>. QED
    BY <2>3
<1>15. ASSUME NEW size \in Sizes, large_begin(size), m' # m
       PROVE  m'.ram[KernelDir][0] = m.ram[KernelDir][0]
  <2>1. PICK slot : slot = head[Large]
    OBVIOUS
  <2>2. op = Idle /\ SlotFits(slot, PagesFor(size)) /\ m' = UnmapPage(m, dir[Large], slot)
    BY <1>3, <1>15, <2>1 DEF large_begin, Stop
  <2>3. PICK s, d : s = stk[Large] /\ d = dep[Large]
    OBVIOUS
  <2>4. /\ Large \in Started /\ d \in Nat
        /\ Own(stk, dep)[Large] = LargeOwn(Members(s, d))
    BY <1>1, <2>2, <2>3, IdleFacts
  <2>5. slot # NULL
    BY <2>2 DEF SlotFits
  <2>6. slot \in LowAddress /\ slot = s[d] /\ d \in 1 .. d
    BY <1>1, <2>1, <2>3, <2>5, FirstSlot
  <2>7. slot \in Members(s, d)
    BY <2>6 DEF Members
  <2>8. PageOf(slot) \in own[Large]
    BY <1>2, <2>4, <2>7 DEF LargeOwn
  <2>9. m'.ram[KernelDir] = m.ram[KernelDir]
    BY <1>i, <2>2, <2>4, <2>6, <2>8, TopUnmap
  <2>. QED
    BY <2>9
<1>16. ASSUME NEW a \in live, free_small(a)
       PROVE  m'.ram[KernelDir][0] = m.ram[KernelDir][0]
  <2>1. PICK d, x, v : d = Route(a.ptr) /\ x = a.ptr /\ v = head[d]
    OBVIOUS
  <2>2. d \in Domains /\ m' = Write(m, x, v)
    BY <1>3, <1>16, <2>1 DEF free_small, Stop
  <2>3. v \in Nat
    BY <1>i, <2>1, <2>2 DEF Typed, Heaps
  <2>4. ClassOf(a.size) = d
    BY <1>1, <2>1, RouteOfHeld
  <2>5. d # Large
    BY <2>2, HeapNumbers
  <2>6. x \in Owned(Started, own)
    <3>1. Span(a) \subseteq Owned(Started, own)
      BY <1>1, <1>2, KnownWords
    <3>2. x \in Blocks(d)
      BY <1>1, <2>1, <2>2, <2>4 DEF Inv, BlocksSplit, Held
    <3>3. x \in Nat /\ PageOf(x) \in SmallPages(d)
      BY <3>2 DEF Blocks
    <3>4. Started = Heaps
      BY <1>i, HeldFacts
    <3>5. own[d] = SmallPages(d) /\ d \in Started
      BY <1>2, <2>2, <2>5, <3>4 DEF Own, Heaps
    <3>. QED
      BY <3>3, <3>5 DEF Owned
  <2>7. PICK mem : mem = m'
    OBVIOUS
  <2>8. mem.ram[KernelDir] = m.ram[KernelDir]
    BY <1>i, <2>2, <2>3, <2>6, <2>7, TopWrite
  <2>. QED
    BY <2>7, <2>8
<1>17. (\E size \in Sizes : alloc_fast(size)) => m' = m
  BY DEF alloc_fast, Stop
<1>18. (\E a \in live : large_free_begin(a)) => m' = m
  BY <1>i, <1>3 DEF large_free_begin, Stop
<1>19. UNCHANGED vars => m' = m
  BY DEF vars
<1>. QED
  BY <1>4, <1>5, <1>6, <1>7, <1>9, <1>11, <1>12, <1>13, <1>14, <1>15, <1>16, <1>17, <1>18,
     <1>19 DEF Next, Step

\* X are the addresses of the pages P.
AddressesOf(X, P) ==
    /\ \A x \in X : x \in Nat /\ x % PageWords = 0 /\ PageOf(x) \in P
    /\ \A p \in P : \E x \in X : PageOf(x) = p

\* The addresses of a range.
LEMMA RangeAddresses ==
    ASSUME NEW start \in Nat, start % PageWords = 0, NEW n \in Nat
    PROVE  AddressesOf(LargePages(start, n), RangePages(start, n))
<1>1. /\ \A x \in LargePages(start, n) :
            x \in Nat /\ x % PageWords = 0 /\ PageOf(x) \in RangePages(start, n)
      /\ {PageOf(x) : x \in LargePages(start, n)} = RangePages(start, n)
  BY RangeStarts
<1>2. \A p \in RangePages(start, n) : \E x \in LargePages(start, n) : PageOf(x) = p
  BY <1>1
<1>. QED
  BY <1>1, <1>2 DEF AddressesOf

\* The pages of a size class.
LEMMA SmallAddresses ==
    ASSUME Typed, Cursors, NEW d \in Started, d # Large
    PROVE  AddressesOf(OwnPages(d), SmallPages(d))
<1>. DEFINE c == cursor[d]
            k == PageOf(c) - BasePage(d)
            n == (c - Base(d)) \div PageWords
<1>1. /\ d \in Heaps /\ d \in Nat /\ c \in Nat /\ c % PageWords = 0 /\ BasePage(d) <= PageOf(c)
      /\ PageWords \in Nat \ {0}
  BY HeapNumbers DEF Started, Typed, Cursors
<1>2. /\ Base(d) \in Nat /\ PageOf(Base(d)) = BasePage(d) /\ Base(d) % PageWords = 0
      /\ BasePage(d) \in Nat
  BY <1>1, BaseIsPage
<1>3. c = PageWords * PageOf(c) /\ PageOf(c) \in Nat
  <2>1. PICK x \in Nat : x = c
    BY <1>1
  <2>2. x = (x % PageWords) + PageWords * PageOf(x) /\ PageOf(x) \in Nat
    BY AddressParts
  <2>3. x % PageWords = 0
    BY <1>1, <2>1
  <2>4. x = 0 + PageWords * PageOf(x)
    BY <2>2, <2>3
  <2>5. PageWords * PageOf(x) \in Nat
    BY <1>1, <2>2
  <2>6. x = PageWords * PageOf(x)
    BY <2>4, <2>5
  <2>. QED
    BY <2>1, <2>2, <2>6
<1>4. Base(d) = PageWords * BasePage(d)
  <2>1. PICK x \in Nat : x = Base(d)
    BY <1>2
  <2>2. x = (x % PageWords) + PageWords * PageOf(x)
    BY AddressParts
  <2>3. x % PageWords = 0 /\ PageOf(x) = BasePage(d)
    BY <1>2, <2>1
  <2>4. x = 0 + PageWords * BasePage(d)
    BY <2>2, <2>3
  <2>5. PageWords * BasePage(d) \in Nat
    BY <1>1, <1>2
  <2>. QED
    BY <2>1, <2>4, <2>5
<1>5. k \in Nat
  BY <1>1, <1>2, <1>3
<1>6. c - Base(d) = PageWords * k
  BY <1>1, <1>2, <1>3, <1>4
<1>. HIDE DEF k
<1>7. n = k
  <2>. DEFINE x == PageWords * k
  <2>1. x \in Nat /\ 0 \in 0 .. PageWords - 1 /\ x = 0 + PageWords * k
    BY <1>1, <1>5
  <2>. HIDE DEF x
  <2>2. x \div PageWords = k
    BY <1>1, <1>5, <2>1, QuotientUnique
  <2>. QED
    BY <1>6, <2>2 DEF x
<1>8. OwnPages(d) = LargePages(Base(d), k)
  BY <1>7 DEF OwnPages
<1>9. RangePages(Base(d), k) = SmallPages(d)
  BY <1>2, <1>3, <1>5 DEF RangePages, SmallPages, k
<1>10. AddressesOf(LargePages(Base(d), k), RangePages(Base(d), k))
  BY <1>2, <1>5, RangeAddresses
<1>. QED
  BY <1>8, <1>9, <1>10

\* The pages of an allocation of the large domain.
LEMMA HeldAddresses ==
    ASSUME Fits, NEW stk, NEW dep, NEW len, NEW use, NEW from,
           Inv(stk, dep, len, use, from), NEW a \in Held(Large)
    PROVE  AddressesOf(LargePages(a.ptr - 1, HeaderPages(a)), HeldPages(a))
<1>. DEFINE s == a.ptr - 1
            n == PagesFor(a.size)
<1>i. Typed /\ Sound(m, dir, Started, Own(stk, dep)) /\ Uses(use, from)
  BY DEF Inv
<1>1. a \in live /\ a.ptr \in Nat /\ a.size \in Sizes /\ ClassOf(a.size) = Large
  BY <1>i DEF Held, Typed
<1>2. a.ptr % PageWords = 1 /\ WordAt(m, a.ptr - 1) = PagesFor(a.size)
  BY <1>i DEF Uses
<1>3. n \in Nat \ {0}
  BY <1>1, PagesForFacts
<1>4. a.ptr = 1 + PageWords * PageOf(a.ptr) /\ PageOf(a.ptr) \in Nat
  BY <1>1, <1>2, AddressParts
<1>5. s \in Nat /\ s = 0 + PageWords * PageOf(a.ptr) /\ 0 \in Offset
  BY <1>1, <1>4, HeapNumbers DEF Offset
<1>. HIDE DEF s, n
<1>6. PageOf(s) = PageOf(a.ptr) /\ s % PageWords = 0
  BY <1>4, <1>5, AddressAt
<1>7. RangePages(s, n) = HeldPages(a)
  BY <1>6 DEF RangePages, HeldPages, n
<1>8. PageOf(s) \in HeldPages(a)
  BY <1>3, <1>4, <1>6, <1>7 DEF RangePages
<1>9. s \in Owned(Started, Own(stk, dep))
  BY <1>1, <1>5, <1>8, KnownWords DEF Span
<1>10. Read(m, s) = WordAt(m, s)
  BY <1>i, <1>9, OwnedAddress
<1>11. HeaderPages(a) = n
  BY <1>2, <1>10 DEF s, n, HeaderPages
<1>12. AddressesOf(LargePages(s, n), RangePages(s, n))
  BY <1>3, <1>5, <1>6, RangeAddresses
<1>. QED
  BY <1>7, <1>11, <1>12 DEF s

\* The part of OwnPages(Large) that the call in progress has mapped.
CallAddresses ==
    CASE op.kind = "map"   -> LargePages(op.start, op.i)
      [] op.kind = "unmap" -> LargePages(op.start, op.pages)
                                 \ {op.start + j * PageWords : j \in 1 .. op.i - 1}
      [] OTHER -> {}

\* Its pages.
LEMMA CallAddressesOf ==
    ASSUME Typed, NEW use, CallUses(use)
    PROVE  AddressesOf(CallAddresses, CallPages)
<1>1. CASE op.kind = "map"
  <2>1. op.start \in Nat /\ op.i \in Nat /\ op.start % PageWords = 0
    BY <1>1, CallKinds DEF Typed, CallUses
  <2>2. CallAddresses = LargePages(op.start, op.i)
    BY <1>1, Zenon DEF CallAddresses
  <2>3. CallPages = RangePages(op.start, op.i)
    BY <1>1 DEF CallPages
  <2>4. AddressesOf(LargePages(op.start, op.i), RangePages(op.start, op.i))
    BY <2>1, RangeAddresses
  <2>. QED
    BY <2>2, <2>3, <2>4
<1>2. CASE op.kind = "unmap"
  <2>1. PICK s, n, i : s = op.start /\ n = op.pages /\ i = op.i
    OBVIOUS
  <2>2. s \in Nat /\ n \in Nat /\ i \in Nat /\ s % PageWords = 0
    BY <1>2, <2>1, CallKinds DEF Typed, CallUses
  <2>. DEFINE gone == {s + j * PageWords : j \in 1 .. i - 1}
              done == PageOf(s) + 1 .. PageOf(s) + i - 1
              X == LargePages(s, n)
              P == RangePages(s, n)
  <2>3. CallAddresses = X \ gone
    BY <1>2, <2>1, Zenon DEF CallAddresses
  <2>4. CallPages = P \ done
    BY <1>2, <2>1 DEF CallPages
  <2>5. PageOf(s) \in Nat
    BY <2>2, AddressParts
  <2>6. AddressesOf(X, P)
    BY <2>2, RangeAddresses
  <2>7. ASSUME NEW j \in 1 .. i - 1
        PROVE  /\ s + j * PageWords \in Nat /\ PageOf(s + j * PageWords) = PageOf(s) + j
               /\ (s + j * PageWords) % PageWords = 0
    <3>1. j \in Nat
      BY <2>2
    <3>. QED
      BY <2>2, <3>1, ByPages
  <2>8. ASSUME NEW x \in X PROVE x \in gone <=> PageOf(x) \in done
    <3>1. x \in Nat /\ x % PageWords = 0
      BY <2>6 DEF AddressesOf
    <3>2. ASSUME x \in gone PROVE PageOf(x) \in done
      <4>1. PICK j \in 1 .. i - 1 : x = s + j * PageWords
        BY <3>2
      <4>. QED
        BY <2>2, <2>5, <2>7, <4>1
    <3>3. ASSUME PageOf(x) \in done PROVE x \in gone
      <4>. DEFINE j == PageOf(x) - PageOf(s)
      <4>1. j \in 1 .. i - 1 /\ PageOf(x) = PageOf(s) + j
        BY <2>2, <2>5, <3>3
      <4>. HIDE DEF j
      <4>2. s + j * PageWords \in Nat /\ PageOf(s + j * PageWords) = PageOf(x)
            /\ (s + j * PageWords) % PageWords = 0
        BY <2>7, <4>1
      <4>. DEFINE y == s + j * PageWords
      <4>3. y \in Nat /\ PageOf(y) = PageOf(x) /\ y % PageWords = x % PageWords
        BY <3>1, <4>2
      <4>. HIDE DEF y
      <4>4. x = y
        BY <3>1, <4>3, AddressParts
      <4>. QED
        BY <4>1, <4>4 DEF y
    <3>. QED
      BY <3>2, <3>3
  <2>. HIDE DEF gone, done, X, P
  <2>9. AddressesOf(X \ gone, P \ done)
    BY <2>6, <2>8 DEF AddressesOf
  <2>. QED
    BY <2>3, <2>4, <2>9
<1>3. CASE op.kind \notin {"map", "unmap"}
  <2>1. CallAddresses = {}
    BY <1>3, Zenon DEF CallAddresses
  <2>2. CallPages = {}
    BY <1>3 DEF CallPages
  <2>. QED
    BY <2>1, <2>2 DEF AddressesOf
<1>. QED
  BY <1>1, <1>2, <1>3

\* What the code has mapped for a heap, as addresses and as pages.
LEMMA OwnAddresses ==
    ASSUME Fits, NEW stk, NEW dep, NEW len, NEW use, NEW from,
           Inv(stk, dep, len, use, from), NEW h \in Started
    PROVE  AddressesOf(OwnPages(h), Own(stk, dep)[h])
<1>i. /\ Typed /\ BootOrder /\ Cursors /\ Lists(stk, dep)
      /\ Uses(use, from) /\ CallUses(use)
  BY DEF Inv
<1>1. h \in Heaps /\ Large \in Heaps
  BY HeapNumbers DEF Started, Large
<1>2. CASE h # Large
  <2>1. Own(stk, dep)[h] = SmallPages(h)
    BY <1>1, <1>2 DEF Own
  <2>. QED
    BY <1>i, <1>2, <2>1, SmallAddresses
<1>3. CASE h = Large
  <2>. DEFINE M == Members(stk[Large], dep[Large])
              X1 == UNION {LargePages(a.ptr - 1, HeaderPages(a)) : a \in Held(Large)}
              P1 == UNION {HeldPages(a) : a \in Held(Large)}
  <2>1. Own(stk, dep)[h] = P1 \cup {PageOf(x) : x \in M} \cup {PageOf(x) : x \in lost} \cup CallPages
    BY <1>1, <1>3 DEF Own, LargeOwn
  <2>2. Slots = M
    BY <1>1, SlotBound, ListWalked DEF Slots
  <2>3. OwnPages(h) = X1 \cup Slots \cup lost \cup CallAddresses
    BY <1>3, Zenon DEF OwnPages, CallAddresses
  <2>4. AddressesOf(X1, P1)
    <3>1. ASSUME NEW a \in Held(Large)
          PROVE  AddressesOf(LargePages(a.ptr - 1, HeaderPages(a)), HeldPages(a))
      BY HeldAddresses
    <3>. QED
      BY <3>1 DEF AddressesOf
  <2>5. \A x \in M : x \in Nat /\ x % PageWords = 0
    <3>1. \A x \in M : x % PageWords = 0
      BY KnownWords
    <3>2. M \subseteq Owned(Started, Own(stk, dep))
      BY <1>1, KnownWords
    <3>. QED
      BY <3>1, <3>2 DEF Owned
  <2>6. \A x \in lost : x \in Nat /\ x % PageWords = 0
    BY <1>i DEF Uses, Typed
  <2>7. AddressesOf(CallAddresses, CallPages)
    BY <1>i, CallAddressesOf
  <2>. HIDE DEF X1, P1, M
  <2>8. AddressesOf(X1 \cup M \cup lost \cup CallAddresses,
                    P1 \cup {PageOf(x) : x \in M} \cup {PageOf(x) : x \in lost} \cup CallPages)
    BY <2>4, <2>5, <2>6, <2>7 DEF AddressesOf
  <2>. QED
    BY <2>1, <2>2, <2>3, <2>8
<1>. QED
  BY <1>2, <1>3

\* What is named one to one counts the same.
LEMMA CountsAlike ==
    ASSUME NEW S, NEW T, IsFiniteSet(T), NEW f \in [S -> T],
           \A x, y \in S : f[x] = f[y] => x = y,
           \A t \in T : \E x \in S : f[x] = t
    PROVE  IsFiniteSet(S) /\ Cardinality(S) = Cardinality(T)
<1>1. f \in Injection(S, T) /\ f \in Surjection(S, T)
  BY DEF Injection, Surjection, IsInjective
<1>. QED
  BY <1>1, FS_Injection

\* Sets with no common member add up.
LEMMA CountsAdd ==
    ASSUME NEW S, NEW T, IsFiniteSet(S), IsFiniteSet(T), S \cap T = {}
    PROVE  /\ IsFiniteSet(S \cup T) /\ Cardinality(S) \in Nat /\ Cardinality(T) \in Nat
           /\ Cardinality(S \cup T) = Cardinality(S) + Cardinality(T)
<1>1. Cardinality(S \cap T) = 0
  BY FS_EmptySet
<1>2. Cardinality(S) \in Nat /\ Cardinality(T) \in Nat
  BY FS_CardinalityType
<1>3. /\ IsFiniteSet(S \cup T)
      /\ Cardinality(S \cup T) = Cardinality(S) + Cardinality(T) - Cardinality(S \cap T)
  BY FS_Union
<1>. QED
  BY <1>1, <1>2, <1>3

\* The entries the MMU finds for a page of a heap.
LEMMA OwnEntry ==
    ASSUME NEW own, Sound(m, dir, Started, own), NEW h \in Started,
           NEW x \in Nat, PageOf(x) \in own[h]
    PROVE  /\ Present(PageEntry(m.ram, dir[h], x))
           /\ PageEntry(m.ram, dir[h], x) = PageEntry(m.ram, KernelDir, x)
           /\ FrameOf(PageEntry(m.ram, dir[h], x)) = FrameAt(m.ram, PageOf(x))
<1>. DEFINE p == PageOf(x)
            f == FrameAt(m.ram, p)
            Dirs == DirSet(dir, Started)
<1>1. p \in LowPages /\ DataPage(m, Dirs, dir[h], p)
  BY DEF Sound
<1>2. x \in LowAddress
  BY <1>1 DEF LowAddress
<1>3. DirIndex(x) = p \div TableEntries /\ TableIndex(x) = p % TableEntries
  BY <1>2, Indices
<1>4. p \div TableEntries \in LowEntries
  BY <1>1, PageSlots DEF LowEntries
<1>5. dir[h] \in Dirs /\ KernelDir \in Dirs
  BY DEF DirSet
<1>6. m.bitmap \in SUBSET Frame /\ Tables(m.bitmap, m.ram, Dirs)
  BY DEF Sound, Tables
<1>. HIDE DEF p, f, Dirs
<1>7. ASSUME NEW D \in Dirs, Present(PdeOf(m.ram, D, p))
      PROVE  PageEntry(m.ram, D, x) = PteOf(m.ram, D, p)
  <2>1. FrameOf(PdeOf(m.ram, D, p)) \in Frame
    BY <1>4, <1>6, <1>7 DEF Tables, PdeOf
  <2>2. PdeOf(m.ram, D, p) = m.ram[D][DirIndex(x)]
    BY <1>3 DEF PdeOf
  <2>3. PteOf(m.ram, D, p) = m.ram[FrameOf(PdeOf(m.ram, D, p))][TableIndex(x)]
    BY <1>3 DEF PteOf
  <2>. QED
    BY <1>7, <2>1, <2>2, <2>3, Zenon DEF PageEntry
<1>8. /\ PageEntry(m.ram, dir[h], x) = Entry(f, PAGE_KERNEL)
      /\ PageEntry(m.ram, KernelDir, x) = Entry(f, PAGE_KERNEL)
  BY <1>1, <1>5, <1>7 DEF DataPage, f
<1>9. f \in Nat
  BY <1>1, <1>6 DEF DataPage, Frame, f
<1>. QED
  BY <1>8, <1>9, EntryNames DEF f, p

\* The frames of the pages of the heaps.
DataFrames == UNION {{FrameOf(PageEntry(m.ram, dir[h], p)) : p \in OwnPages(h)} : h \in Started}
TableFrames == {TableFrame(s) : s \in TableSlots}
DirFrames == {dir[h] : h \in Started}

\* The four uses of a frame.
LEMMA FourUses ==
    ASSUME NEW own, Sound(m, dir, Started, own), TopClear,
           \A h \in Started : AddressesOf(OwnPages(h), own[h])
    PROVE  /\ m.bitmap = Image \cup DirFrames \cup TableFrames \cup DataFrames
           /\ Image \cap DirFrames = {}
           /\ (Image \cup DirFrames) \cap TableFrames = {}
           /\ (Image \cup DirFrames \cup TableFrames) \cap DataFrames = {}
           /\ \A f \in DataFrames : \E h \in Started : \E x \in OwnPages(h) :
                 f = FrameAt(m.ram, PageOf(x))
<1>. DEFINE Dirs == DirSet(dir, Started)
<1>1. /\ Tables(m.bitmap, m.ram, Dirs) /\ m.bitmap \in SUBSET Frame /\ Image \subseteq m.bitmap
      /\ Dirs \subseteq m.bitmap
  BY DEF Sound, Tables
<1>2. KernelDir \in Image
  BY ImageFrames3
<1>3. Dirs = {KernelDir} \cup DirFrames
  BY DEF DirSet, DirFrames
<1>4. \A D \in DirFrames : D \notin Image
  BY <1>1, <1>3 DEF Sound, Tables, DirFrames
<1>5. TableSlots = {s \in Dirs \X LowEntries : Present(m.ram[s[1]][s[2]])}
  BY DEF TableSlots, DirSet, LowEntries
<1>. HIDE DEF Dirs
<1>6. \A f : f \in TableFrames <=> IsTable(m.ram, Dirs, f)
  <2>. TAKE f
  <2>1. ASSUME f \in TableFrames PROVE IsTable(m.ram, Dirs, f)
    <3>1. PICK s \in TableSlots : f = TableFrame(s)
      BY <2>1 DEF TableFrames
    <3>2. s \in Dirs \X LowEntries /\ Present(m.ram[s[1]][s[2]])
      BY <1>5
    <3>. QED
      BY <3>1, <3>2 DEF IsTable, TableFrame
  <2>2. ASSUME IsTable(m.ram, Dirs, f) PROVE f \in TableFrames
    <3>1. PICK D \in Dirs, i \in LowEntries : Present(m.ram[D][i]) /\ FrameOf(m.ram[D][i]) = f
      BY <2>2 DEF IsTable
    <3>. DEFINE s == <<D, i>>
    <3>2. s \in Dirs \X LowEntries /\ s[1] = D /\ s[2] = i
      OBVIOUS
    <3>. HIDE DEF s
    <3>3. s \in TableSlots /\ TableFrame(s) = f
      BY <1>5, <3>1, <3>2 DEF TableFrame
    <3>. QED
      BY <3>3 DEF TableFrames
  <2>. QED
    BY <2>1, <2>2
<1>7. \A f \in TableFrames : f \in m.bitmap /\ f \notin Dirs /\ f \notin Image
  <2>. SUFFICES ASSUME NEW D \in Dirs, NEW i \in LowEntries, Present(m.ram[D][i])
                PROVE  /\ FrameOf(m.ram[D][i]) \in m.bitmap \ Dirs
                       /\ FrameOf(m.ram[D][i]) \notin Image
    BY <1>6 DEF IsTable
  <2>. QED
    BY <1>1 DEF Tables, TopClear
<1>8. ASSUME NEW h \in Started, NEW x \in OwnPages(h)
      PROVE  /\ FrameOf(PageEntry(m.ram, dir[h], x)) = FrameAt(m.ram, PageOf(x))
             /\ PageOf(x) \in own[h]
  <2>1. x \in Nat /\ PageOf(x) \in own[h]
    BY DEF AddressesOf
  <2>. QED
    BY <2>1, OwnEntry
<1>9. \A f \in DataFrames : \E h \in Started : \E x \in OwnPages(h) :
         f = FrameAt(m.ram, PageOf(x))
  BY <1>8 DEF DataFrames
<1>10. ASSUME NEW h \in Started, NEW p \in own[h]
       PROVE  FrameAt(m.ram, p) \in DataFrames
  <2>1. PICK x \in OwnPages(h) : PageOf(x) = p
    BY DEF AddressesOf
  <2>. QED
    BY <1>8, <2>1 DEF DataFrames
<1>11. ASSUME NEW f \in DataFrames
       PROVE  f \in m.bitmap \ (Image \cup Dirs) /\ f \notin TableFrames
  <2>1. PICK h \in Started : \E x \in OwnPages(h) : f = FrameAt(m.ram, PageOf(x))
    BY <1>9
  <2>2. PICK x \in OwnPages(h) : f = FrameAt(m.ram, PageOf(x))
    BY <2>1
  <2>3. DataPage(m, Dirs, dir[h], PageOf(x))
    BY <1>8 DEF Sound, Dirs
  <2>. QED
    BY <1>6, <2>2, <2>3 DEF DataPage
<1>12. \A f \in m.bitmap :
          f \in Image \cup Dirs \/ f \in TableFrames \/ f \in DataFrames
  <2>1. \A f \in m.bitmap :
           \/ f \in Image \cup Dirs
           \/ IsTable(m.ram, Dirs, f)
           \/ \E h \in Started : \E p \in own[h] : FrameAt(m.ram, p) = f
    BY DEF Sound, Dirs
  <2>. QED
    BY <1>6, <1>10, <2>1
<1>13. m.bitmap = Image \cup DirFrames \cup TableFrames \cup DataFrames
  <2>1. m.bitmap \subseteq Image \cup DirFrames \cup TableFrames \cup DataFrames
    BY <1>2, <1>3, <1>12
  <2>2. Image \cup DirFrames \cup TableFrames \cup DataFrames \subseteq m.bitmap
    BY <1>1, <1>3, <1>7, <1>11
  <2>. QED
    BY <2>1, <2>2
<1>. QED
  BY <1>3, <1>4, <1>7, <1>9, <1>11, <1>13

\* A state of the invariant has its frames partitioned.
LEMMA InvPartitioned ==
    ASSUME Fits, IInv, TopClear
    PROVE  FramesPartitioned
<1>1. PICK stk, dep, len, use, from : Inv(stk, dep, len, use, from)
  BY DEF IInv
<1>2. PICK own : own = Own(stk, dep)
  OBVIOUS
<1>3. Sound(m, dir, Started, own)
  BY <1>1, <1>2 DEF Inv
<1>4. \A h \in Started : AddressesOf(OwnPages(h), own[h])
  BY <1>1, <1>2, OwnAddresses
<1>5. ASSUME NEW h \in Started, NEW x \in OwnPages(h)
      PROVE  /\ Present(PageEntry(m.ram, dir[h], x))
             /\ PageEntry(m.ram, dir[h], x) = PageEntry(m.ram, KernelDir, x)
             /\ FrameOf(PageEntry(m.ram, dir[h], x)) = FrameAt(m.ram, PageOf(x))
             /\ x \in Nat /\ x % PageWords = 0 /\ PageOf(x) \in own[h]
  <2>1. x \in Nat /\ PageOf(x) \in own[h] /\ x % PageWords = 0
    BY <1>4 DEF AddressesOf
  <2>. QED
    BY <1>3, <2>1, OwnEntry
<1>6. /\ m.bitmap = Image \cup DirFrames \cup TableFrames \cup DataFrames
      /\ Image \cap DirFrames = {}
      /\ (Image \cup DirFrames) \cap TableFrames = {}
      /\ (Image \cup DirFrames \cup TableFrames) \cap DataFrames = {}
      /\ \A f \in DataFrames : \E h \in Started : \E x \in OwnPages(h) :
            f = FrameAt(m.ram, PageOf(x))
  BY <1>3, <1>4, FourUses
<1>7. IsFiniteSet(m.bitmap)
  <2>1. IsFiniteSet(Frame)
    BY FrameConstants, FS_Interval DEF Frame
  <2>2. m.bitmap \in SUBSET Frame
    BY <1>3 DEF Sound, Tables
  <2>. QED
    BY <2>1, <2>2, FS_Subset
<1>8. /\ IsFiniteSet(Image) /\ IsFiniteSet(DirFrames)
      /\ IsFiniteSet(TableFrames) /\ IsFiniteSet(DataFrames)
  BY <1>6, <1>7, FS_Subset
<1>9. Cardinality(Image) = ImageFrames
  <2>1. ImageFrames \in Nat
    BY FrameConstants
  <2>. QED
    BY <2>1, FS_Interval DEF Image
<1>10. Cardinality(Started) = Cardinality(DirFrames)
  <2>. DEFINE g == [h \in Started |-> dir[h]]
  <2>1. /\ g \in [Started -> DirFrames]
        /\ \A h, k \in Started : g[h] = g[k] => h = k
        /\ \A t \in DirFrames : \E h \in Started : g[h] = t
    BY <1>3 DEF DirFrames, Sound
  <2>. HIDE DEF g
  <2>. QED
    BY <1>8, <2>1, CountsAlike
<1>11. Cardinality(TableSlots) = Cardinality(TableFrames)
  <2>. DEFINE g == [s \in TableSlots |-> TableFrame(s)]
  <2>1. \A s, t \in TableSlots : TableFrame(s) = TableFrame(t) => s = t
    <3>. SUFFICES ASSUME NEW s \in TableSlots, NEW t \in TableSlots,
                         TableFrame(s) = TableFrame(t)
                  PROVE  s = t
      OBVIOUS
    <3>1. /\ s \in DirSet(dir, Started) \X LowEntries /\ Present(m.ram[s[1]][s[2]])
          /\ t \in DirSet(dir, Started) \X LowEntries /\ Present(m.ram[t[1]][t[2]])
      BY DEF TableSlots, DirSet, LowEntries
    <3>2. s[1] = t[1] /\ s[2] = t[2]
      BY <1>3, <3>1 DEF Sound, Tables, TableFrame
    <3>. QED
      BY <3>1, <3>2
  <2>2. /\ g \in [TableSlots -> TableFrames]
        /\ \A s, t \in TableSlots : g[s] = g[t] => s = t
        /\ \A f \in TableFrames : \E s \in TableSlots : g[s] = f
    BY <2>1 DEF TableFrames
  <2>. HIDE DEF g
  <2>. QED
    BY <1>8, <2>2, CountsAlike
<1>12. Cardinality(UNION {OwnPages(h) : h \in Started}) = Cardinality(DataFrames)
  <2>. DEFINE X == UNION {OwnPages(h) : h \in Started}
              g == [x \in X |-> FrameAt(m.ram, PageOf(x))]
  <2>1. \A x \in X : \E h \in Started : x \in OwnPages(h)
    OBVIOUS
  <2>2. \A x, y \in X : FrameAt(m.ram, PageOf(x)) = FrameAt(m.ram, PageOf(y)) => x = y
    <3>. SUFFICES ASSUME NEW x \in X, NEW y \in X,
                         FrameAt(m.ram, PageOf(x)) = FrameAt(m.ram, PageOf(y))
                  PROVE  x = y
      OBVIOUS
    <3>1. PICK h \in Started : x \in OwnPages(h)
      BY <2>1
    <3>2. PICK k \in Started : y \in OwnPages(k)
      BY <2>1
    <3>3. /\ x \in Nat /\ x % PageWords = 0 /\ PageOf(x) \in own[h]
          /\ y \in Nat /\ y % PageWords = 0 /\ PageOf(y) \in own[k]
      BY <1>5, <3>1, <3>2
    <3>4. PageOf(x) = PageOf(y)
      BY <1>3, <3>3 DEF Sound
    <3>5. /\ x = (x % PageWords) + PageWords * PageOf(x)
          /\ y = (y % PageWords) + PageWords * PageOf(y)
      BY <3>3, AddressParts
    <3>. QED
      BY <3>3, <3>4, <3>5
  <2>3. \A x \in X : FrameAt(m.ram, PageOf(x)) \in DataFrames
    <3>. SUFFICES ASSUME NEW h \in Started, NEW x \in OwnPages(h)
                  PROVE  FrameAt(m.ram, PageOf(x)) \in DataFrames
      OBVIOUS
    <3>. QED
      BY <1>5 DEF DataFrames
  <2>4. \A f \in DataFrames : \E x \in X : FrameAt(m.ram, PageOf(x)) = f
    BY <1>6
  <2>. HIDE DEF X
  <2>5. /\ g \in [X -> DataFrames]
        /\ \A x, y \in X : g[x] = g[y] => x = y
        /\ \A f \in DataFrames : \E x \in X : g[x] = f
    BY <2>2, <2>3, <2>4
  <2>. HIDE DEF g
  <2>6. Cardinality(X) = Cardinality(DataFrames)
    BY <1>8, <2>5, CountsAlike
  <2>. QED
    BY <2>6 DEF X
<1>13. Cardinality(m.bitmap) = ((Cardinality(Image) + Cardinality(DirFrames))
                                + Cardinality(TableFrames)) + Cardinality(DataFrames)
  <2>1. /\ IsFiniteSet(Image \cup DirFrames)
        /\ Cardinality(Image \cup DirFrames) = Cardinality(Image) + Cardinality(DirFrames)
    BY <1>6, <1>8, CountsAdd
  <2>. DEFINE S == Image \cup DirFrames
              T == S \cup TableFrames
  <2>2. IsFiniteSet(S) /\ S \cap TableFrames = {} /\ T \cap DataFrames = {}
    BY <1>6, <2>1
  <2>. HIDE DEF S
  <2>3. IsFiniteSet(T) /\ Cardinality(T) = Cardinality(S) + Cardinality(TableFrames)
    BY <1>8, <2>2, CountsAdd
  <2>. HIDE DEF T
  <2>4. Cardinality(T \cup DataFrames) = Cardinality(T) + Cardinality(DataFrames)
    BY <1>8, <2>2, <2>3, CountsAdd
  <2>5. m.bitmap = T \cup DataFrames
    BY <1>6 DEF S, T
  <2>. QED
    BY <2>1, <2>3, <2>4, <2>5 DEF S
<1>14. Cardinality(m.bitmap) =
          ImageFrames + Cardinality(Started) + Cardinality(TableSlots)
          + Cardinality(UNION {OwnPages(h) : h \in Started})
  BY <1>9, <1>10, <1>11, <1>12, <1>13
<1>15. m.bitmap = Image \cup {dir[h] : h \in Started}
                  \cup {TableFrame(s) : s \in TableSlots}
                  \cup UNION {{FrameOf(PageEntry(m.ram, dir[h], p)) : p \in OwnPages(h)}
                              : h \in Started}
  BY <1>6 DEF DirFrames, TableFrames, DataFrames
<1>. QED
  BY <1>5, <1>14, <1>15 DEF FramesPartitioned

\* Every frame in use has one use: the image, one heap's directory, one page
\* table, or one page of one heap, that the heap's directory and the kernel's both
\* map to it, in every order of allocations and frees.  So no frame is shared, none
\* is leaked by map_page, kmalloc_large or kfree_large, and none is used while it
\* counts as free.  A region must hold the pages of one table: the first entry of
\* the kernel's directory is then never used, and with it the static table, which
\* is a frame of the image.
THEOREM FramesHaveOneUse ==
    ASSUME Fits, TableEntries <= RegionPages
    PROVE  Spec /\ []Supplied => []FramesPartitioned
<1>1. Spec /\ []Supplied => [](IInv /\ Sane)
  BY HeapInvariant
<1>2. Init => TopClear
  <2>. SUFFICES ASSUME Init PROVE TopClear
    OBVIOUS
  <2>1. KernelDir \in Frame /\ KernelDir \in Image /\ 0 \in Offset /\ ~(0 >= KernelEntry)
    BY ImageFrames3, PagingAssumption DEF Offset
  <2>2. m.ram = KernelMemory(ResetWord)
    BY DEF Init
  <2>3. m.ram[KernelDir][0] = 0
    BY <2>1, <2>2 DEF KernelMemory
  <2>. QED
    BY <2>3 DEF TopClear, Present
<1>3. TopClear /\ IInv /\ IInv' /\ Sane /\ Sane' /\ [Next]_vars => TopClear'
  BY TopStep DEF TopClear
<1>4. IInv /\ TopClear => FramesPartitioned
  BY InvPartitioned
<1>. QED
  BY <1>1, <1>2, <1>3, <1>4, PTL DEF Spec
=============================================================================
