---------------------------- MODULE HeapDomains ----------------------------
(***************************************************************************)
(* The Raxzus Flow heap (src/lib/heap_domain.c): one domain per size class *)
(* with an intrusive LIFO free list, and the large domain of whole pages,  *)
(* over the page tables of module Paging and the frames of the physical    *)
(* memory manager.                                                         *)
(*                                                                         *)
(* The heap runs to completion: it is called from the boot path and from   *)
(* the keyboard interrupt handler, which is never entered twice            *)
(* (HandlersSerial of module Interrupts).  The calls on one size class     *)
(* are one action each; the page loops of boot, kmalloc_large and          *)
(* kfree_large are one action per iteration, with op for the local         *)
(* variables.  Callers are the environment: they ask for any size of       *)
(* Sizes, fill what they got at once, and free what they hold, once (the   *)
(* kfree macro clears the pointer).                                        *)
(***************************************************************************)
EXTENDS Paging, Sequences

CONSTANTS
    ClassSize,    \* block sizes in words, ascending (64 .. 4096 bytes)
    RegionPages,  \* pages of a domain's virtual region (256 MB)
    PremapPages,  \* PREMAP_PAGES
    ResetWord,    \* what memory outside the image holds at reset
    Sizes,        \* sizes the callers ask for
    MaxLive,      \* bound: allocations held at a time
    MaxLargePages \* bound: pages the large domain's cursor may pass

Domains == 1 .. Len(ClassSize)
Large   == Len(ClassSize) + 1
Heaps   == Domains \cup {Large}

ASSUME HeapAssumption ==
    /\ ClassSize \in Seq(Nat \ {0}) /\ ClassSize # <<>>
    /\ \A d \in Domains : PageWords % ClassSize[d] = 0
    /\ \A d \in Domains : d > 1 => ClassSize[d - 1] < ClassSize[d]
    /\ RegionPages \in Nat \ {0}
    /\ PremapPages \in Nat /\ PremapPages <= RegionPages
    /\ Sizes \subseteq Word /\ MaxLive \in Nat
    /\ MaxLargePages \in Nat /\ ResetWord \in Word
    /\ Large * RegionPages + MaxLargePages <= KernelEntry * TableEntries

VARIABLES
    m,       \* the machine: frame bitmap and physical memory
    dir,     \* page_directory of each heap, as a frame
    cursor,  \* next_virt_addr of each heap
    head,    \* next_free_block of each domain, next_free_virt of Large
    live,    \* ghost: the allocations callers hold
    lost,    \* ghost: pages a kmalloc_large mapped before it gave up
    op,      \* the call in progress and its local variables
    cpu      \* "run"; "hung" in a while(1); "fault" in a page fault

heapVars == <<dir, cursor, head>>
vars == <<m, dir, cursor, head, live, lost, op, cpu>>

NULL == 0
Idle == [kind |-> "idle"]
Base(h) == h * RegionPages * PageWords

\* Mutant: an address test that leaves out the first block of a region.
RouteAboveBase(addr) ==
    IF addr > Base(Large) THEN Large
    ELSE IF \E d \in Domains : addr > Base(d) /\ addr < Base(d + 1)
         THEN CHOOSE d \in Domains : addr > Base(d) /\ addr < Base(d + 1)
         ELSE 0

\* kmalloc's chain of size tests.
ClassOf(size) ==
    IF \E d \in Domains : size <= ClassSize[d]
    THEN CHOOSE d \in Domains :
             /\ size <= ClassSize[d]
             /\ \A e \in Domains : size <= ClassSize[e] => d <= e
    ELSE Large

\* kfree_heap's chain of address tests; 0 when no test matches.
Route(addr) ==
    IF addr >= Base(Large) THEN Large
    ELSE IF \E d \in Domains : addr >= Base(d) /\ addr < Base(d + 1)
         THEN CHOOSE d \in Domains : addr >= Base(d) /\ addr < Base(d + 1)
         ELSE 0

\* What a caller writes into its memory: each word its own address.  Half of
\* these words would pass for present page-table entries.
Sentinel(addr) == addr

\* init_paging and init_pmm have run, in the order of kernel_main: the kernel's
\* directory maps the kernel half only, the image is marked, and memory holds
\* what it held at reset.
Init ==
    /\ m = [bitmap |-> Image, ram |-> KernelMemory(ResetWord), tlb |-> NoneCached]
    /\ dir = [h \in Heaps |-> 0]
    /\ cursor = [h \in Heaps |-> 0]
    /\ head = [h \in Heaps |-> NULL]
    /\ live = {} /\ lost = {}
    /\ op = [kind |-> "init", heap |-> 1]
    /\ cpu = "run"
-----------------------------------------------------------------------------
(* Boot: init_all_heaps. *)

\* One get_next_free_process_frame: the frame, and whether the scan hangs.
ProcessFrame == NextProcessFrame(m.bitmap)
ScanHangs    == ProcessFrameHangs(m.bitmap)

Stop(state) == cpu' = state /\ UNCHANGED <<m, dir, cursor, head, live, lost, op>>

\* Mutant: the link loop runs over the last block of the page too.
CarveRunsOver(mem, d, virt, last) ==
    LET f == Translate(mem, virt)[1]
        b == ClassSize[d]
    IN  [mem EXCEPT !.ram[f] =
            [i \in Offset |-> IF i % b # 0 THEN @[i] ELSE virt + i + b]]

\* The pages of a size class start as a chain of blocks that ends in last.
Carve(mem, d, virt, last) ==
    LET f == Translate(mem, virt)[1]
        b == ClassSize[d]
    IN  [mem EXCEPT !.ram[f] =
            [i \in Offset |-> IF i % b # 0 THEN @[i]
                              ELSE IF i + b = PageWords THEN last
                              ELSE virt + i + b]]

\* Mutants: one of the two mappings is forgotten; the page is not flushed.
DoubleMapOwnOnly(h, virt, f) ==
    {MapPage([m EXCEPT !.bitmap = SetFrame(@, f)], dir[h], virt, f)}
DoubleMapKernelOnly(h, virt, f) ==
    {Invlpg(MapPage([m EXCEPT !.bitmap = SetFrame(@, f)], KernelDir, virt, f), virt)}
DoubleMapNoFlush(h, virt, f) ==
    LET taken == [m EXCEPT !.bitmap = SetFrame(@, f)]
    IN  {MapPage(own, KernelDir, virt, f) :
            own \in {MapPage(taken, dir[h], virt, f)}}

\* The machine after frame f was taken for a data page, mapped in the heap's
\* own directory, then in the kernel's, and the page flushed from the TLB.  (A
\* set of one machine, so that an action names the result once with \E.)
DoubleMap(h, virt, f) ==
    LET taken == [m EXCEPT !.bitmap = SetFrame(@, f)]
    IN  {Invlpg(MapPage(own, KernelDir, virt, f), virt) :
            own \in {MapPage(taken, dir[h], virt, f)}}

\* The first half of init_heap_domain, and init_large_domain.
init_heap ==
    /\ cpu = "run" /\ op.kind = "init"
    /\ LET h == op.heap
           f == NextKernelFrame(m.bitmap)
       IN  IF f = NoFrame THEN Stop("hung")
           ELSE /\ m' = NewDirectory(m, f)
                /\ dir' = [dir EXCEPT ![h] = f]
                /\ cursor' = [cursor EXCEPT ![h] = Base(h)]
                /\ head' = [head EXCEPT ![h] = NULL]
                /\ op' = IF h = Large THEN Idle
                         ELSE [kind |-> "premap", heap |-> h, i |-> 0]
                /\ UNCHANGED <<live, lost, cpu>>

\* Mutant: p <= PREMAP_PAGES.
premap_once_more ==
    /\ cpu = "run" /\ op.kind = "premap"
    /\ LET h == op.heap
           f == ProcessFrame
           virt == cursor[h]
       IN  IF op.i = PremapPages + 1
           THEN /\ op' = [kind |-> "init", heap |-> h + 1]
                /\ UNCHANGED <<m, dir, cursor, head, live, lost, cpu>>
           ELSE /\ \E mem \in DoubleMap(h, virt, f) :
                      m' = Carve(mem, h, virt, head[h])
                /\ head' = [head EXCEPT ![h] = virt]
                /\ cursor' = [cursor EXCEPT ![h] = @ + PageWords]
                /\ op' = [op EXCEPT !.i = @ + 1]
                /\ UNCHANGED <<dir, live, lost, cpu>>

\* One round of the pre-map loop of init_heap_domain, or its end.
premap ==
    /\ cpu = "run" /\ op.kind = "premap"
    /\ LET h == op.heap
           f == ProcessFrame
           virt == cursor[h]
       IN  IF op.i = PremapPages
           THEN /\ op' = [kind |-> "init", heap |-> h + 1]
                /\ UNCHANGED <<m, dir, cursor, head, live, lost, cpu>>
           ELSE IF ScanHangs \/ f = NoFrame THEN Stop("hung")
           ELSE /\ \E mem \in DoubleMap(h, virt, f) :
                      m' = Carve(mem, h, virt, head[h])
                /\ head' = [head EXCEPT ![h] = virt]
                /\ cursor' = [cursor EXCEPT ![h] = @ + PageWords]
                /\ op' = [op EXCEPT !.i = @ + 1]
                /\ UNCHANGED <<dir, live, lost, cpu>>
-----------------------------------------------------------------------------
(* Size classes: heap_domain_alloc and heap_domain_free. *)

\* A call returns memory: its caller holds it and fills it next.
Return(ptr, size) ==
    LET a == [ptr |-> ptr, size |-> size]
    IN  live' = live \cup {a} /\ op' = [kind |-> "fill", of |-> a]

\* heap_domain_alloc with a block on the free list.
alloc_fast(size) ==
    LET d == ClassOf(size) IN
    /\ cpu = "run" /\ op = Idle /\ Cardinality(live) < MaxLive
    /\ d \in Domains
    /\ head[d] # NULL
    /\ IF ~Mapped(m, head[d]) THEN Stop("fault")
       ELSE /\ head' = [head EXCEPT ![d] = Read(m, head[d])]
            /\ Return(head[d], size)
            /\ UNCHANGED <<m, dir, cursor, lost, cpu>>

\* heap_domain_alloc with an empty free list: one more page, then the pop.
\* With no frame left the caller gets NULL and nothing changes.
alloc_slow(size) ==
    LET d == ClassOf(size)
        f == ProcessFrame
        virt == cursor[d]
    IN
    /\ cpu = "run" /\ op = Idle /\ Cardinality(live) < MaxLive
    /\ d \in Domains
    /\ head[d] = NULL
    /\ IF ScanHangs THEN Stop("hung")
       ELSE IF f = NoFrame THEN UNCHANGED vars
       ELSE /\ \E mem \in DoubleMap(d, virt, f) :
                  m' = Carve(mem, d, virt, NULL)
            /\ head' = [head EXCEPT ![d] = Read(m', virt)]
            /\ cursor' = [cursor EXCEPT ![d] = @ + PageWords]
            /\ Return(virt, size)
            /\ UNCHANGED <<dir, lost, cpu>>

\* Mutant: the freed block goes behind the head of the list.
free_small_behind(a) ==
    LET d == Route(a.ptr) IN
    /\ cpu = "run" /\ op = Idle
    /\ d \in Domains
    /\ IF head[d] = NULL
       THEN m' = Write(m, a.ptr, NULL) /\ head' = [head EXCEPT ![d] = a.ptr]
       ELSE /\ m' = Write(Write(m, a.ptr, Read(m, head[d])), head[d], a.ptr)
            /\ UNCHANGED head
    /\ live' = live \ {a}
    /\ UNCHANGED <<dir, cursor, lost, op, cpu>>

\* kfree_heap to heap_domain_free.
free_small(a) ==
    LET d == Route(a.ptr) IN
    /\ cpu = "run" /\ op = Idle
    /\ d \in Domains
    /\ IF ~Mapped(m, a.ptr) THEN Stop("fault")
       ELSE /\ m' = Write(m, a.ptr, head[d])
            /\ head' = [head EXCEPT ![d] = a.ptr]
            /\ live' = live \ {a}
            /\ UNCHANGED <<dir, cursor, lost, op, cpu>>
-----------------------------------------------------------------------------
(* The large domain. *)

\* Pages for the user's words and the one-word header, in uint32_t arithmetic.
PagesFor(size) ==
    ((size + 1 + (PageWords - 1)) % AddressLimit) \div PageWords

\* Mutants: the length of the freed slot is not compared; the cursor advances
\* by one page whatever the length.
SlotFitsAlways(slot, pages) == slot # NULL
AfterOnePage(virt, pages) == (virt + PageWords) % AddressLimit

\* The last freed slot, when there is one, has enough virtual pages.
SlotFits(slot, pages) == slot # NULL /\ Read(m, slot + 1) >= pages

\* next_virt_addr += pages * 4096, in uint32_t.
AfterPages(virt, pages) == (virt + pages * PageWords) % AddressLimit

\* kmalloc_large up to the loop: the virtual range, from the last freed slot
\* when it is long enough, else from the cursor.
large_begin(size) ==
    LET pages == PagesFor(size)
        slot  == head[Large]
        reuse == SlotFits(slot, pages)
    IN
    /\ cpu = "run" /\ op = Idle /\ Cardinality(live) < MaxLive
    /\ ClassOf(size) = Large
    /\ ~reuse => cursor[Large] + pages * PageWords
                    <= Base(Large) + MaxLargePages * PageWords
    /\ IF slot # NULL /\ ~Mapped(m, slot) THEN Stop("fault")
       ELSE /\ m' = IF reuse THEN UnmapPage(m, dir[Large], slot) ELSE m
            /\ head' = IF reuse THEN [head EXCEPT ![Large] = Read(m, slot)]
                                ELSE head
            /\ cursor' = IF reuse THEN cursor
                         ELSE [cursor EXCEPT ![Large] =
                                   AfterPages(@, pages)]
            /\ op' = [kind |-> "map", i |-> 0, pages |-> pages, size |-> size,
                      start |-> IF reuse THEN slot ELSE cursor[Large]]
            /\ UNCHANGED <<dir, live, lost, cpu>>

\* One round of kmalloc_large's loop.  With no frame left the call returns
\* NULL; the pages already mapped and the virtual range stay as they are.
large_map ==
    /\ cpu = "run" /\ op.kind = "map"
    /\ op.i < op.pages
    /\ LET f == ProcessFrame
           virt == op.start + op.i * PageWords
       IN  IF ScanHangs THEN Stop("hung")
           ELSE IF f = NoFrame
           THEN /\ lost' = lost \cup
                     {op.start + j * PageWords : j \in 0 .. op.i - 1}
                /\ op' = Idle
                /\ UNCHANGED <<m, dir, cursor, head, live, cpu>>
           ELSE /\ m' \in DoubleMap(Large, virt, f)
                /\ op' = [op EXCEPT !.i = @ + 1]
                /\ UNCHANGED <<dir, cursor, head, live, lost, cpu>>

\* The end of kmalloc_large: the header, and the pointer past it.
large_return ==
    /\ cpu = "run" /\ op.kind = "map"
    /\ op.i = op.pages
    /\ IF ~Mapped(m, op.start) THEN Stop("fault")
       ELSE /\ m' = Write(m, op.start, op.pages)
            /\ Return(op.start + 1, op.size)
            /\ UNCHANGED <<dir, cursor, head, lost, cpu>>

\* Mutants: kfree_large's loop runs one page too far; it never advances.
large_unmap_too_far ==
    /\ cpu = "run" /\ op.kind = "unmap"
    /\ op.i <= op.pages
    /\ m' = UnmapPage(m, dir[Large], op.start + op.i * PageWords)
    /\ op' = [op EXCEPT !.i = @ + 1]
    /\ UNCHANGED <<dir, cursor, head, live, lost, cpu>>
large_unmap_forever ==
    /\ cpu = "run" /\ op.kind = "unmap"
    /\ op.i < op.pages
    /\ m' = UnmapPage(m, dir[Large], op.start + op.i * PageWords)
    /\ UNCHANGED <<dir, cursor, head, live, lost, op, cpu>>

\* kfree_heap to kfree_large, up to its loop.
large_free_begin(a) ==
    /\ cpu = "run" /\ op = Idle
    /\ Route(a.ptr) = Large
    /\ IF ~Mapped(m, a.ptr - 1) THEN Stop("fault")
       ELSE /\ op' = [kind |-> "unmap", i |-> 1, start |-> a.ptr - 1,
                      pages |-> Read(m, a.ptr - 1)]
            /\ live' = live \ {a}
            /\ UNCHANGED <<m, dir, cursor, head, lost, cpu>>

\* One round of kfree_large's loop.
large_unmap ==
    /\ cpu = "run" /\ op.kind = "unmap"
    /\ op.i < op.pages
    /\ m' = UnmapPage(m, dir[Large], op.start + op.i * PageWords)
    /\ op' = [op EXCEPT !.i = @ + 1]
    /\ UNCHANGED <<dir, cursor, head, live, lost, cpu>>

\* The end of kfree_large: page 0 stays mapped and holds the link and the
\* length of the slot.
large_free_return ==
    /\ cpu = "run" /\ op.kind = "unmap"
    /\ op.i >= op.pages
    /\ IF ~Mapped(m, op.start) THEN Stop("fault")
       ELSE /\ m' = Write(Write(m, op.start, head[Large]),
                          op.start + 1, op.pages)
            /\ head' = [head EXCEPT ![Large] = op.start]
            /\ op' = Idle
            /\ UNCHANGED <<dir, cursor, live, lost, cpu>>
-----------------------------------------------------------------------------
(* The caller uses its memory: every word of it, through the kernel's map. *)

UserWords(a) == a.ptr .. a.ptr + a.size - 1
UserPages(a) == {w - (w % PageWords) : w \in UserWords(a)}

user_fill ==
    /\ cpu = "run" /\ op.kind = "fill"
    /\ LET a == op.of
           frameAt == [p \in UserPages(a) |-> Translate(m, p)[1]]
           fill(f, p) == [i \in Offset |-> IF p + i \in UserWords(a)
                                           THEN Sentinel(p + i)
                                           ELSE m.ram[f][i]]
       IN  IF \E p \in UserPages(a) : ~Mapped(m, p) THEN Stop("fault")
           ELSE /\ m' = [m EXCEPT !.ram =
                     [f \in Frame |->
                        IF \E p \in UserPages(a) : frameAt[p] = f
                        THEN fill(f, CHOOSE p \in UserPages(a) : frameAt[p] = f)
                        ELSE @[f]]]
                /\ op' = Idle
                /\ UNCHANGED <<dir, cursor, head, live, lost, cpu>>

Step ==
    \/ init_heap \/ premap
    \/ large_map \/ large_return
    \/ large_unmap \/ large_free_return
    \/ user_fill

Next ==
    \/ Step
    \/ \E size \in Sizes :
          alloc_fast(size) \/ alloc_slow(size) \/ large_begin(size)
    \/ \E a \in live :
          free_small(a) \/ large_free_begin(a)

\* A call that has started runs on: nothing preempts it.
Spec == Init /\ [][Next]_vars /\ WF_vars(Step)
-----------------------------------------------------------------------------
(* Properties. *)

Ops ==
    {Idle}
    \cup [kind : {"init"}, heap : Heaps]
    \cup [kind : {"premap"}, heap : Domains, i : 0 .. PremapPages]
    \cup [kind : {"map"}, i : Nat, pages : Nat, size : Sizes, start : Word]
    \cup [kind : {"unmap"}, i : Nat, pages : Nat, start : Word]
    \cup [kind : {"fill"}, of : [ptr : Word, size : Sizes]]

TypeOK ==
    /\ IsMachine(m)
    /\ dir \in [Heaps -> Frame] /\ cursor \in [Heaps -> Word]
    /\ head \in [Heaps -> Word]
    /\ live \subseteq [ptr : Word, size : Sizes]
    /\ lost \subseteq Word
    /\ op \in Ops /\ cpu \in {"run", "hung", "fault"}

Started == {h \in Heaps : dir[h] # 0}

\* The words of a linked list from its head, n links far, NULL from its end on.
Chain(h, n) ==
    LET link[b \in Word] ==
            IF b = NULL \/ ~Mapped(m, b) THEN NULL ELSE Read(m, b)
        c[i \in 0 .. n] == IF i = 0 THEN head[h] ELSE link[c[i - 1]]
    IN  c

OnList(h, n) ==
    LET c == Chain(h, n) IN {c[i] : i \in 0 .. n} \ {NULL}

\* The blocks of a size class that have been cut out of pages so far.
Carved(d) ==
    {Base(d) + i * ClassSize[d] :
        i \in 0 .. (cursor[d] - Base(d)) \div ClassSize[d] - 1}

Held(h) == {a \in live : ClassOf(a.size) = h}

LargePages(start, n) == {start + j * PageWords : j \in 0 .. n - 1}

\* The slots on the large domain's list, and the number of pages of each.
MaxSlots == MaxLargePages + 1
Slots == OnList(Large, MaxSlots)
SlotPages(s) == Read(m, s + 1)
HeaderPages(a) == Read(m, a.ptr - 1)

\* The pages that must be mapped for a heap.
OwnPages(h) ==
    IF h # Large
    THEN LargePages(Base(h), (cursor[h] - Base(h)) \div PageWords)
    ELSE (UNION {LargePages(a.ptr - 1, HeaderPages(a)) : a \in Held(Large)})
         \cup Slots \cup lost
         \cup (CASE op.kind = "map"   -> LargePages(op.start, op.i)
                 [] op.kind = "unmap" ->
                      LargePages(op.start, op.pages)
                          \ {op.start + j * PageWords : j \in 1 .. op.i - 1}
                 [] OTHER -> {})

\* The page tables in use: directory frame and index of each present entry
\* below the kernel half.
TableSlots ==
    {s \in ({KernelDir} \cup {dir[h] : h \in Started}) \X (0 .. KernelEntry - 1) :
        Present(m.ram[s[1]][s[2]])}
TableFrame(s) == FrameOf(m.ram[s[1]][s[2]])

\* map_page was never called with no frame left for the table it needed.
TablesBacked == \A s \in TableSlots : TableFrame(s) # NoFrame

\* The kernel's own dereferences of list heads, headers and user pointers
\* never page-fault, and neither the scan's stop on frame 0 nor a boot-time
\* while(1) is reached, in any order of allocations and frees.
NeverStops == TablesBacked => cpu = "run"

\* heap_domain_alloc and heap_domain_free keep each free list a finite chain
\* of exactly the blocks that are carved and not held: no block is lost, on
\* the list twice, or on the list while a caller has it.
FreeListExact ==
    \A d \in Domains \cap Started :
        LET n == Cardinality(Carved(d)) + 1 IN
        TablesBacked =>
            /\ Chain(d, n)[n] = NULL
            /\ OnList(d, n) = Carved(d) \ {a.ptr : a \in Held(d)}
            /\ {a.ptr : a \in Held(d)} \subseteq Carved(d)

\* What a caller wrote is what it reads until it frees the memory: nothing the
\* heap writes (links, headers, page tables) and nothing another caller
\* writes reaches it.
UserDataIntact ==
    TablesBacked =>
        \A a \in live : op # [kind |-> "fill", of |-> a] =>
            \A w \in UserWords(a) : Mapped(m, w) /\ Read(m, w) = Sentinel(w)

\* Every frame in use has one use: image, directory, page table, or one page
\* of one heap, that the heap's directory and the kernel's both map to it.
FramesPartitioned ==
    (TablesBacked /\ cpu = "run") =>
        LET frameOf(h, p) == FrameOf(PageEntry(m.ram, dir[h], p)) IN
        /\ \A h \in Started : \A p \in OwnPages(h) :
              /\ Present(PageEntry(m.ram, dir[h], p))
              /\ PageEntry(m.ram, dir[h], p) = PageEntry(m.ram, KernelDir, p)
        /\ m.bitmap = Image \cup {dir[h] : h \in Started}
                      \cup {TableFrame(s) : s \in TableSlots}
                      \cup UNION {{frameOf(h, p) : p \in OwnPages(h)} : h \in Started}
        /\ Cardinality(m.bitmap) =
              ImageFrames + Cardinality(Started) + Cardinality(TableSlots)
              + Cardinality(UNION {OwnPages(h) : h \in Started})

\* The virtual ranges of the large domain.
LargeRanges ==
    {<<a.ptr - 1, HeaderPages(a)>> : a \in Held(Large)}
    \cup {<<s, SlotPages(s)>> : s \in Slots}
    \cup (IF op.kind \in {"map", "unmap"} THEN {<<op.start, op.pages>>} ELSE {})

\* kmalloc_large and kfree_large: the ranges callers hold, those on the list of
\* freed slots, which is finite, and that of the call in progress never
\* overlap, and all lie between the region's base and the cursor.
LargeRangesDisjoint ==
    TablesBacked =>
        LET ranges == LargeRanges IN
        /\ Chain(Large, MaxSlots)[MaxSlots] = NULL
        /\ \A r \in ranges :
              /\ r[2] > 0 /\ r[1] >= Base(Large)
              /\ r[1] + r[2] * PageWords <= cursor[Large]
        /\ \A r, s \in ranges :
              r # s => \/ r[1] + r[2] * PageWords <= s[1]
                       \/ s[1] + s[2] * PageWords <= r[1]

\* kfree_heap finds the heap a pointer came from by its address alone.
RouteMatchesClass == \A a \in live : Route(a.ptr) = ClassOf(a.size)

\* A pointer stays valid and keeps its physical memory as long as it is held,
\* whatever else is mapped, unmapped or reused meanwhile.
PointersStable ==
    [][TablesBacked' =>
        \A a \in live : \A b \in live' : a.ptr = b.ptr =>
            \A p \in UserPages(a) :
                Mapped(m, p) => Translate(m, p) = Translate(m', p)]_vars

\* Every call returns, boot included: the page loops end.
CallsReturn == op # Idle ~> (op = Idle \/ cpu # "run")

\* A domain's own directory reaches no memory but the domain's.
DomainIsolated ==
    \A h \in Started : \A p \in 0 .. KernelEntry * TableEntries - 1 :
        MappedIn(m.ram, dir[h], p * PageWords) => p * PageWords \in OwnPages(h)
=============================================================================
