---------------------------- MODULE FrameBitmap ----------------------------
(***************************************************************************)
(* The bitmap of the physical memory manager (src/lib/pmm.c) as operators  *)
(* on its value.  A frame is the number of a 4 KB page of physical memory, *)
(* and a bitmap is the set of the frames whose bit is 1.                   *)
(*                                                                         *)
(* The helpers calculate_page, find_index and find_bit take an int, so     *)
(* only the frames below 2 GB have a bit they can reach: for a higher one  *)
(* the index is negative, set_bit writes below the array, and the frame's  *)
(* own bit keeps its value.  From 3 GB on, ASSERT_PHYSICAL returns before  *)
(* any write.  Either way the bitmap is left as it was, which is all that  *)
(* AddressableFrames says; what the stray write hits is not modelled.      *)
(***************************************************************************)
EXTENDS Integers, FiniteSets, FiniteSetsExt

CONSTANTS
    NumFrames,         \* max_frames: the frames the bitmap has a bit for
    ImageFrames,       \* the frames below _heap_start: BIOS area and kernel
    WordBits,          \* the bits of one bitmap word
    AddressableFrames  \* the frames below 2 GB, 0x80000000

ASSUME FrameConstants ==
    /\ NumFrames \in Nat /\ ImageFrames \in Nat
    /\ WordBits \in Nat  /\ AddressableFrames \in Nat

\* The image starts at 1 MB, so it fills more than the first bitmap word,
\* and it lies below 2 GB.
ASSUME ImageAssumption ==
    /\ 0 < WordBits /\ WordBits <= ImageFrames
    /\ ImageFrames <= NumFrames /\ ImageFrames <= AddressableFrames

Frame == 0 .. NumFrames - 1

\* The frames init_pmm marks: everything below _heap_start.
Image == 0 .. ImageFrames - 1

\* What get_next_free_*_frame returns when it finds nothing.
NoFrame == 0

LowestOrNone(S) == IF S = {} THEN NoFrame ELSE Min(S)

\* Mutants, plausible slips in pmm.c that the runs must notice: "=" for "|="
\* in set_bit; the word index or the write lost in clear_frame; the scans
\* starting one frame late, or running one frame past the bitmap.
WordOf(f) == {g \in Frame : g \div WordBits = f \div WordBits}
SetFrameAssigns(bitmap, f) == (bitmap \ WordOf(f)) \cup {f}
ClearFrameLosesIndex(bitmap, f) == bitmap \ {f % WordBits}
ClearFrameLosesWrite(bitmap, f) == bitmap
NextKernelFrameStartsLate(bitmap) ==
    LowestOrNone({f \in Frame : f > ImageFrames /\ f \notin bitmap})
NextProcessFrameRunsOver(bitmap) ==
    LowestOrNone((0 .. NumFrames) \ bitmap)

SetFrame(bitmap, f) ==
    IF f < AddressableFrames THEN bitmap \cup {f} ELSE bitmap

ClearFrame(bitmap, f) ==
    IF f < AddressableFrames THEN bitmap \ {f} ELSE bitmap

\* get_next_free_kernel_frame: from safe_start, the end of the image, up.
NextKernelFrame(bitmap) ==
    LowestOrNone({f \in Frame : f >= ImageFrames /\ f \notin bitmap})

\* get_next_free_process_frame visits frame 0 exactly when the first word is
\* not full, and then stops the machine before it looks at the bit.
ProcessFrameHangs(bitmap) == \E f \in 0 .. WordBits - 1 : f \notin bitmap

NextProcessFrame(bitmap) == LowestOrNone(Frame \ bitmap)
=============================================================================
