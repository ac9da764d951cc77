-------------------------------- MODULE PMM --------------------------------
(***************************************************************************)
(* The physical memory manager (src/lib/pmm.c) by itself.  The environment *)
(* is every caller in the kernel: it asks for frames and gives back frames *)
(* it was handed, in any order.  grants counts, per frame, the hand-outs   *)
(* that have not been given back: it is the callers' view of ownership and *)
(* is compared with the bitmap, which is the manager's view.               *)
(***************************************************************************)
EXTENDS FrameBitmap

CONSTANT CounterModulus   \* used_frames is a uint32_t: 2^32

ASSUME CounterAssumption ==
    CounterModulus \in Nat /\ ImageFrames < CounterModulus

VARIABLES
    bitmap,       \* bitmap[]: the frames whose bit is 1
    used_frames,  \* used_frames
    grants,       \* ghost: outstanding hand-outs of each frame
    answer,       \* ghost: the last call and the frame it returned
    hung          \* the while(1) of get_next_free_process_frame

vars == <<bitmap, used_frames, grants, answer, hung>>

Calls == {"boot", "kernel", "process", "clear"}

\* Mutant: init_pmm stops one frame short of _heap_start.
InitStopsShort ==
    /\ bitmap = Image \ {ImageFrames - 1}
    /\ used_frames = ImageFrames - 1
    /\ grants = [f \in Frame |-> 0]
    /\ answer = [call |-> "boot", frame |-> NoFrame]
    /\ hung = FALSE

\* init_pmm
Init ==
    /\ bitmap = Image
    /\ used_frames = ImageFrames
    /\ grants = [f \in Frame |-> 0]
    /\ answer = [call |-> "boot", frame |-> NoFrame]
    /\ hung = FALSE

\* What both searches do with the frame they found, or did not find.
HandOut(call, f) ==
    /\ answer' = [call |-> call, frame |-> f]
    /\ \/ /\ f = NoFrame
          /\ UNCHANGED <<bitmap, used_frames, grants>>
       \/ /\ f # NoFrame
          /\ bitmap' = SetFrame(bitmap, f)
          /\ used_frames' = (used_frames + 1) % CounterModulus
          /\ grants' = [grants EXCEPT ![f] = @ + 1]

get_next_free_kernel_frame ==
    /\ ~hung
    /\ HandOut("kernel", NextKernelFrame(bitmap))
    /\ UNCHANGED hung

\* The scan stops the machine when it meets physical address 0:
\* "PMM RETURNED PHYSICAL 0! SHUT DOWN EVERYTHING!"
get_next_free_process_frame ==
    /\ ~hung
    /\ hung' = ProcessFrameHangs(bitmap)
    /\ IF hung' THEN UNCHANGED <<bitmap, used_frames, grants, answer>>
                ELSE HandOut("process", NextProcessFrame(bitmap))

\* A caller gives back a frame it holds.  used_frames is left alone.
clear_frame(f) ==
    /\ ~hung
    /\ grants[f] > 0
    /\ bitmap' = ClearFrame(bitmap, f)
    /\ grants' = [grants EXCEPT ![f] = @ - 1]
    /\ answer' = [call |-> "clear", frame |-> f]
    /\ UNCHANGED <<used_frames, hung>>

Next ==
    \/ get_next_free_kernel_frame
    \/ get_next_free_process_frame
    \/ \E f \in Frame : clear_frame(f)

Spec == Init /\ [][Next]_vars
-----------------------------------------------------------------------------
TypeOK ==
    /\ bitmap \subseteq Frame
    /\ used_frames \in 0 .. CounterModulus - 1
    /\ grants \in [Frame -> Nat]
    /\ answer \in [call : Calls, frame : Frame]
    /\ hung \in BOOLEAN

Addressable == {f \in Frame : f < AddressableFrames}
Granted     == {f \in Frame : grants[f] > 0}

\* The two views agree at every moment on the frames below 2 GB: the bits that
\* are 1 are those of the kernel image and of the frames some caller holds.  No
\* frame leaks (bit 1, nobody holds it), none is up for grabs while it is held.
BitmapExact == bitmap = Image \cup (Granted \cap Addressable)

\* get_next_free_kernel_frame and get_next_free_process_frame scan the same
\* bitmap from different starts; between them, and whatever is freed in any
\* order, no frame has two owners.
SingleOwner == \A f \in Frame : grants[f] <= 1

\* The memory of the kernel image, frame 0 included, is never handed out; this
\* is what makes 0 usable as the "no frame" answer.
ImageNeverGranted == Image \cap Granted = {}

\* The scan's emergency stop on physical address 0 cannot be reached by
\* callers that give back only what they were handed.
NeverHangs == ~hung

\* Either search answers 0 only when every frame is in use: no free frame is
\* overlooked, wherever the two scans start.
NoneMeansFull ==
    [][answer'.call \in {"kernel", "process"}
           /\ answer'.frame = NoFrame => bitmap = Frame]_vars
=============================================================================
