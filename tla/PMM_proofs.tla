----------------------------- MODULE PMM_proofs -----------------------------
(***************************************************************************)
(* Proofs about the physical memory manager, for every size of memory,     *)
(* image and bitmap word.                                                  *)
(***************************************************************************)
EXTENDS PMM, NumberFacts, TLAPS

-----------------------------------------------------------------------------
(* The searches of the frame bitmap, for every bitmap. *)

\* Only word 0 decides whether the process scan stops, and the image fills it.
LEMMA ImageFillsWordZero ==
    ASSUME NEW bm, Image \subseteq bm
    PROVE  ~ProcessFrameHangs(bm)
BY FrameConstants, ImageAssumption DEF ProcessFrameHangs, Image

\* What get_next_free_kernel_frame returns: a free frame outside the image, or
\* 0 when every frame outside the image is taken.
LEMMA KernelFrameFound ==
    ASSUME NEW bm \in SUBSET Frame, NEW f, f = NextKernelFrame(bm)
    PROVE  \/ f # NoFrame /\ f \in Frame \ (bm \cup Image)
           \/ f = NoFrame /\ Frame \ Image \subseteq bm
<1>. DEFINE S == {g \in Frame : g >= ImageFrames /\ g \notin bm}
<1>1. S \in SUBSET Nat
  BY FrameConstants DEF Frame
<1>2. f = LowestOrNone(S)
  BY DEF NextKernelFrame
<1>3. CASE S = {}
  BY <1>2, <1>3, FrameConstants DEF LowestOrNone, Frame, Image
<1>4. CASE S # {}
  <2>1. f \in S
    BY <1>1, <1>2, <1>4, MinOfNats DEF LowestOrNone
  <2>. QED
    BY <2>1, FrameConstants, ImageAssumption DEF NoFrame, Image, Frame
<1>. QED
  BY <1>3, <1>4

\* What get_next_free_process_frame returns, under a bitmap that has the image.
LEMMA ProcessFrameFound ==
    ASSUME NEW bm \in SUBSET Frame, Image \subseteq bm,
           NEW f, f = NextProcessFrame(bm)
    PROVE  \/ f # NoFrame /\ f \in Frame \ (bm \cup Image)
           \/ f = NoFrame /\ bm = Frame
<1>. DEFINE S == Frame \ bm
<1>1. S \in SUBSET Nat
  BY FrameConstants DEF Frame
<1>2. f = LowestOrNone(S)
  BY DEF NextProcessFrame
<1>3. CASE S = {}
  BY <1>2, <1>3 DEF LowestOrNone
<1>4. CASE S # {}
  <2>1. f \in S
    BY <1>1, <1>2, <1>4, MinOfNats DEF LowestOrNone
  <2>2. 0 \in Image
    BY FrameConstants, ImageAssumption DEF Image
  <2>. QED
    BY <2>1, <2>2 DEF NoFrame
<1>. QED
  BY <1>3, <1>4

\* The answer for "nothing found" is the number of a frame.
LEMMA ZeroIsAFrame == NoFrame \in Frame
BY FrameConstants, ImageAssumption DEF NoFrame, Frame

\* The bitmap has a bit for every frame of the image.
LEMMA ImageInFrame == Image \subseteq Frame
BY FrameConstants, ImageAssumption DEF Image, Frame

-----------------------------------------------------------------------------
(* The invariant.  It is inductive as it stands: BitmapExact keeps the scans   *)
(* away from what is held, and ImageNeverGranted keeps clear_frame away from   *)
(* the image, so that word 0 stays full.                                       *)

AddressableOnce == \A f \in Addressable : grants[f] <= 1

IInv == TypeOK /\ BitmapExact /\ AddressableOnce /\ ImageNeverGranted /\ NeverHangs

\* init_pmm establishes the invariant.
LEMMA InitIInv == Init => IInv
<1>. SUFFICES ASSUME Init PROVE IInv
  OBVIOUS
<1>1. TypeOK
  <2>1. used_frames \in 0 .. CounterModulus - 1
    BY FrameConstants, CounterAssumption DEF Init
  <2>2. grants \in [Frame -> Nat]
    BY DEF Init
  <2>3. answer \in [call : Calls, frame : Frame]
    BY ZeroIsAFrame DEF Init, Calls
  <2>. QED
    BY <2>1, <2>2, <2>3, ImageInFrame DEF Init, TypeOK
<1>2. Granted = {}
  BY DEF Init, Granted
<1>. QED
  BY <1>1, <1>2 DEF Init, IInv, BitmapExact, AddressableOnce, Addressable,
                    ImageNeverGranted, NeverHangs

\* A hand-out of a free frame outside the image, or of nothing.
LEMMA HandOutIInv ==
    ASSUME IInv, hung' = FALSE,
           NEW call \in Calls, NEW f,
           f # NoFrame => f \in Frame \ (bitmap \cup Image),
           HandOut(call, f)
    PROVE  IInv'
<1>1. CASE f = NoFrame
  BY <1>1, ZeroIsAFrame
     DEF HandOut, IInv, TypeOK, BitmapExact, AddressableOnce, ImageNeverGranted,
         NeverHangs, Granted
<1>2. CASE f # NoFrame
  <2>. USE DEF HandOut, IInv
  <2>1. /\ f \in Frame /\ f \notin bitmap /\ f \notin Image
        /\ bitmap' = SetFrame(bitmap, f)
        /\ used_frames' = (used_frames + 1) % CounterModulus
        /\ grants' = [grants EXCEPT ![f] = @ + 1]
        /\ answer' = [call |-> call, frame |-> f]
    BY <1>2
  <2>2. f \in Addressable => grants[f] = 0
    BY <2>1 DEF BitmapExact, Granted, TypeOK
  <2>3. Granted' = Granted \cup {f}
    BY <2>1 DEF Granted, TypeOK
  <2>4. TypeOK'
    <3>1. used_frames' \in 0 .. CounterModulus - 1
      <4>1. used_frames + 1 \in Nat /\ CounterModulus \in Nat /\ CounterModulus > 0
        BY FrameConstants, CounterAssumption DEF TypeOK
      <4>. QED
        BY <2>1, <4>1
    <3>2. bitmap' \subseteq Frame
      BY <2>1 DEF TypeOK, SetFrame
    <3>3. grants' \in [Frame -> Nat]
      BY <2>1 DEF TypeOK
    <3>4. answer' \in [call : Calls, frame : Frame]
      BY <2>1
    <3>5. hung' \in BOOLEAN
      OBVIOUS
    <3>. QED
      BY <3>1, <3>2, <3>3, <3>4, <3>5 DEF TypeOK
  <2>5. BitmapExact'
    <3>1. CASE f < AddressableFrames
      BY <2>1, <2>3, <3>1 DEF BitmapExact, SetFrame, Addressable
    <3>2. CASE ~(f < AddressableFrames)
      BY <2>1, <2>3, <3>2 DEF BitmapExact, SetFrame, Addressable
    <3>. QED
      BY <3>1, <3>2
  <2>6. AddressableOnce'
    BY <2>1, <2>2 DEF AddressableOnce, Addressable, TypeOK
  <2>7. ImageNeverGranted'
    BY <2>1, <2>3 DEF ImageNeverGranted
  <2>. QED
    BY <2>4, <2>5, <2>6, <2>7 DEF NeverHangs
<1>. QED
  BY <1>1, <1>2

\* A caller gives back a frame it holds.
LEMMA ClearIInv ==
    ASSUME IInv, NEW f \in Frame, clear_frame(f)
    PROVE  IInv'
<1>. USE DEF IInv, clear_frame
<1>1. f \notin Image
  BY DEF ImageNeverGranted, Granted
<1>2. TypeOK'
  <2>1. grants' \in [Frame -> Nat]
    BY DEF TypeOK
  <2>. QED
    BY <2>1 DEF TypeOK, ClearFrame, Calls
<1>3. CASE f < AddressableFrames
  <2>1. f \in Addressable /\ grants[f] = 1
    BY <1>3 DEF Addressable, AddressableOnce, TypeOK
  <2>2. Granted' = Granted \ {f}
    BY <2>1 DEF Granted, TypeOK
  <2>3. BitmapExact'
    BY <1>1, <1>3, <2>2 DEF BitmapExact, ClearFrame, Addressable
  <2>4. AddressableOnce'
    BY <2>1 DEF AddressableOnce, Addressable, TypeOK
  <2>. QED
    BY <1>2, <2>2, <2>3, <2>4 DEF ImageNeverGranted, NeverHangs
<1>4. CASE ~(f < AddressableFrames)
  <2>1. \A g \in Addressable : grants'[g] = grants[g]
    BY <1>4 DEF Addressable, TypeOK
  <2>2. Granted' \cap Addressable = Granted \cap Addressable
    BY <2>1 DEF Granted, Addressable
  <2>3. BitmapExact'
    BY <1>4, <2>2 DEF BitmapExact, ClearFrame, Addressable
  <2>4. AddressableOnce'
    BY <2>1 DEF AddressableOnce, Addressable
  <2>5. Granted' \subseteq Granted
    BY DEF Granted, TypeOK
  <2>. QED
    BY <1>2, <2>3, <2>4, <2>5 DEF ImageNeverGranted, NeverHangs
<1>. QED
  BY <1>3, <1>4

\* Every call keeps the invariant.
LEMMA NextIInv == IInv /\ [Next]_vars => IInv'
<1>. SUFFICES ASSUME IInv, [Next]_vars PROVE IInv'
  OBVIOUS
<1>0. bitmap \in SUBSET Frame /\ Image \subseteq bitmap
  BY DEF IInv, TypeOK, BitmapExact
<1>1. CASE get_next_free_kernel_frame
  <2>1. HandOut("kernel", NextKernelFrame(bitmap)) /\ hung' = FALSE
    BY <1>1 DEF get_next_free_kernel_frame
  <2>2. NextKernelFrame(bitmap) # NoFrame
          => NextKernelFrame(bitmap) \in Frame \ (bitmap \cup Image)
    BY <1>0, KernelFrameFound
  <2>. QED
    BY <2>1, <2>2, HandOutIInv DEF Calls
<1>2. CASE get_next_free_process_frame
  <2>1. HandOut("process", NextProcessFrame(bitmap)) /\ hung' = FALSE
    BY <1>0, <1>2, ImageFillsWordZero DEF get_next_free_process_frame
  <2>2. NextProcessFrame(bitmap) # NoFrame
          => NextProcessFrame(bitmap) \in Frame \ (bitmap \cup Image)
    BY <1>0, ProcessFrameFound
  <2>. QED
    BY <2>1, <2>2, HandOutIInv DEF Calls
<1>3. CASE \E f \in Frame : clear_frame(f)
  BY <1>3, ClearIInv
<1>4. CASE UNCHANGED vars
  BY <1>4 DEF vars, IInv, TypeOK, BitmapExact, AddressableOnce, ImageNeverGranted,
              NeverHangs, Granted
<1>. QED
  BY <1>1, <1>2, <1>3, <1>4 DEF Next

\* The inductive invariant holds in every state.
THEOREM Invariance == Spec => []IInv
BY InitIInv, NextIInv, PTL DEF Spec
-----------------------------------------------------------------------------
\* The variables of pmm.c keep their types: used_frames never leaves uint32_t
\* and every answer is a frame.
THEOREM TypeCorrect == Spec => []TypeOK
<1>1. IInv => TypeOK
  BY DEF IInv
<1>. QED
  BY <1>1, Invariance, PTL

\* set_frame and clear_frame keep the bitmap equal to what is really in use,
\* below 2 GB, for every memory size.
THEOREM BitmapIsExact == Spec => []BitmapExact
<1>1. IInv => BitmapExact
  BY DEF IInv
<1>. QED
  BY <1>1, Invariance, PTL

\* On a machine whose bitmap ends within the reach of the int helpers, no frame
\* is handed to two owners by the two searches.
THEOREM NoFrameSharedBelow2GB ==
    ASSUME NumFrames <= AddressableFrames
    PROVE  Spec => []SingleOwner
<1>1. IInv => SingleOwner
  <2>1. \A f \in Frame : f \in Addressable
    BY FrameConstants DEF Frame, Addressable
  <2>. QED
    BY <2>1 DEF IInv, AddressableOnce, SingleOwner
<1>. QED
  BY <1>1, Invariance, PTL

\* The kernel image is out of reach of both searches.
THEOREM ImageIsSafe == Spec => []ImageNeverGranted
<1>1. IInv => ImageNeverGranted
  BY DEF IInv
<1>. QED
  BY <1>1, Invariance, PTL

\* The while(1) on physical address 0 is dead code for disciplined callers.
THEOREM ScanNeverHangs == Spec => []NeverHangs
<1>1. IInv => NeverHangs
  BY DEF IInv
<1>. QED
  BY <1>1, Invariance, PTL

\* "No frame" is answered only when the whole bitmap is 1.
THEOREM NoneOnlyWhenFull == Spec => NoneMeansFull
<1>. DEFINE A == answer'.call \in {"kernel", "process"} /\ answer'.frame = NoFrame
                    => bitmap = Frame
<1>1. IInv /\ [Next]_vars => [A]_vars
  <2>. SUFFICES ASSUME IInv, Next, answer'.call \in {"kernel", "process"},
                       answer'.frame = NoFrame
                PROVE  bitmap = Frame
    OBVIOUS
  <2>0. bitmap \in SUBSET Frame /\ Image \subseteq bitmap
    BY DEF IInv, TypeOK, BitmapExact
  <2>1. CASE get_next_free_kernel_frame
    <3>1. NextKernelFrame(bitmap) = NoFrame
      BY <2>1 DEF get_next_free_kernel_frame, HandOut
    <3>. QED
      BY <2>0, <3>1, KernelFrameFound
  <2>2. CASE get_next_free_process_frame
    <3>1. NextProcessFrame(bitmap) = NoFrame
      BY <2>0, <2>2, ImageFillsWordZero DEF get_next_free_process_frame, HandOut
    <3>. QED
      BY <2>0, <3>1, ProcessFrameFound
  <2>3. CASE \E f \in Frame : clear_frame(f)
    BY <2>3 DEF clear_frame
  <2>. QED
    BY <2>1, <2>2, <2>3 DEF Next
<1>. QED
  BY <1>1, Invariance, PTL DEF Spec, NoneMeansFull
=============================================================================
