\* A bitmap of 9 frames in words of 2; the image fills one word and half of the
\* next, as it may in the kernel. used_frames wraps at 7.
CONSTANTS
    NumFrames = 9
    ImageFrames = 3
    WordBits = 2
    AddressableFrames = 9
    CounterModulus = 7
SPECIFICATION Spec
INVARIANTS TypeOK BitmapExact SingleOwner ImageNeverGranted NeverHangs
PROPERTY NoneMeansFull
