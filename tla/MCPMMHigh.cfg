\* A machine whose bitmap reaches past 2 GB (frames 5 to 7 lie above it).
CONSTANTS
    NumFrames = 8
    ImageFrames = 3
    WordBits = 2
    AddressableFrames = 5
    CounterModulus = 16
SPECIFICATION Spec
INVARIANT SingleOwner
