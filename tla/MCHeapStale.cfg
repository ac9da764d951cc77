\* Memory is zero at reset; callers fill what they get.
CONSTANTS
    NumFrames = 25
    ImageFrames = 4
    WordBits = 2
    AddressableFrames = 25
    PageWords = 16
    TableEntries = 2
    KernelEntry = 14
    KernelDir = 1
    KernelTable = 2
    KernelHalf = 3
    ClassSize <- TwoClasses
    RegionPages = 4
    PremapPages = 1
    ResetWord = 0
    Sizes = {16, 31}
    MaxLive = 3
    MaxLargePages = 7
SPECIFICATION Spec
INVARIANT DomainIsolated
