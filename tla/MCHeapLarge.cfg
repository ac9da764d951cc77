\* The large domain: requests of two pages (filled to the last word) and of
\* three, up to three of them held, slots of both lengths on the free list.
CONSTANTS
    NumFrames = 19
    ImageFrames = 4
    WordBits = 2
    AddressableFrames = 19
    PageWords = 16
    TableEntries = 4
    KernelEntry = 14
    KernelDir = 1
    KernelTable = 2
    KernelHalf = 3
    ClassSize <- OneClass
    RegionPages = 4
    PremapPages = 1
    ResetWord = 1
    Sizes = {31, 32}
    MaxLive = 3
    MaxLargePages = 7
SPECIFICATION Spec
INVARIANTS UserDataIntact LargeRangesDisjoint
PROPERTIES PointersStable CallsReturn
CHECK_DEADLOCK FALSE
