\* Frames enough for every table these bounds can ask for, a large request in
\* between, and enough blocks for free lists that cross pages.
CONSTANTS
    NumFrames = 27
    ImageFrames = 4
    WordBits = 2
    AddressableFrames = 27
    PageWords = 16
    TableEntries = 2
    KernelEntry = 14
    KernelDir = 1
    KernelTable = 2
    KernelHalf = 3
    ClassSize <- TwoClasses
    RegionPages = 4
    PremapPages = 1
    ResetWord = 1
    Sizes = {8, 31}
    MaxLive = 4
    MaxLargePages = 2
SPECIFICATION Spec
PROPERTY LifoPromise
