\* Two size classes (two blocks and one block to a page) and a large domain that
\* competes with them for the last frames.  Tables of two entries, so that a
\* domain needs a second table after two pages.  The machine may stop (a fault,
\* or a while(1)) when map_page found no frame for a table.
CONSTANTS
    NumFrames = 19
    ImageFrames = 4
    WordBits = 2
    AddressableFrames = 19
    PageWords = 16
    TableEntries = 2
    KernelEntry = 14
    KernelDir = 1
    KernelTable = 2
    KernelHalf = 3
    ClassSize <- TwoClasses
    RegionPages = 4
    PremapPages = 1
    ResetWord = 1
    Sizes = {8, 16, 31, 32}
    MaxLive = 3
    MaxLargePages = 7
SPECIFICATION Spec
INVARIANTS TypeOK NeverStops FreeListExact UserDataIntact FramesPartitioned
    RouteMatchesClass
CHECK_DEADLOCK FALSE
