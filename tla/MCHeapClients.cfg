\* Every session of up to five commands.  The order of the sizes is the code's:
\* tbuf8 < buf64k < a table < buf1m = tbig; diskR takes 2 or 4 pages.  The frames
\* run out in the longer sessions.  The session ends, or the machine stops (a
\* store through the NULL that memtest 1 or diskR did not look at).
CONSTANTS
    NumFrames = 52
    ImageFrames = 4
    WordBits = 4
    AddressableFrames = 52
    PageWords = 16
    TableEntries = 8
    KernelEntry = 14
    KernelDir = 1
    KernelTable = 2
    KernelHalf = 3
    ClassSize <- TwoClasses
    RegionPages = 9
    PremapPages = 1
    ResetWord = 1
    Sizes <- AllSizes
    MaxLive = 25
    MaxLargePages = 85
    FragN = 2
    SizeOf <- ScaledSizes
    ReadSizes = {20, 50}
    MaxCommands = 5
SPECIFICATION ClientSpec
INVARIANTS NoFalseAlarm OnlyKnownLeaks FreeListExact
CHECK_DEADLOCK FALSE
