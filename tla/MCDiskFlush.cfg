\* One write is enough: the flush command may come while the drive is busy.
CONSTANTS
    Byte = 2
    Nibble = 2
    MaxCount = 4
    Lbas = {10, 11}
    Counts = {1, 2}
    Values = {"a", "b"}
    ReadLba = 12
    ReadCount = 2
SPECIFICATION Spec
INVARIANT WriteDurable
CHECK_DEADLOCK FALSE
