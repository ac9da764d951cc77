\* Addresses that need every register; writes of one and two sectors that
\* overlap each other and what diskR reads.
CONSTANTS
    Byte = 2
    Nibble = 2
    MaxCount = 4
    Lbas = {10, 11}
    Counts = {1, 2}
    Values = {"a", "b"}
    ReadLba = 12
    ReadCount = 2
SPECIFICATION Spec
INVARIANTS TypeOK ReadExact WriteExact DriveAtRest
PROPERTY CallEnds
CHECK_DEADLOCK FALSE
