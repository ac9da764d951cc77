\* The three devices the kernel knows, one more on each controller, every setting
\* of their masks and of the cascade, and three bytes at any time from before pic_remap on.
CONSTANTS
    Device <- AllDevices
    BootCS = {8, 16}
    Bytes = {"key", "memtest2", "disk"}
    MaxBytes = 3
SPECIFICATION Spec
INVARIANTS TypeOK NeverHalts HandlersSerial NestingBounded BytesInOrder
PROPERTY BytesServed
