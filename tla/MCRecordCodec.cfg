CONSTANTS
    U32 = 256
    Usize = 65536
    segment_size = 104
    max_record_size = 13
    Lengths <- MCLengths
    Offsets <- MCOffsets
    FileSizes <- MCFileSizes
SPECIFICATION Spec
INVARIANTS ScanInBounds EncodedIsFound BoundsSuffice
CHECK_DEADLOCK FALSE
