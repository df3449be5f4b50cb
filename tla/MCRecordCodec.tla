--------------------------- MODULE MCRecordCodec ---------------------------
(* Every payload length around a multiple of 8, a segment that has just the *)
(* space its configuration needs, and files cut off at any byte.            *)
EXTENDS RecordCodec

MCLengths == (0..13) \cup {40, U32 - 20, U32 - 9, U32 - 1}
MCOffsets == {64, 72, 80, 88, 96, 104}
MCFileSizes == {0, 64, 70, 84, 92, 95, 96, 97, 103, 104}
=============================================================================
