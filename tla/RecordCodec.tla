----------------------------- MODULE RecordCodec -----------------------------
(***************************************************************************)
(* The framing of one record (src/record.rs) and the bounded read of one    *)
(* record from a segment file (read_record_at of src/segment.rs).           *)
(*                                                                          *)
(* The model computes with the code's sizes and its order of checks.  The   *)
(* bytes at the scan offset are abstracted to what the checks look at: is   *)
(* the 20-byte header all zero, the stored rec_type and length, and whether *)
(* the stored CRC is that of the bytes it covers.  u32 and usize keep their *)
(* width, as U32 (one more than the largest u32) and Usize.                 *)
(* An operator that no action uses, right before another one, is a mistake  *)
(* the run must notice in its place.                                        *)
(***************************************************************************)
EXTENDS Integers

CONSTANTS
    U32,                \* 2^32
    Usize,              \* 2^32 or 2^64
    segment_size,       \* WalConfig
    max_record_size,
    Lengths,            \* lengths a header may hold
    Offsets,            \* places the scanner may look at
    FileSizes           \* physical sizes of the file

HEADER_SIZE == 64
RECORD_HEADER_SIZE == 20

(* What open_seeded checks ...                                              *)
ValidConfig == max_record_size + 91 <= segment_size

(* ... and the field types guarantee; a buffer of a whole segment can be    *)
(* addressed.                                                               *)
ASSUME CodecAssumption ==
    /\ U32 \in Nat /\ Usize \in Nat /\ segment_size \in Nat
    /\ max_record_size \in Nat /\ max_record_size < U32
    /\ ValidConfig
    /\ segment_size < Usize
    /\ Lengths \subseteq 0..(U32 - 1)
    /\ Offsets \subseteq Nat /\ FileSizes \subseteq Nat

-----------------------------------------------------------------------------
(* Sizes                                                                    *)

padding_for(len) == (8 - ((RECORD_HEADER_SIZE + len) % 8)) % 8

framed_size(len) == (RECORD_HEADER_SIZE + len + padding_for(len)) % Usize

PaddingUnreduced(len) == 8 - (((RECORD_HEADER_SIZE % 8) + (len % 8)) % 8)
padding_for_u64(len) == (8 - (((RECORD_HEADER_SIZE % 8) + (len % 8)) % 8)) % 8

framed_size_u64(len) == RECORD_HEADER_SIZE + len + padding_for_u64(len)

ScanBoundUnpadded == max_record_size + RECORD_HEADER_SIZE
scan_bound == max_record_size + 28

-----------------------------------------------------------------------------
(* The bytes at a scan offset                                               *)

Header == {h \in [zero : BOOLEAN, rec_type : 0..2, length : Lengths, crc : BOOLEAN] :
              h.zero => h.rec_type = 0 /\ h.length = 0}

(* What encode_into writes: a Full record with its CRC.                     *)
Encoded(h) == ~h.zero /\ h.rec_type = 1 /\ h.crc

(* decode of a slice of n bytes.                                            *)
decode(h, n) ==
    IF n < RECORD_HEADER_SIZE THEN "Incomplete"
    ELSE IF h.rec_type = 0 /\ h.zero THEN "Sentinel"
    ELSE IF h.length > max_record_size THEN "Invalid"
    ELSE IF framed_size_u64(h.length) > n THEN "Incomplete"
    ELSE IF ~h.crc \/ h.rec_type # 1 THEN "Invalid"
    ELSE "Record"

-----------------------------------------------------------------------------
(* The scanner, as the three places where it stops and asks for bytes.      *)

VARIABLES
    hdr, offset, size,  \* the bytes, where they are, and the size of the file
    step,               \* "start", "header", "body" or "done"
    buf,                \* the size the read buffer was given
    outcome             \* ScanOutcome, "none" before the end

vars == <<hdr, offset, size, step, buf, outcome>>

Init ==
    /\ hdr \in Header /\ offset \in Offsets /\ size \in FileSizes
    /\ step = "start" /\ buf = 0 /\ outcome = "none"

remaining == IF offset < segment_size THEN segment_size - offset ELSE 0

Done(result) == step' = "done" /\ outcome' = result

(* Fewer bytes than a header left in the segment: CleanEnd; a physical file *)
(* that ends before them: Invalid.                                          *)
ReadHeader ==
    /\ step = "start"
    /\ \/ remaining < RECORD_HEADER_SIZE /\ Done("CleanEnd") /\ UNCHANGED buf
       \/ /\ remaining >= RECORD_HEADER_SIZE
          /\ buf' = RECORD_HEADER_SIZE
          /\ \/ size < offset + RECORD_HEADER_SIZE /\ Done("Invalid")
             \/ /\ size >= offset + RECORD_HEADER_SIZE
                /\ step' = "header" /\ UNCHANGED outcome
    /\ UNCHANGED <<hdr, offset, size>>

(* The length is bounded, then the frame, before the buffer grows to it.    *)
FitsPayload(len) == len <= remaining    \* the frame is forgotten
FitsRemaining(len) == framed_size_u64(len) <= remaining

ReadBody ==
    /\ step = "header"
    /\ \/ decode(hdr, RECORD_HEADER_SIZE) = "Sentinel" /\ Done("CleanEnd") /\ UNCHANGED buf
       \/ /\ decode(hdr, RECORD_HEADER_SIZE) # "Sentinel"
          /\ hdr.length > max_record_size \/ ~FitsRemaining(hdr.length)
          /\ Done("Invalid") /\ UNCHANGED buf
       \/ /\ decode(hdr, RECORD_HEADER_SIZE) # "Sentinel"
          /\ hdr.length <= max_record_size /\ FitsRemaining(hdr.length)
          /\ buf' = framed_size_u64(hdr.length) % Usize
          /\ \/ size < offset + buf' /\ Done("Invalid")
             \/ size >= offset + buf' /\ step' = "body" /\ UNCHANGED outcome
    /\ UNCHANGED <<hdr, offset, size>>

Validate ==
    /\ step = "body"
    /\ Done(IF decode(hdr, buf) = "Record" THEN "Record" ELSE "Invalid")
    /\ UNCHANGED <<hdr, offset, size, buf>>

Next == ReadHeader \/ ReadBody \/ Validate

Spec == Init /\ [][Next]_vars

-----------------------------------------------------------------------------
(* Properties                                                               *)

Framing == RECORD_HEADER_SIZE + hdr.length

(* D11: whatever the bytes say, the buffer never grows beyond the segment   *)
(* and holds a whole header when its rest is sliced off, and a record that  *)
(* is returned lies in the segment and in the file, padding included, with  *)
(* its end on an 8-byte boundary.                                           *)
ScanInBounds ==
    /\ offset + buf <= segment_size \/ buf = 0
    /\ step = "body" => buf >= RECORD_HEADER_SIZE
    /\ outcome = "Record" =>
        /\ offset + buf <= size /\ buf % 8 = 0
        /\ Framing <= buf /\ buf < Framing + 8

(* D6: a record that append let in and commit wrote whole is read back as   *)
(* one, and the size commit advanced by is the size the scan advances by.   *)
EncodedIsFound ==
    (step = "done" /\ Encoded(hdr) /\ hdr.length <= max_record_size
       /\ offset + framed_size(hdr.length) <= segment_size
       /\ offset + framed_size(hdr.length) <= size)
    => outcome = "Record" /\ buf = framed_size(hdr.length)

(* The two bounds of the design that rest on the frame size: a record of    *)
(* the largest allowed size fits a fresh segment (so commit's split always  *)
(* gets on), and the forward scan's window reaches behind every record.     *)
BoundsSuffice ==
    hdr.length <= max_record_size =>
        /\ HEADER_SIZE + framed_size(hdr.length) <= segment_size
        /\ framed_size(hdr.length) <= scan_bound
=============================================================================
