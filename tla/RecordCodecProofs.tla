-------------------------- MODULE RecordCodecProofs --------------------------
(* The scan of RecordCodec is in bounds and exact for every configuration   *)
(* that open accepts and every content of the file.                         *)
EXTENDS RecordCodec, TLAPS

(* A frame is the header, the payload and at most 7 bytes that bring it to  *)
(* a multiple of 8; the u64 form computes the same padding.                 *)
LEMMA FrameSize ==
    ASSUME NEW len \in Nat
    PROVE  /\ padding_for_u64(len) \in 0..7
           /\ padding_for(len) = padding_for_u64(len)
           /\ framed_size_u64(len) \in (RECORD_HEADER_SIZE + len)..(RECORD_HEADER_SIZE + len + 7)
           /\ framed_size_u64(len) % 8 = 0
BY DEF padding_for, padding_for_u64, framed_size_u64, RECORD_HEADER_SIZE

(* For a record that append lets in, the two sizes agree and do not wrap.   *)
LEMMA AllowedFrame ==
    ASSUME NEW len \in Nat, len <= max_record_size
    PROVE  /\ framed_size(len) = framed_size_u64(len)
           /\ HEADER_SIZE + framed_size_u64(len) <= segment_size
           /\ framed_size_u64(len) <= scan_bound
           /\ framed_size_u64(len) < Usize
<1> DEFINE f == framed_size_u64(len)
<1>1. f \in Nat /\ f <= len + 27
  BY FrameSize DEF RECORD_HEADER_SIZE
<1>2. f = RECORD_HEADER_SIZE + len + padding_for(len)
  BY FrameSize DEF framed_size_u64
<1> HIDE DEF f
<1>3. HEADER_SIZE + f <= segment_size /\ f < Usize /\ f <= scan_bound
  BY <1>1, CodecAssumption DEF ValidConfig, HEADER_SIZE, scan_bound
<1>4. f % Usize = f
  BY <1>1, <1>3, CodecAssumption
<1>5. framed_size(len) = f
  BY <1>2, <1>4 DEF framed_size
<1> QED BY <1>3, <1>5 DEF f

(* The buffer is sized for what the step is about to look at.               *)
Sized ==
    /\ hdr \in Header /\ offset \in Nat /\ size \in Nat
    /\ step \in {"start", "header", "body", "done"}
    /\ step = "start" => buf = 0
    /\ step = "header" => buf = RECORD_HEADER_SIZE /\ offset + buf <= segment_size
                          /\ offset + buf <= size
    /\ step = "body" => /\ buf = framed_size_u64(hdr.length) /\ offset + buf <= segment_size
                        /\ offset + buf <= size /\ hdr.length <= max_record_size
                        /\ ~(hdr.rec_type = 0 /\ hdr.zero)
    /\ step # "done" => outcome = "none"
    /\ step = "done" => \/ outcome = "CleanEnd"
                        \/ outcome = "Invalid"
                        \/ outcome = "Record" /\ buf = framed_size_u64(hdr.length)
                                              /\ offset + buf <= size

Safe == Sized /\ ScanInBounds /\ EncodedIsFound

(* A decoded length is a number.                                            *)
LEMMA HeaderType == \A h \in Header : h.length \in Nat
<1>1. Lengths \subseteq Nat
  BY CodecAssumption
<1>2. \A h \in Header : h.length \in Lengths
  BY Zenon DEF Header
<1> QED BY <1>1, <1>2

(* The scan starts with nothing read.                                       *)
LEMMA ScanInit == Init => Safe
<1>1. Init => Sized
  BY CodecAssumption DEF Init, Sized
<1>2. Init => ScanInBounds /\ EncodedIsFound
  BY DEF Init, ScanInBounds, EncodedIsFound
<1> QED BY <1>1, <1>2 DEF Safe

(* Every step of the scan keeps what was shown of the run so far.           *)
LEMMA ScanStep == Safe /\ [Next]_vars => Safe'
<1> SUFFICES ASSUME Safe, [Next]_vars PROVE Safe'
  OBVIOUS
<1> USE CodecAssumption DEF Safe, Sized, Done
<1>0. /\ hdr.length \in Nat
      /\ framed_size_u64(hdr.length) \in Nat /\ framed_size_u64(hdr.length) % 8 = 0
      /\ RECORD_HEADER_SIZE + hdr.length <= framed_size_u64(hdr.length)
      /\ framed_size_u64(hdr.length) < RECORD_HEADER_SIZE + hdr.length + 8
  <2>1. hdr.length \in Nat
    BY HeaderType
  <2> DEFINE f == framed_size_u64(hdr.length)
  <2>2. f \in (RECORD_HEADER_SIZE + hdr.length)..(RECORD_HEADER_SIZE + hdr.length + 7) /\ f % 8 = 0
    BY <2>1, FrameSize
  <2> HIDE DEF f
  <2>3. f \in Nat /\ RECORD_HEADER_SIZE + hdr.length <= f
        /\ f < RECORD_HEADER_SIZE + hdr.length + 8
    BY <2>1, <2>2 DEF RECORD_HEADER_SIZE
  <2> QED BY <2>1, <2>2, <2>3 DEF f
<1>1. CASE ReadHeader
  <2>1. Sized'
    BY <1>1 DEF ReadHeader, remaining, RECORD_HEADER_SIZE
  <2>2. ScanInBounds'
    BY <1>1 DEF ReadHeader, ScanInBounds, remaining, RECORD_HEADER_SIZE
  <2>3. EncodedIsFound'
    <3>1. hdr.length <= max_record_size => framed_size(hdr.length) = framed_size_u64(hdr.length)
      BY <1>0, AllowedFrame
    <3> QED BY <1>0, <1>1, <3>1 DEF ReadHeader, EncodedIsFound, remaining, RECORD_HEADER_SIZE
  <2> QED BY <2>1, <2>2, <2>3
<1>2. CASE ReadBody
  <2>1. hdr.length <= max_record_size =>
            /\ framed_size(hdr.length) = framed_size_u64(hdr.length)
            /\ framed_size_u64(hdr.length) % Usize = framed_size_u64(hdr.length)
    BY <1>0, AllowedFrame
  <2>2. Sized'
    BY <1>0, <1>2, <2>1 DEF ReadBody, remaining, RECORD_HEADER_SIZE, FitsRemaining, decode
  <2>3. ScanInBounds'
    BY <1>0, <1>2, <2>1
       DEF ReadBody, ScanInBounds, remaining, RECORD_HEADER_SIZE, FitsRemaining
  <2>4. EncodedIsFound'
    BY <1>0, <1>2, <2>1
       DEF ReadBody, EncodedIsFound, Encoded, remaining, RECORD_HEADER_SIZE, FitsRemaining,
           decode
  <2> QED BY <2>2, <2>3, <2>4
<1>3. CASE Validate
  <2>1. hdr.length <= max_record_size => framed_size(hdr.length) = framed_size_u64(hdr.length)
    BY <1>0, AllowedFrame
  <2>2. Sized' /\ ScanInBounds'
    BY <1>0, <1>3 DEF Validate, ScanInBounds, Framing, decode
  <2>3. EncodedIsFound'
    BY <1>0, <1>3, <2>1
       DEF Validate, EncodedIsFound, Encoded, decode, RECORD_HEADER_SIZE
  <2> QED BY <2>2, <2>3
<1>4. CASE UNCHANGED vars
  BY <1>4 DEF vars, ScanInBounds, EncodedIsFound, Framing, remaining
<1> QED BY <1>1, <1>2, <1>3, <1>4 DEF Next

(* D11, D6 for every configuration open accepts and every file: the scan    *)
(* stays in the segment and finds every record that was written whole.      *)
THEOREM ScanCorrect == Spec => [](ScanInBounds /\ EncodedIsFound)
<1>1. Safe => ScanInBounds /\ EncodedIsFound
  BY DEF Safe
<1> QED BY ScanInit, ScanStep, <1>1, PTL DEF Spec

(* D6 on its own: what encode_into wrote whole, read_record_at returns, and *)
(* both count the same frame.                                               *)
THEOREM WrittenIsRead == Spec => []EncodedIsFound
BY ScanCorrect, PTL

(* The 91 of the configuration check and the 28 of the scan bound are       *)
(* enough for every payload length and every configuration.                 *)
THEOREM BoundsCorrect == Spec => []BoundsSuffice
<1>1. Safe => BoundsSuffice
  <2> SUFFICES ASSUME Safe, hdr.length <= max_record_size
               PROVE  /\ HEADER_SIZE + framed_size(hdr.length) <= segment_size
                      /\ framed_size(hdr.length) <= scan_bound
    BY DEF BoundsSuffice
  <2>1. hdr.length \in Nat
    BY HeaderType DEF Safe, Sized
  <2> QED BY <2>1, AllowedFrame
<1> QED BY ScanInit, ScanStep, <1>1, PTL DEF Spec
=============================================================================
