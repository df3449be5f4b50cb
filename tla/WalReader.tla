------------------------------ MODULE WalReader ------------------------------
(***************************************************************************)
(* The replay reader of open-wal (reader_from of src/wal.rs, src/reader.rs) *)
(* on top of the writer.                                                    *)
(*                                                                          *)
(* A Reader borrows the Wal, so no call of the writer runs while one is     *)
(* alive; it can only be dropped, or die with the process.  reader_from     *)
(* does not look at the poison flag: a handle that failed a commit, a roll  *)
(* or a checkpoint can still be read.  A step is one turn of the loop of    *)
(* Reader::next.                                                            *)
(***************************************************************************)
EXTENDS Wal

VARIABLES
    reader,         \* "none", "reading", "end" or the error it returned
    from,           \* the LSN the caller asked for (Lsn::FIRST for 0)
    file,           \* the base of the segment the reader has open
    offset,         \* its place in that file
    expected_lsn,   \* the LSN the next record must have; MaxLsn + 1 when there
                    \* is no such LSN
    yielded         \* what the caller was given so far

readerVars == <<reader, from, file, offset, expected_lsn, yielded>>

ReaderInit ==
    /\ Init
    /\ reader = "none" /\ from = 0 /\ file = 0 /\ offset = 0 /\ expected_lsn = 0
    /\ yielded = {}

(* containing_segment_idx: the newest segment that starts at or below lsn,  *)
(* or the oldest one.                                                       *)
StartsAbove(lsn, b) ==              \* the segment one too far
    \/ Lowest(b, {c \in segments : c >= lsn})
    \/ Highest(b, segments) /\ b < lsn

Containing(lsn, b) ==
    \/ Highest(b, {c \in segments : c <= lsn})
    \/ Lowest(b, segments) /\ lsn < b

Reset(outcome) ==
    /\ reader' = outcome
    /\ from' = 0 /\ file' = 0 /\ offset' = 0 /\ expected_lsn' = 0 /\ yielded' = {}

(* reader_from fails: the records are gone, or the file is.                 *)
ReaderRefused(lsn) ==
    /\ reader = "none" /\ pc = "idle" /\ IsOpen
    /\ \/ lsn # 0 /\ lsn < oldest_lsn /\ Reset("ContiguityViolation")
       \/ /\ lsn = 0 \/ lsn >= oldest_lsn
          /\ \E b \in segments \ dir : Containing(IF lsn = 0 THEN 1 ELSE lsn, b)
          /\ Reset("NotFound")
    /\ UNCHANGED vars

ReaderFrom(lsn) ==
    /\ reader = "none" /\ pc = "idle" /\ IsOpen
    /\ lsn = 0 \/ lsn >= oldest_lsn
    /\ from' = IF lsn = 0 THEN 1 ELSE lsn
    /\ \E b \in segments \cap dir :
        /\ Containing(from', b)
        /\ file' = b /\ expected_lsn' = b
    /\ reader' = "reading" /\ offset' = HeaderSize /\ yielded' = {}
    /\ UNCHANGED vars

(* A record at the offset, in sequence: it is passed over below from and    *)
(* yielded from there on.                                                   *)
At(r) == r \in cache[file].recs /\ r.start = offset

InOrder(r) == r.lsn >= expected_lsn \* only a repeated LSN ends the stream
InSequence(r) == r.lsn = expected_lsn

ReaderRecord ==
    /\ reader = "reading"
    /\ \E r \in cache[file].recs :
        /\ At(r) /\ InSequence(r)
        /\ offset' = End(r) /\ expected_lsn' = r.lsn + 1
        /\ yielded' = IF r.lsn < from THEN yielded ELSE yielded \cup Contents({r})
    /\ UNCHANGED <<vars, reader, from, file>>

(* A record out of sequence ends the stream.                                *)
ReaderBreak ==
    /\ reader = "reading"
    /\ \E r \in cache[file].recs : At(r) /\ ~InSequence(r)
    /\ reader' = "end"
    /\ UNCHANGED <<vars, from, file, offset, expected_lsn, yielded>>

(* advance_segment takes the next base of the list.                         *)
SameSegment(n) == n = file          \* seg_idx is not moved on
NextSegment(n) == Next_(file, n, segments)

(* No valid record here: on to the next segment, whose first record must    *)
(* continue the sequence ...                                                *)
ReaderAdvance ==
    /\ reader = "reading" /\ ~\E r \in cache[file].recs : At(r)
    /\ \E n \in dir : NextSegment(n) /\ file' = n
    /\ offset' = HeaderSize
    /\ UNCHANGED <<vars, reader, from, expected_lsn, yielded>>

(* ... or the end of the log.                                               *)
ReaderEnd ==
    /\ reader = "reading" /\ ~\E r \in cache[file].recs : At(r)
    /\ ~\E n \in segments : NextSegment(n)
    /\ reader' = "end"
    /\ UNCHANGED <<vars, from, file, offset, expected_lsn, yielded>>

(* A read, or the open of the next segment, fails.  That the file of the    *)
(* next segment is gone never happens: a checkpoint unlinks oldest first.   *)
ReaderFails ==
    /\ reader = "reading"
    /\ IoFaults \/ \E n \in segments \ dir : NextSegment(n)
    /\ reader' = "Io"
    /\ UNCHANGED <<vars, from, file, offset, expected_lsn, yielded>>

ReaderDrop ==
    /\ reader # "none"
    /\ Reset("none")
    /\ UNCHANGED vars

(* The writer runs only when no reader borrows it; a crash takes both.      *)
WriterStep == reader = "none" /\ Next /\ UNCHANGED readerVars

ReaderDies == reader # "none" /\ (Kill \/ LosePower) /\ Reset("none")

(* A clean page of an open file is evicted, and the device has corrupted it *)
(* when it is read again.                                                   *)
ReaderRot ==
    /\ reader = "reading" /\ faults < MediaFaults
    /\ \E b \in {c \in dir : disk[c] = cache[c]} : \E r \in disk[b].recs :
        Rot(b, r) /\ cache' = [cache EXCEPT ![b] = disk'[b]]
    /\ faults' = faults + 1
    /\ UNCHANGED <<dir, ddir, pc, target, doomed, segVars, lsnVars, bufVars, poisoned, err,
                   acked, released, readerVars>>

ReaderStep == ReaderRecord \/ ReaderBreak \/ ReaderAdvance \/ ReaderEnd

ReaderNext ==
    \/ WriterStep \/ ReaderDies \/ ReaderStep \/ ReaderFails \/ ReaderDrop \/ ReaderRot
    \/ \E lsn \in 0..MaxLsn : ReaderRefused(lsn) \/ ReaderFrom(lsn)

ReaderSpec == ReaderInit /\ [][ReaderNext]_<<vars, readerVars>>

(* A caller that reads to the end, with no fault forced on it.              *)
FairReaderSpec == ReaderSpec /\ WF_<<vars, readerVars>>(ReaderStep)

-----------------------------------------------------------------------------
(* Properties                                                               *)

Lsn(recs) == {r.lsn : r \in recs}

(* D6: a reader of a healthy handle that ran to the end has yielded exactly *)
(* the records the device holds from the requested LSN up to the durable    *)
(* one: nothing is skipped at a segment boundary, nothing comes twice, and  *)
(* the page cache showed it nothing that is not durable.                    *)
ReplayExact ==
    reader = "end" /\ ~poisoned /\ faults = 0 =>
        /\ yielded = {a \in Stored(dir \cap ddir, disk) : a.lsn >= from}
        /\ Lsn(yielded) = {n \in oldest_lsn..durable_lsn : n >= from}

(* A reader in the middle of the log has yielded a gap-free run of LSNs     *)
(* that begins at the requested one or at the retention floor, on a         *)
(* poisoned handle and over corrupted segments too: the stream may end      *)
(* early but never jumps.                                                   *)
ReplayDense ==
    reader \in {"reading", "end"} =>
        \E low \in {from, oldest_lsn} :
            /\ from <= low
            /\ Lsn(yielded) = {n \in Lsns : low <= n /\ n < expected_lsn}

(* reader_from at or above the floor of a healthy handle finds the segment  *)
(* it starts in.                                                            *)
ReaderServed == reader = "NotFound" => poisoned

(* The loop of next ends whatever it finds in the segments.                 *)
ReplayEnds == reader = "reading" ~> reader # "reading"
=============================================================================
