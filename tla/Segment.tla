------------------------------ MODULE Segment ------------------------------
(***************************************************************************)
(* One segment file of open-wal, cell by cell: what a commit writes into    *)
(* it, what writeback and crashes leave of that, and how recover_segment    *)
(* (src/recovery.rs) reads it back and zeroes a torn tail.                  *)
(*                                                                          *)
(* Module Wal treats a torn tail as a flag and lets unsynced writes persist *)
(* in offset order.  Here the file is a function from 8-byte cells to       *)
(* contents, so a record may be present in part, pages may reach the device *)
(* in any order, and the zeroing of a tail may stop half way.  Cell 0 is    *)
(* byte 64, right behind the segment header; segment sizes are multiples of *)
(* 8.  What is abstracted:                                                  *)
(*   - a cell holds zeros, bytes no record accounts for (Junk), or one      *)
(*     piece of the encoding of an LSN and a payload; two encodings with    *)
(*     the same LSN and payload are the same bytes;                         *)
(*   - a record decodes iff all its pieces are there (no CRC collisions);   *)
(*   - the 64-byte header, the directory and the other segments are Wal's:  *)
(*     the caller of recover_segment has validated the header.              *)
(* Some operators have a second form right before them that no action uses: *)
(* a plausible mistake, which a property of some run must notice.           *)
(***************************************************************************)
EXTENDS Integers, Sequences

CONSTANTS
    Payloads,       \* what the caller appends
    Length,         \* the length of each payload in bytes
    ZeroFilled,     \* the payloads whose bytes are all zero
    Limits,         \* the max_record_size values the log is opened with
    SegmentCells,   \* cells behind the header, (segment_size - 64) / 8
    MaxLsn,         \* u64::MAX
    PageCells,      \* cells of a page, the unit of writeback
    Settings        \* where the segment lies and what may happen to it

HeaderCells == 3    \* cells a 20-byte record header reaches into
Cells == 0..(SegmentCells - 1)
Pages == 0..((SegmentCells - 1) \div PageCells)

(* framed_size: header and payload, padded to a multiple of 8.              *)
Frame(p) == (Length[p] + 27) \div 8

(* scan_bound, in cells.                                                    *)
ScanBound(m) == (m + 28) \div 8

(* The configuration check of open_seeded, max_record_size + 91 <=          *)
(* segment_size, in cells behind the header.                                *)
ValidConfig(m) == m + 27 <= 8 * SegmentCells

ASSUME SegmentAssumption ==
    /\ SegmentCells \in Nat \ {0} /\ PageCells \in Nat \ {0}
    /\ Length \in [Payloads -> Nat] /\ ZeroFilled \subseteq Payloads
    /\ Limits \subseteq Nat /\ \A m \in Limits : ValidConfig(m)
    /\ MaxLsn \in Nat

(* A setting:                                                               *)
(*   base        the base LSN of the segment                                *)
(*   powerLoss   may the machine lose power?                                *)
(*   anyOrder    may pages reach the device in any order?                   *)
(*   zeroStep    cells zeroed between two points where a kill can fall      *)
(*   zeroWhole   does the device persist a zeroed tail as a whole?          *)
(*   warmReopen  may the log be reopened while writes of the previous       *)
(*               process are still only in the page cache?                  *)
(*   maxCuts     how many times the file may be cut short                   *)
ASSUME SettingsAssumption ==
    \A e \in Settings :
        e \in [base : 1..MaxLsn, powerLoss : BOOLEAN, anyOrder : BOOLEAN,
              zeroStep : 1..SegmentCells, zeroWhole : BOOLEAN, warmReopen : BOOLEAN, maxCuts : Nat]

VARIABLES
    cache, disk,    \* the file in the page cache and on the device
    pc,             \* what the handle is doing, or "closed"/"failed"
    max,            \* max_record_size of the running process
    offset,         \* the scan's offset, then write_offset
    cursor,         \* how far the zeroing of a torn tail has come
    found,          \* payloads of the records the running scan has accepted
    log,            \* payloads of the records of the log: recovered, then
                    \* appended (the staging buffer is its end)
    durable,        \* how many of them durable_lsn covers
    poisoned,
    sealed,         \* how many records the segment held when it was sealed
    acked,          \* history: how many records a commit has acknowledged
    cuts,           \* history: how often the file has been cut short
    env             \* the setting of this behaviour

vars == <<cache, disk, pc, max, offset, cursor, found, log, durable, poisoned,
          sealed, acked, cuts, env>>
fileVars == <<cache, disk>>
scanVars == <<offset, cursor, found>>
logVars == <<log, durable, acked>>
fixedVars == <<max, sealed, cuts, env>>

Capacity == MaxLsn - env.base + 1   \* records until the LSNs are exhausted

-----------------------------------------------------------------------------
(* Cells and records.                                                       *)

Zero == <<0>>
Junk == <<1>>

(* Cell k of the encoding of payload p under LSN l: the CRC and the length, *)
(* the LSN, the record type and the payload from its start on.  Behind the  *)
(* header a zero payload is not to be told from the pre-allocated zeros.    *)
Piece(l, p, k) == IF k >= HeaderCells /\ p \in ZeroFilled THEN Zero ELSE <<l, p, k>>

Cell == {Zero, Junk} \cup {<<l, p, k>> : l \in 1..MaxLsn, p \in Payloads, k \in Cells}

(* size is the physical length of the file; cells behind it read as zeros   *)
(* once a write extends the file over them.                                 *)
File == [cells : [Cells -> Cell], size : 0..SegmentCells]

NewFile == [cells |-> [c \in Cells |-> Zero], size |-> SegmentCells]

Starts(c) == Len(c) = 3 /\ c[3] = 0     \* the first cell of an encoding

(* A record decodes at o: not longer than m, not over the end of the        *)
(* segment or of the file, and every byte as it was encoded.                *)
RecordAt(f, o, m) ==
    /\ o < SegmentCells
    /\ Starts(f.cells[o])
    /\ LET l == f.cells[o][1]
           p == f.cells[o][2]
       IN  /\ Length[p] <= m
           /\ o + Frame(p) <= SegmentCells
           /\ o + Frame(p) <= f.size
           /\ \A k \in 0..(Frame(p) - 1) : f.cells[o + k] = Piece(l, p, k)

(* ScanOutcome::CleanEnd of read_record_at: no room for a header, or an     *)
(* all-zero one.                                                            *)
ZeroHeader(f, o) == \A k \in 0..(HeaderCells - 1) : f.cells[o + k] = Zero

CleanEnd(f, o) ==
    \/ SegmentCells - o < HeaderCells
    \/ f.size - o >= HeaderCells /\ ZeroHeader(f, o)

(* forward_scan_finds_valid at x: a record the log could continue with, at  *)
(* a cell behind x that is within the bound.                                *)
ForwardScanExact(f, x, expected, m) ==  \* the earlier lsn == expected
    \E o \in Cells :
        /\ o > x /\ o <= x + 1 + ScanBound(m)
        /\ RecordAt(f, o, m)
        /\ f.cells[o][1] = expected

ForwardScanFindsValid(f, x, expected, m) ==
    \E o \in Cells :
        /\ o > x /\ o <= x + 1 + ScanBound(m)
        /\ RecordAt(f, o, m)
        /\ f.cells[o][1] >= expected

-----------------------------------------------------------------------------
(* The file under the process: writes go to the cache.                      *)

MaxOf(a, b) == IF a > b THEN a ELSE b
MinOf(a, b) == IF a < b THEN a ELSE b

(* The cells of s from o on, as pwrite leaves them; the file grows to them. *)
Write(f, o, s) ==
    [cells |-> [c \in Cells |-> IF c \in o..(o + Len(s) - 1) THEN s[c - o + 1]
                                ELSE f.cells[c]],
     size |-> IF s = <<>> THEN f.size ELSE MaxOf(f.size, o + Len(s))]

(* The encoding of the log's records i+1 .. j, one after the other.         *)
EncodeInto(i, j) ==
    LET F[n \in i..j] ==
            IF n = i THEN <<>>
            ELSE F[n - 1] \o [k \in 1..Frame(log[n]) |->
                                  Piece(env.base + n - 1, log[n], k - 1)]
    IN  F[j]

(* How many staged records the rest of the segment takes (step 1 of the     *)
(* loop of commit).                                                         *)
Prefix ==
    CHOOSE n \in durable..Len(log) :
        /\ Len(EncodeInto(durable, n)) <= SegmentCells - offset
        /\ n = Len(log) \/ Len(EncodeInto(durable, n + 1)) > SegmentCells - offset

-----------------------------------------------------------------------------
(* recover_segment.                                                         *)

Recovering == {"scan", "zero"}

(* open reaches the segment.  The configuration is not stored in the log:   *)
(* the caller passes one that still covers the records it has written.      *)
Open ==
    /\ pc = "closed"
    /\ env.warmReopen \/ cache = disk
    /\ max' \in Limits /\ max' >= max
    /\ pc' = "scan" /\ offset' = 0 /\ found' = <<>>
    /\ UNCHANGED <<fileVars, cursor, logVars, poisoned, sealed, cuts, env>>

(* The LSN that must come next; none behind u64::MAX.                       *)
Exhausted == Len(found) = Capacity
Expected == env.base + Len(found)

InOrder == ~Exhausted /\ RecordAt(cache, offset, max) /\ cache.cells[offset][1] = Expected

ScanRecord ==
    /\ pc = "scan"
    /\ InOrder
    /\ LET p == cache.cells[offset][2]
       IN  /\ found' = Append(found, p)
           /\ offset' = offset + Frame(p)
    /\ UNCHANGED <<fileVars, pc, cursor, logVars, poisoned, fixedVars>>

(* open fails, or succeeds: what the scan found is the log, and the segment *)
(* is the one that is written to.                                           *)
Fail == pc' = "failed" /\ UNCHANGED <<scanVars, log, durable>>

Opened ==
    /\ pc' = "idle"
    /\ log' = found /\ durable' = Len(found)
    /\ cursor' = 0 /\ found' = <<>>
    /\ UNCHANGED offset

(* The process has let go of the file.                                      *)
Closed ==
    /\ pc' = "closed" /\ poisoned' = FALSE
    /\ offset' = 0 /\ cursor' = 0 /\ found' = <<>> /\ durable' = 0

(* The end of the records.  Behind a sealed segment comes one whose base    *)
(* continues the LSNs it held when it was sealed, or open reports           *)
(* ContiguityViolation.                                                     *)
ScanEnd ==
    /\ pc = "scan"
    /\ CleanEnd(cache, offset)
    /\ IF sealed > 0
       THEN IF Len(found) = sealed
            THEN Closed /\ UNCHANGED log
            ELSE Fail /\ UNCHANGED poisoned
       ELSE Opened /\ UNCHANGED poisoned
    /\ UNCHANGED <<fileVars, acked, fixedVars>>

(* An invalid record, or one out of order: fatal in a sealed segment and    *)
(* where a later record follows, a torn tail otherwise.                     *)
TornTailFromHeader ==       \* zeroing from the first record on
    /\ pc' = "zero" /\ cursor' = 0
    /\ UNCHANGED <<offset, found, log, durable>>

TornTail ==
    /\ pc' = "zero" /\ cursor' = offset
    /\ UNCHANGED <<offset, found, log, durable>>

Classify ==
    /\ pc = "scan"
    /\ ~CleanEnd(cache, offset) /\ ~InOrder /\ ~Exhausted
    /\ IF sealed > 0 \/ ForwardScanFindsValid(cache, offset, Expected, max)
       THEN Fail
       ELSE TornTail
    /\ UNCHANGED <<fileVars, acked, poisoned, fixedVars>>

(* Anything but zeros behind the record with the last LSN: corruption,      *)
(* unless the file ends there and what is left of it is zero.               *)
AtCapacityFatal ==          \* without the rule for a file that was cut short
    /\ pc = "scan"
    /\ ~CleanEnd(cache, offset) /\ Exhausted
    /\ Fail
    /\ UNCHANGED <<fileVars, acked, poisoned, fixedVars>>

AtCapacity ==
    /\ pc = "scan"
    /\ ~CleanEnd(cache, offset) /\ Exhausted
    /\ IF /\ sealed = 0
          /\ cache.size - offset < HeaderCells
          /\ \A c \in offset..(cache.size - 1) : cache.cells[c] = Zero
       THEN TornTail
       ELSE Fail
    /\ UNCHANGED <<fileVars, acked, poisoned, fixedVars>>

(* zero_to_eof: write_zeros in chunks from the boundary to the end of the   *)
(* segment, which also gives a shortened file its size back, then one sync. *)
(* A failed write or sync makes open fail (CloseHandle).                    *)
ZeroOneChunk ==             \* a bounded window instead of the whole tail
    /\ pc = "zero" /\ cursor < SegmentCells
    /\ cursor' = SegmentCells
    /\ cache' = Write(cache, cursor,
                      [k \in 1..MinOf(HeaderCells, SegmentCells - cursor) |-> Zero])
    /\ UNCHANGED <<disk, pc, offset, found, logVars, poisoned, fixedVars>>

ZeroChunkAgain ==           \* the loop without its off += n
    /\ pc = "zero" /\ cursor < SegmentCells
    /\ cache' = Write(cache, cursor,
                      [k \in 1..MinOf(env.zeroStep, SegmentCells - cursor) |-> Zero])
    /\ UNCHANGED <<disk, pc, scanVars, logVars, poisoned, fixedVars>>

ZeroChunk ==
    /\ pc = "zero" /\ cursor < SegmentCells
    /\ cursor' = MinOf(cursor + env.zeroStep, SegmentCells)
    /\ cache' = Write(cache, cursor, [k \in 1..(cursor' - cursor) |-> Zero])
    /\ UNCHANGED <<disk, pc, offset, found, logVars, poisoned, fixedVars>>

ZeroSyncMissing ==          \* the zeros are left to writeback
    /\ pc = "zero" /\ cursor = SegmentCells
    /\ Opened
    /\ UNCHANGED <<fileVars, acked, poisoned, fixedVars>>

ZeroSync ==
    /\ pc = "zero" /\ cursor = SegmentCells
    /\ disk' = cache
    /\ Opened
    /\ UNCHANGED <<cache, acked, poisoned, fixedVars>>

-----------------------------------------------------------------------------
(* The writer.                                                              *)

AppendRecord(p) ==
    /\ pc = "idle" /\ ~poisoned
    /\ Length[p] <= max
    /\ Len(log) < Capacity
    /\ log' = Append(log, p)
    /\ UNCHANGED <<fileVars, pc, scanVars, durable, acked, poisoned, fixedVars>>

(* commit with something staged; its loop runs until the records are        *)
(* written, rolling to the next segment when the next one does not fit.     *)
Commit ==
    /\ pc = "idle" /\ ~poisoned
    /\ durable < Len(log)
    /\ pc' = "commit"
    /\ UNCHANGED <<fileVars, scanVars, logVars, poisoned, fixedVars>>

CommitWrite ==
    /\ pc = "commit"
    /\ Prefix > durable
    /\ cache' = Write(cache, offset, EncodeInto(durable, Prefix))
    /\ pc' = "sync"
    /\ UNCHANGED <<disk, scanVars, logVars, poisoned, fixedVars>>

(* The write stops early, at an error or because the process is killed.     *)
CommitWriteFailsGoesOn ==   \* the batch is dropped and the handle stays usable
    /\ pc = "commit"
    /\ Prefix > durable
    /\ \E n \in 0..(Len(EncodeInto(durable, Prefix)) - 1) :
          cache' = Write(cache, offset, SubSeq(EncodeInto(durable, Prefix), 1, n))
    /\ pc' = "idle" /\ log' = SubSeq(log, 1, durable)
    /\ UNCHANGED <<disk, scanVars, durable, acked, poisoned, fixedVars>>

CommitWriteFails ==
    /\ pc = "commit"
    /\ Prefix > durable
    /\ \E n \in 0..(Len(EncodeInto(durable, Prefix)) - 1) :
          cache' = Write(cache, offset, SubSeq(EncodeInto(durable, Prefix), 1, n))
    /\ pc' = "idle" /\ poisoned' = TRUE
    /\ UNCHANGED <<disk, scanVars, logVars, fixedVars>>

CommitSyncAcksFirst ==      \* durable_lsn advanced before the sync
    /\ pc = "sync"
    /\ offset' = offset + Len(EncodeInto(durable, Prefix))
    /\ durable' = Prefix /\ acked' = Prefix
    /\ pc' = IF Prefix < Len(log) THEN "commit" ELSE "idle"
    /\ UNCHANGED <<fileVars, cursor, found, log, poisoned, fixedVars>>

CommitSyncInPlace ==        \* write_offset is not advanced
    /\ pc = "sync"
    /\ disk' = cache
    /\ durable' = Prefix /\ acked' = Prefix
    /\ pc' = IF Prefix < Len(log) THEN "commit" ELSE "idle"
    /\ UNCHANGED <<cache, scanVars, log, poisoned, fixedVars>>

CommitSync ==
    /\ pc = "sync"
    /\ disk' = cache
    /\ offset' = offset + Len(EncodeInto(durable, Prefix))
    /\ durable' = Prefix /\ acked' = Prefix
    /\ pc' = IF Prefix < Len(log) THEN "commit" ELSE "idle"
    /\ UNCHANGED <<cache, cursor, found, log, poisoned, fixedVars>>

CommitSyncFails ==
    /\ pc = "sync"
    /\ pc' = "idle" /\ poisoned' = TRUE
    /\ UNCHANGED <<fileVars, scanVars, logVars, fixedVars>>

(* The roll: the next record does not fit, the rest of the staging buffer   *)
(* goes to the next segment, and this one is not written again.             *)
Roll ==
    /\ pc = "commit"
    /\ Prefix = durable
    /\ sealed' = durable
    /\ log' = SubSeq(log, 1, durable)
    /\ Closed
    /\ UNCHANGED <<fileVars, acked, max, cuts, env>>

(* The handle is dropped, open fails on an I/O error, or the process dies.  *)
CloseHandle ==
    /\ pc # "closed"
    /\ Closed
    /\ UNCHANGED <<fileVars, log, acked, fixedVars>>

-----------------------------------------------------------------------------
(* The environment: writeback, power loss, a file that is cut short.        *)

OfPage(g) == {c \in Cells : c \div PageCells = g}

DirtyPages == {g \in Pages : \E c \in OfPage(g) : cache.cells[c] # disk.cells[c]}

(* A page reaches the device; with zeroWhole every zero of a tail with it.  *)
Writeback(g) ==
    /\ g \in DirtyPages
    /\ ~env.anyOrder => \A h \in DirtyPages : g <= h
    /\ LET out == OfPage(g) \cup
                  (IF env.zeroWhole THEN {c \in Cells : cache.cells[c] = Zero} ELSE {})
       IN  disk' = [cells |-> [c \in Cells |-> IF c \in out THEN cache.cells[c]
                                               ELSE disk.cells[c]],
                    size |-> cache.size]
    /\ UNCHANGED <<cache, pc, max, scanVars, logVars, poisoned, sealed, cuts, env>>

LosePower ==
    /\ env.powerLoss
    /\ cache' = disk
    /\ Closed
    /\ UNCHANGED <<disk, log, acked, fixedVars>>

(* How many of the log's records lie below cell n.                          *)
Below(n) ==
    CHOOSE k \in 0..Len(log) :
        /\ Len(EncodeInto(0, k)) <= n
        /\ k = Len(log) \/ Len(EncodeInto(0, k + 1)) > n

(* The closed active file loses its end: a partial copy, or a truncation    *)
(* (that of a sealed segment is damage, and Corruption, by design).         *)
Cut(n) ==
    /\ pc = "closed" /\ sealed = 0
    /\ cuts < env.maxCuts
    /\ n < cache.size
    /\ cache = disk
    /\ cache' = [cells |-> [c \in Cells |-> IF c < n THEN cache.cells[c] ELSE Zero],
                 size |-> n]
    /\ disk' = cache'
    /\ acked' = MinOf(acked, Below(n))
    /\ cuts' = cuts + 1
    /\ UNCHANGED <<pc, max, scanVars, log, durable, poisoned, sealed, env>>

-----------------------------------------------------------------------------
Init ==
    /\ cache = NewFile /\ disk = NewFile
    /\ pc = "closed"
    /\ max = 0 /\ offset = 0 /\ cursor = 0
    /\ found = <<>> /\ log = <<>> /\ durable = 0
    /\ poisoned = FALSE
    /\ sealed = 0 /\ acked = 0 /\ cuts = 0
    /\ env \in Settings

Recovery == ScanRecord \/ ScanEnd \/ Classify \/ AtCapacity \/ ZeroChunk \/ ZeroSync

Writer ==
    \/ \E p \in Payloads : AppendRecord(p)
    \/ Commit \/ CommitWrite \/ CommitWriteFails
    \/ CommitSync \/ CommitSyncFails \/ Roll \/ CloseHandle

Environment ==
    \/ \E g \in Pages : Writeback(g)
    \/ LosePower
    \/ \E n \in 0..SegmentCells : Cut(n)

Next == Open \/ Recovery \/ Writer \/ Environment

Spec == Init /\ [][Next]_vars

-----------------------------------------------------------------------------
(* Every record a commit acknowledged is in the log that a later open       *)
(* hands out, with the payload it had: what recover_segment truncates or    *)
(* skips was never acknowledged, however the pages of the unsynced writes   *)
(* reached the device.                                                      *)
AckedKept ==
    [][(pc \in Recovering /\ pc' = "idle") =>
        (/\ Len(log') >= acked
         /\ \A i \in 1..acked : log'[i] = log[i])]_vars

(* Pages that persist in the order they were written, in a file whose end   *)
(* nobody takes away.                                                       *)
InOrderWrites == ~env.anyOrder
Intact == cuts = 0

(* The log an open hands out is the beginning of the log as it was written: *)
(* no record of a tail that an earlier open gave up comes back (D10), with  *)
(* pages that persist in order.                                             *)
NoResurrection ==
    [][(InOrderWrites /\ pc \in Recovering /\ pc' = "idle") =>
        (/\ Len(log') <= Len(log)
         /\ \A i \in 1..Len(log') : log'[i] = log[i])]_vars

(* What the handle believes is what the file holds: the encodings of the    *)
(* records up to durable_lsn lie in front of write_offset, one after the    *)
(* other, so a reader or an open that follows finds the same log (D7).      *)
HandleIsFile ==
    pc = "idle" /\ ~poisoned =>
        /\ offset = Len(EncodeInto(0, durable))
        /\ \A c \in 0..(offset - 1) : cache.cells[c] = EncodeInto(0, durable)[c + 1]

(* Behind write_offset every byte of the file is zero, not only the header  *)
(* the scan stopped at: a record written there is followed by the sentinel, *)
(* and a roll seals a segment without leftovers.  With pages that persist   *)
(* in order.                                                                *)
TailIsZero ==
    InOrderWrites /\ pc = "idle" /\ ~poisoned =>
        \A c \in offset..(SegmentCells - 1) : cache.cells[c] = Zero

(* Nothing but damage to stored bytes makes the active segment unreadable:  *)
(* with pages that persist in order, what a crash leaves of a batch that    *)
(* was not acknowledged is a torn tail, never TornMidLog or Corruption      *)
(* (D9), and so is a file cut short.                                        *)
ActiveOpens == InOrderWrites => (pc = "failed" => sealed > 0)

(* A sealed segment opens: it was complete and had a clean end when the     *)
(* roll left it, so no crash turns it into Corruption, as long as pages     *)
(* persist in order and the file was not cut short.                         *)
SealedOpens == InOrderWrites /\ Intact => (pc = "failed" => sealed = 0)
=============================================================================
