-------------------------------- MODULE Wal --------------------------------
(***************************************************************************)
(* The single-writer write-ahead log of open-wal (src/wal.rs) over a file   *)
(* system that has a page cache and a device.                               *)
(*                                                                          *)
(* A step is one system call of a call of the API (one write, one fsync,    *)
(* one unlink) together with the memory updates up to the next one, so a    *)
(* crash falls between any two of them.  What is abstracted:                *)
(*   - bytes: a segment is the set of framed records it holds, each at its  *)
(*     byte range (offsets count 8-byte units), a flag for invalid bytes    *)
(*     right behind the record run, and the state of its 64-byte header.    *)
(*     Unsynced writes reach the device in offset order; writeback in any   *)
(*     other order is a question for a byte-level model of one segment;     *)
(*   - the sorted Vec of segment bases is the set of the bases;             *)
(*   - calls that return an error before touching anything (Poisoned,       *)
(*     RecordTooLarge, LsnExhausted, InvalidConfig) are guards.             *)
(* Some operators have a second form right before them that no action uses: *)
(* a plausible mistake, which a property of some run must notice.           *)
(***************************************************************************)
EXTENDS Integers

CONSTANTS
    Payloads,       \* what the caller appends
    Framed,         \* size of the framed record of each payload
    MaxFramed,      \* framed size of a record of max_record_size bytes
    HeaderSize,     \* size of the segment header
    SegmentSize,    \* WalConfig.segment_size
    MaxLsn,         \* u64::MAX
    Seeds,          \* the cold-start origins callers pass
    IoFaults,       \* may a system call fail?
    PowerLoss,      \* may the machine lose power?
    WarmReopen,     \* may the log be reopened while writes of the previous
                    \* process are still only in the page cache?
    OrderedUnlink,  \* do unsynced unlinks reach the device in issue order?
    MediaFaults     \* how many times the device may corrupt stored bytes

Lsns == 1..MaxLsn

(* The configuration check of open_seeded: a record of any allowed size     *)
(* fits an empty segment.                                                   *)
ValidConfig == HeaderSize + MaxFramed <= SegmentSize

ASSUME ConfigAssumption ==
    /\ HeaderSize \in Nat /\ SegmentSize \in Nat /\ MaxFramed \in Nat
    /\ ValidConfig
    /\ Framed \in [Payloads -> Nat \ {0}]
    /\ MaxLsn \in Nat \ {0}
    /\ Seeds \subseteq Lsns

ASSUME EnvironmentAssumption ==
    /\ IoFaults \in BOOLEAN /\ PowerLoss \in BOOLEAN
    /\ WarmReopen \in BOOLEAN /\ OrderedUnlink \in BOOLEAN
    /\ MediaFaults \in Nat

VARIABLES
    dir, ddir,      \* segment names: in the cached directory, on the device
    cache, disk,    \* segment contents: in the page cache, on the device
    pc,             \* the next step of the running call, or "closed"/"idle"
    target,         \* the base of the segment being created, or the seed
    doomed,         \* the segments the running checkpoint deletes
    segments, active, write_offset, oldest_lsn, last_lsn, durable_lsn,
    staging,        \* the records of the staging buffer ...
    staging_len,    \* ... and its length
    pos, scan,      \* commit's cursors into the staging buffer
    poisoned,
    err,            \* the fatal error of the last open, or "none"
    acked,          \* history: records a commit has reported as durable
    released,       \* history: the largest up_to given to checkpoint
    faults, rotten  \* history: media faults so far, records they destroyed

fsVars == <<dir, ddir, cache, disk>>
segVars == <<segments, active, write_offset, oldest_lsn>>
lsnVars == <<last_lsn, durable_lsn>>
bufVars == <<staging, staging_len, pos, scan>>
mediaVars == <<faults, rotten>>
ghostVars == <<acked, released, mediaVars>>
vars == <<fsVars, pc, target, doomed, segVars, lsnVars, bufVars, poisoned, err,
          ghostVars>>

-----------------------------------------------------------------------------
(* Records and segment files.                                               *)

Record == [lsn : Lsns, pay : Payloads, start : Nat]

(* A record occupies its framed size from start on.                         *)
End(r) == r.start + Framed[r.pay]

Headers == {"empty", "zero", "ok"}  \* no bytes; allocated; written and valid

File == [hdr : Headers, recs : SUBSET Record, torn : BOOLEAN]

NewFile == [hdr |-> "empty", recs |-> {}, torn |-> FALSE]

(* The records of f that a scan from the header meets before anything else: *)
(* they tile the file from HeaderSize on and their LSNs count up from b.    *)
InRun(f, b, r) ==
    \A s \in f.recs : s.start <= r.start =>
        \/ s.start = HeaderSize /\ s.lsn = b
        \/ \E q \in f.recs : End(q) = s.start /\ s.lsn = q.lsn + 1

Run(f, b) == {r \in f.recs : InRun(f, b, r)}

(* max_lsn and write_offset of SegmentRecovery: both from the last record.  *)
LastRecord(f, b) == CHOOSE r \in Run(f, b) : \A s \in Run(f, b) : s.lsn <= r.lsn

RunLast(f, b) == IF Run(f, b) = {} THEN b - 1 ELSE LastRecord(f, b).lsn

RunEnd(f, b) == IF Run(f, b) = {} THEN HeaderSize ELSE End(LastRecord(f, b))

(* read_record_at at the end of the run: Invalid rather than CleanEnd.      *)
Invalid(f, b) ==
    \/ f.torn
    \/ \E r \in f.recs \ Run(f, b) : r.start = RunEnd(f, b)

(* forward_scan_finds_valid: a later record within the bounded window (one  *)
(* unit behind the run, then the max_record_size + 28 bytes of scan_bound,  *)
(* which are at least MaxFramed units).                                     *)
ForwardScanExact(f, b) ==           \* the earlier lsn == expected
    \E r \in f.recs : /\ r.start > RunEnd(f, b)
                      /\ r.start <= RunEnd(f, b) + 1 + MaxFramed
                      /\ r.lsn = RunLast(f, b) + 1

ForwardScanFindsValid(f, b) ==
    \E r \in f.recs : /\ r.start > RunEnd(f, b)
                      /\ r.start <= RunEnd(f, b) + 1 + MaxFramed
                      /\ r.lsn > RunLast(f, b)

(* write_all_at: the records batch at their new place; whatever they        *)
(* overlap is gone.                                                         *)
Overlap(r, s) == r.start < End(s) /\ s.start < End(r)

WriteRecords(f, batch) ==
    [f EXCEPT !.recs = {r \in f.recs : \A s \in batch : ~Overlap(r, s)} \cup batch]

(* The staged records between two cursors, and where they go in a file when *)
(* they are written at offset off.                                          *)
Staged(from, to) == {r \in staging : r.start >= from /\ End(r) <= to}

BatchUnshifted(from, to, off) ==    \* as if the whole buffer were written at off
    {[r EXCEPT !.start = off + r.start] : r \in Staged(from, to)}

Batch(from, to, off) ==
    {[r EXCEPT !.start = off + (r.start - from)] : r \in Staged(from, to)}

-----------------------------------------------------------------------------
(* The directory, and the two system calls that make things durable.        *)

Highest(b, S) == b \in S /\ \A c \in S : c <= b
Lowest(b, S)  == b \in S /\ \A c \in S : b <= c
Next_(b, n, S) == n \in S /\ b < n /\ \A c \in S : b < c => n <= c

fsync_dir_omitted == ddir' = ddir   \* the inject_no_dir_fsync build
fsync_dir == ddir' = dir

sync_data_omitted(b) == disk' = disk
sync_data_fully(b) == disk' = [disk EXCEPT ![b] = cache[b]]

IsOpen == segments # {}

(* The handle is gone: dropped, killed, or open failed.                     *)
NoHandle ==
    /\ segments' = {} /\ active' = 0 /\ write_offset' = 0 /\ oldest_lsn' = 0
    /\ last_lsn' = 0 /\ durable_lsn' = 0
    /\ staging' = {} /\ staging_len' = 0 /\ pos' = 0 /\ scan' = 0
    /\ poisoned' = FALSE /\ target' = 0 /\ doomed' = {}

(* The handle open_seeded returns: active segment a, records up to last.    *)
Handle(a, off, last, oldest) ==
    /\ pc' = "idle"
    /\ segments' = dir /\ active' = a /\ write_offset' = off /\ oldest_lsn' = oldest
    /\ last_lsn' = last /\ durable_lsn' = last
    /\ staging' = {} /\ staging_len' = 0 /\ pos' = 0 /\ scan' = 0
    /\ poisoned' = FALSE /\ target' = 0 /\ doomed' = {}

Init ==
    /\ dir = {} /\ ddir = {}
    /\ cache = [b \in Lsns |-> NewFile] /\ disk = cache
    /\ pc = "closed" /\ target = 0 /\ doomed = {}
    /\ segments = {} /\ active = 0 /\ write_offset = 0 /\ oldest_lsn = 0
    /\ last_lsn = 0 /\ durable_lsn = 0
    /\ staging = {} /\ staging_len = 0 /\ pos = 0 /\ scan = 0
    /\ poisoned = FALSE /\ err = "none"
    /\ acked = {} /\ released = 0 /\ faults = 0 /\ rotten = {}

-----------------------------------------------------------------------------
(* open_seeded                                                              *)

(* Nothing the previous process wrote is still waiting in the page cache.   *)
Settled == ddir = dir /\ disk = cache

OpenStart(seed) ==
    /\ pc = "closed"
    /\ WarmReopen \/ Settled
    /\ pc' = "discover" /\ target' = seed /\ err' = "none"
    /\ UNCHANGED <<fsVars, doomed, segVars, lsnVars, bufVars, poisoned, ghostVars>>

(* No segment: cold_start creates the first one, at the seed.               *)
DiscoverEmpty ==
    /\ pc = "discover" /\ dir = {}
    /\ pc' = "create"
    /\ UNCHANGED <<fsVars, target, doomed, segVars, lsnVars, bufVars, poisoned, err,
                   ghostVars>>

(* discard_incomplete_highest: a valid header is left for recover_all ...   *)
KeepHighest ==
    /\ pc = "discover"
    /\ \E a \in dir : Highest(a, dir) /\ cache[a].hdr = "ok"
    /\ pc' = "recover"
    /\ UNCHANGED <<fsVars, target, doomed, segVars, lsnVars, bufVars, poisoned, err,
                   ghostVars>>

(* ... an invalid one in front of a record is fatal ...                     *)
FirstRecord(f) == \E r \in f.recs : r.start = HeaderSize

RejectHighest ==
    /\ pc = "discover"
    /\ \E a \in dir : Highest(a, dir) /\ cache[a].hdr # "ok" /\ FirstRecord(cache[a])
    /\ pc' = "closed" /\ err' = "BadSegmentHeader"
    /\ NoHandle
    /\ UNCHANGED <<fsVars, ghostVars>>

(* ... and an invalid one in front of nothing is an interrupted create.     *)
DiscardHighest ==
    /\ pc = "discover"
    /\ \E a \in dir : /\ Highest(a, dir)
                      /\ cache[a].hdr # "ok" /\ ~FirstRecord(cache[a])
                      /\ dir' = dir \ {a}
    /\ pc' = "discard"
    /\ UNCHANGED <<ddir, cache, disk, target, doomed, segVars, lsnVars, bufVars, poisoned,
                   err, ghostVars>>

DiscardSync ==
    /\ pc = "discard"
    /\ fsync_dir
    /\ pc' = IF dir = {} THEN "create" ELSE "recover"
    /\ UNCHANGED <<dir, cache, disk, target, doomed, segVars, lsnVars, bufVars, poisoned,
                   err, ghostVars>>

(* recover_all: the error the loop body returns for segment b, when the     *)
(* active segment is a.  recover_segment and classify are the last cases.   *)
SegmentErrorGaps(b, a) ==           \* without the check of prev_max
    LET f == cache[b] IN
    IF f.hdr # "ok" THEN "BadSegmentHeader"
    ELSE IF Invalid(f, b) /\ (b # a \/ RunLast(f, b) = MaxLsn) THEN "Corruption"
    ELSE IF Invalid(f, b) /\ ForwardScanFindsValid(f, b) THEN "TornMidLog"
    ELSE IF b # a /\ Run(f, b) = {} THEN "ContiguityViolation"
    ELSE "none"

SegmentError(b, a) ==
    LET f == cache[b] IN
    IF f.hdr # "ok" THEN "BadSegmentHeader"
    ELSE IF \E p \in dir : Next_(p, b, dir) /\ RunLast(cache[p], p) + 1 # b
        THEN "ContiguityViolation"
    ELSE IF Invalid(f, b) /\ (b # a \/ RunLast(f, b) = MaxLsn) THEN "Corruption"
    ELSE IF Invalid(f, b) /\ ForwardScanFindsValid(f, b) THEN "TornMidLog"
    ELSE IF b # a /\ Run(f, b) = {} THEN "ContiguityViolation"
    ELSE "none"

RecoverFatal ==
    /\ pc = "recover"
    /\ \E a \in dir, b \in dir :
        /\ Highest(a, dir)
        /\ SegmentError(b, a) # "none"
        /\ \A c \in dir : c < b => SegmentError(c, a) = "none"
        /\ err' = SegmentError(b, a)
    /\ pc' = "closed"
    /\ NoHandle
    /\ UNCHANGED <<fsVars, ghostVars>>

(* A clean tail: the handle is built with no further system call.           *)
RecoverClean ==
    /\ pc = "recover"
    /\ \E a \in dir, o \in dir :
        /\ Highest(a, dir) /\ Lowest(o, dir)
        /\ \A b \in dir : SegmentError(b, a) = "none"
        /\ ~Invalid(cache[a], a)
        /\ Handle(a, RunEnd(cache[a], a), RunLast(cache[a], a), o)
    /\ UNCHANGED <<fsVars, err, ghostVars>>

(* A torn tail: zero_to_eof writes zeros behind the run, then syncs.        *)
RecoverTornKept ==                  \* the tail is passed over, not zeroed
    /\ pc = "recover"
    /\ \E a \in dir :
        /\ Highest(a, dir)
        /\ \A b \in dir : SegmentError(b, a) = "none"
        /\ Invalid(cache[a], a)
    /\ pc' = "zero"
    /\ UNCHANGED <<fsVars, target, doomed, segVars, lsnVars, bufVars, poisoned, err,
                   ghostVars>>

RecoverTorn ==
    /\ pc = "recover"
    /\ \E a \in dir :
        /\ Highest(a, dir)
        /\ \A b \in dir : SegmentError(b, a) = "none"
        /\ Invalid(cache[a], a)
        /\ cache' = [cache EXCEPT ![a].recs = Run(cache[a], a), ![a].torn = FALSE]
    /\ pc' = "zero"
    /\ UNCHANGED <<dir, ddir, disk, target, doomed, segVars, lsnVars, bufVars, poisoned,
                   err, ghostVars>>

ZeroSync ==
    /\ pc = "zero"
    /\ \E a \in dir, o \in dir :
        /\ Highest(a, dir) /\ Lowest(o, dir)
        /\ sync_data_fully(a)
        /\ Handle(a, RunEnd(cache[a], a), RunLast(cache[a], a), o)
    /\ UNCHANGED <<dir, ddir, cache, err, ghostVars>>

(* A system call of open fails: the caller gets the error and no handle.    *)
OpenFault ==
    /\ IoFaults
    /\ pc \in {"discover", "discard", "recover", "zero"}
    /\ pc' = "closed"
    /\ NoHandle
    /\ UNCHANGED <<fsVars, err, ghostVars>>

-----------------------------------------------------------------------------
(* segment::create and the directory fsync behind it, for cold_start (no    *)
(* handle yet) and for roll.                                                *)

CreateSteps == {"create", "allocate", "header", "headersync", "dirsync"}

(* create_new: fails on a file that exists.                                 *)
CreateNew ==
    /\ pc = "create" /\ target \notin dir
    /\ dir' = dir \cup {target}
    /\ cache' = [cache EXCEPT ![target] = NewFile]
    /\ disk' = [disk EXCEPT ![target] = NewFile]
    /\ pc' = "allocate"
    /\ UNCHANGED <<ddir, target, doomed, segVars, lsnVars, bufVars, poisoned, err,
                   ghostVars>>

Allocate ==
    /\ pc = "allocate"
    /\ cache' = [cache EXCEPT ![target].hdr = "zero"]
    /\ pc' = "header"
    /\ UNCHANGED <<dir, ddir, disk, target, doomed, segVars, lsnVars, bufVars, poisoned,
                   err, ghostVars>>

WriteHeader ==
    /\ pc = "header"
    /\ cache' = [cache EXCEPT ![target].hdr = "ok"]
    /\ pc' = "headersync"
    /\ UNCHANGED <<dir, ddir, disk, target, doomed, segVars, lsnVars, bufVars, poisoned,
                   err, ghostVars>>

SyncHeader ==
    /\ pc = "headersync"
    /\ sync_data_fully(target)
    /\ pc' = "dirsync"
    /\ UNCHANGED <<dir, ddir, cache, target, doomed, segVars, lsnVars, bufVars, poisoned,
                   err, ghostVars>>

(* cold_start: the log is open and empty.                                   *)
ColdStarted ==
    /\ pc = "dirsync" /\ ~IsOpen
    /\ fsync_dir
    /\ Handle(target, HeaderSize, target - 1, target)
    /\ UNCHANGED <<dir, cache, disk, err, ghostVars>>

(* roll: the new segment is the active one; commit's loop goes on.          *)
ActivateFile(b) == active' = b /\ write_offset' = HeaderSize /\ UNCHANGED segments
ActivateName(b) ==
    /\ write_offset' = HeaderSize /\ segments' = segments \cup {b}
    /\ UNCHANGED active
ActivateKeepOffset(b) ==
    /\ active' = b /\ segments' = segments \cup {b}
    /\ UNCHANGED write_offset
Activate(b) == active' = b /\ write_offset' = HeaderSize /\ segments' = segments \cup {b}

Rolled ==
    /\ pc = "dirsync" /\ IsOpen
    /\ fsync_dir
    /\ Activate(target)
    /\ target' = 0
    /\ pc' = "commit"
    /\ UNCHANGED <<dir, cache, disk, doomed, oldest_lsn, lsnVars, bufVars, poisoned, err,
                   ghostVars>>

PoisonForgotten ==
    /\ pc' = "idle" /\ target' = 0 /\ doomed' = {}
    /\ UNCHANGED <<segVars, lsnVars, bufVars, poisoned, err, ghostVars>>

Poison ==
    /\ poisoned' = TRUE /\ pc' = "idle" /\ target' = 0 /\ doomed' = {}
    /\ UNCHANGED <<segVars, lsnVars, bufVars, err, ghostVars>>

CreateFault ==
    /\ pc \in CreateSteps
    /\ IoFaults \/ (pc = "create" /\ target \in dir)
    /\ \/ IsOpen /\ Poison
       \/ ~IsOpen /\ NoHandle /\ pc' = "closed" /\ UNCHANGED <<err, ghostVars>>
    /\ UNCHANGED fsVars

-----------------------------------------------------------------------------
(* append and commit                                                        *)

Ready == pc = "idle" /\ IsOpen /\ ~poisoned

(* The two checks of append: max_record_size, and an LSN is left.           *)
AnySize(p) == TRUE
SizeAllowed(p) == Framed[p] <= MaxFramed

AlwaysNext(lsn) == TRUE             \* next instead of checked_next
HasNext(lsn) == lsn < MaxLsn

Append(p) ==
    /\ Ready
    /\ SizeAllowed(p)
    /\ HasNext(last_lsn)
    /\ staging' = staging \cup {[lsn |-> last_lsn + 1, pay |-> p, start |-> staging_len]}
    /\ staging_len' = staging_len + Framed[p]
    /\ last_lsn' = last_lsn + 1
    /\ UNCHANGED <<fsVars, pc, target, doomed, segVars, durable_lsn, pos, scan, poisoned,
                   err, ghostVars>>

(* What a caller sees of a set of records, and of the files of a directory. *)
Contents(recs) == {[lsn |-> r.lsn, pay |-> r.pay] : r \in recs}

Stored(names, files) ==
    Contents(UNION {Run(files[b], b) : b \in {c \in names : files[c].hdr = "ok"}})

(* The watermark w is told to the observer, or to the caller of commit: the *)
(* records new, and all others the log shows up to w, are durable.          *)
Report(new, w) == acked' = acked \cup new \cup {r \in Stored(dir, cache) : r.lsn <= w}

(* An empty batch: commit reports durable_lsn again and touches nothing.    *)
CommitEmpty ==
    /\ Ready /\ staging_len = 0
    /\ Report({}, durable_lsn)
    /\ UNCHANGED <<fsVars, pc, target, doomed, segVars, lsnVars, bufVars, poisoned, err,
                   released, mediaVars>>

CommitStart ==
    /\ Ready /\ staging_len > 0
    /\ pos' = 0 /\ scan' = 0
    /\ pc' = "commit"
    /\ UNCHANGED <<fsVars, target, doomed, segVars, lsnVars, staging, staging_len, poisoned,
                   err, ghostVars>>

(* The longest run of whole staged records that fits the active segment.    *)
Fits(e) == e - pos <= SegmentSize - write_offset
Boundaries == {End(r) : r \in staging}
Prefix(e) ==
    /\ e \in {pos} \cup {x \in Boundaries : x > pos}
    /\ Fits(e)
    /\ \A x \in Boundaries : x > e => ~Fits(x)

(* peek: the first staged record that is not written yet.                   *)
FirstUnwritten(e, r) == r \in staging /\ r.start = e

CommitWrite ==
    /\ pc = "commit"
    /\ \E e \in Boundaries :
        /\ Prefix(e) /\ e > pos
        /\ cache' = [cache EXCEPT ![active] =
                        WriteRecords(@, Batch(pos, e, write_offset))]
        /\ scan' = e
    /\ pc' = "sync"
    /\ UNCHANGED <<dir, ddir, disk, target, doomed, segVars, lsnVars, staging, staging_len,
                   pos, poisoned, err, ghostVars>>

(* write_all_at stops part-way, by an error or because the process dies.    *)
CommitWriteFault ==
    /\ pc = "commit"
    /\ \E e \in Boundaries, k \in {pos} \cup Boundaries :
        /\ Prefix(e) /\ pos <= k /\ k < e
        /\ \E t \in BOOLEAN :
            cache' = [cache EXCEPT ![active] =
                         [WriteRecords(@, Batch(pos, k, write_offset)) EXCEPT !.torn = t]]
    /\ \/ IoFaults /\ Poison
       \/ pc' = "closed" /\ NoHandle /\ UNCHANGED <<err, ghostVars>>
    /\ UNCHANGED <<dir, ddir, disk>>

(* The sync succeeded: the prefix is durable and the observer is told.      *)
CommitSync ==
    /\ pc = "sync"
    /\ sync_data_fully(active)
    /\ write_offset' = write_offset + (scan - pos)
    /\ \E r \in staging : End(r) = scan /\ durable_lsn' = r.lsn
    /\ Report(Contents(Staged(pos, scan)), durable_lsn')
    /\ \/ /\ scan = staging_len         \* all written: staging.clear()
          /\ staging' = {} /\ staging_len' = 0 /\ pos' = 0 /\ scan' = 0
          /\ pc' = "idle" /\ target' = target
       \/ /\ scan < staging_len         \* records remain: roll
          /\ \E r \in staging : FirstUnwritten(scan, r) /\ target' = r.lsn
          /\ pos' = scan /\ pc' = "create"
          /\ UNCHANGED <<staging, staging_len, scan>>
    /\ UNCHANGED <<dir, ddir, cache, doomed, segments, active, oldest_lsn, last_lsn, poisoned,
                   err, released, mediaVars>>

CommitSyncFault ==
    /\ IoFaults /\ pc = "sync"
    /\ Poison
    /\ UNCHANGED fsVars

(* The next record does not fit: an empty prefix, roll at once.             *)
CommitNoFit ==
    /\ pc = "commit" /\ Prefix(pos)
    /\ \E r \in staging : FirstUnwritten(pos, r) /\ target' = r.lsn
    /\ pc' = "create"
    /\ UNCHANGED <<fsVars, doomed, segVars, lsnVars, bufVars, poisoned, err, ghostVars>>

-----------------------------------------------------------------------------
(* checkpoint                                                               *)

(* deletable_prefix_len, as the set of the segments it counts.              *)
DeletableOneMore(up_to) == {b \in segments : \E n \in segments : b < n /\ n - 2 <= up_to}
DeletableActive(up_to) == {b \in segments : b <= up_to}
Deletable(up_to) == {b \in segments : \E n \in segments : b < n /\ n - 1 <= up_to}

CheckpointStart(up_to) ==
    /\ Ready
    /\ released' = IF up_to > released THEN up_to ELSE released
    /\ doomed' = Deletable(up_to)
    /\ pc' = IF Deletable(up_to) = {} THEN "idle" ELSE "unlink"
    /\ UNCHANGED <<fsVars, target, segVars, lsnVars, bufVars, poisoned, err, acked,
                   mediaVars>>

(* Oldest first; a file that is already gone is passed over.                *)
CheckpointUnlink ==
    /\ pc = "unlink"
    /\ \E b \in doomed : Lowest(b, doomed \cap dir) /\ dir' = dir \ {b}
    /\ UNCHANGED <<ddir, cache, disk, pc, target, doomed, segVars, lsnVars, bufVars, poisoned,
                   err, ghostVars>>

CheckpointSync ==
    /\ pc = "unlink" /\ doomed \cap dir = {}
    /\ fsync_dir
    /\ segments' = segments \ doomed
    /\ \E o \in segments : Lowest(o, segments \ doomed) /\ oldest_lsn' = o
    /\ doomed' = {} /\ pc' = "idle"
    /\ UNCHANGED <<dir, cache, disk, target, active, write_offset, lsnVars, bufVars, poisoned,
                   err, ghostVars>>

CheckpointFault ==
    /\ IoFaults /\ pc = "unlink"
    /\ Poison
    /\ UNCHANGED fsVars

-----------------------------------------------------------------------------
(* The environment                                                          *)

(* The process is killed at any point, or an idle handle is dropped.  The   *)
(* page cache survives.                                                     *)
Kill ==
    /\ pc # "closed"
    /\ pc' = "closed"
    /\ NoHandle
    /\ UNCHANGED <<fsVars, err, ghostVars>>

(* With no process running the kernel finishes its writeback.               *)
Writeback ==
    /\ pc = "closed" /\ ~Settled
    /\ ddir' = dir /\ disk' = cache
    /\ UNCHANGED <<dir, cache, pc, target, doomed, segVars, lsnVars, bufVars, poisoned, err,
                   ghostVars>>

(* The names a power loss can leave: every unsynced create and unlink made  *)
(* it to the device or not, unlinks perhaps only in issue order.            *)
SurvivingNames(S) ==
    /\ S \subseteq dir \cup ddir
    /\ dir \cap ddir \subseteq S
    /\ OrderedUnlink => \A b, c \in ddir \ dir : (b < c /\ b \in S) => c \in S

(* The contents it can leave of a file with device contents d and cached    *)
(* contents c: c below a record boundary k and d from there on, with part   *)
(* of what c holds behind k possibly written over it.                       *)
Mixed(d, c, k) == {r \in c.recs : End(r) <= k} \cup {r \in d.recs : r.start >= k}

SurvivingFiles(d, c) ==
    {f \in [hdr : IF d.hdr = c.hdr THEN {c.hdr} ELSE {d.hdr, "zero", c.hdr},
            recs : {Mixed(d, c, k) : k \in {HeaderSize} \cup {End(r) : r \in c.recs}},
            torn : BOOLEAN] :
        f.torn => (d.torn \/ c.torn \/ ~(c.recs \subseteq f.recs))}

LosePower ==
    /\ PowerLoss
    /\ \E S \in SUBSET (dir \cup ddir) :
        /\ SurvivingNames(S)
        /\ dir' = S /\ ddir' = S
        /\ LET Dirty == {b \in S : disk[b] # cache[b]} IN
           \E f \in [Dirty -> UNION {SurvivingFiles(disk[b], cache[b]) : b \in Dirty}] :
              /\ \A b \in Dirty : f[b] \in SurvivingFiles(disk[b], cache[b])
              /\ disk' = [b \in Lsns |-> IF b \in Dirty THEN f[b] ELSE disk[b]]
              /\ cache' = disk'
    /\ pc' = "closed"
    /\ NoHandle
    /\ UNCHANGED <<err, ghostVars>>

(* No newer segment is whole on the device: the next open makes b active.   *)
Newest(b) == \A c \in dir \cap ddir : c > b => disk[c].hdr # "ok"

(* The device corrupts record r of segment b.  What is left is invalid (t), *)
(* or it is zeros: a zeroed record header reads as the end of the segment,  *)
(* and in the newest segment that end masks the records behind it.  (Zeros  *)
(* in front of a tail that is torn already are left out.)                   *)
Rot(b, r) ==
    \E t \in BOOLEAN :
        /\ disk[b].torn => t
        /\ disk' = [disk EXCEPT ![b].recs = @ \ {r}, ![b].torn = t]
        /\ rotten' = rotten \cup
              {[lsn |-> r.lsn, pay |-> r.pay, masks |-> ~t /\ Newest(b)]}

(* The device corrupts a record or a header of a log nobody has open.       *)
CorruptRecord == \E b \in dir : \E r \in Run(disk[b], b) : Rot(b, r)

CorruptHeader ==
    /\ \E b \in dir : disk[b].hdr = "ok" /\ disk' = [disk EXCEPT ![b].hdr = "zero"]
    /\ rotten' = rotten

MediaFault ==
    /\ pc = "closed" /\ Settled /\ faults < MediaFaults
    /\ CorruptRecord \/ CorruptHeader
    /\ cache' = disk' /\ faults' = faults + 1
    /\ UNCHANGED <<dir, ddir, pc, target, doomed, segVars, lsnVars, bufVars, poisoned, err,
                   acked, released>>

-----------------------------------------------------------------------------
Open == \/ \E seed \in Seeds : OpenStart(seed)
        \/ DiscoverEmpty \/ KeepHighest \/ RejectHighest \/ DiscardHighest \/ DiscardSync
        \/ RecoverFatal \/ RecoverClean \/ RecoverTorn \/ ZeroSync \/ OpenFault

Create == CreateNew \/ Allocate \/ WriteHeader \/ SyncHeader \/ ColdStarted \/ Rolled
          \/ CreateFault

Commit == \/ CommitEmpty \/ CommitStart \/ CommitWrite \/ CommitWriteFault \/ CommitSync
          \/ CommitSyncFault \/ CommitNoFit

Checkpoint == \/ \E up_to \in 0..MaxLsn : CheckpointStart(up_to)
              \/ CheckpointUnlink \/ CheckpointSync \/ CheckpointFault

Environment == Kill \/ Writeback \/ LosePower \/ MediaFault

Next == \/ Open \/ Create \/ Commit \/ Checkpoint \/ Environment
        \/ \E p \in Payloads : Append(p)

Spec == Init /\ [][Next]_vars

(* The thread that called the API runs on until the call returns.           *)
Running == \/ DiscoverEmpty \/ KeepHighest \/ RejectHighest \/ DiscardHighest \/ DiscardSync
           \/ RecoverFatal \/ RecoverClean \/ RecoverTorn \/ ZeroSync \/ Create
           \/ CommitWrite \/ CommitSync \/ CommitNoFit \/ CheckpointUnlink \/ CheckpointSync

FairSpec == Spec /\ WF_vars(Running)

-----------------------------------------------------------------------------
(* Properties                                                               *)

Pcs == {"closed", "idle", "discover", "discard", "recover", "zero", "commit", "sync",
        "unlink"} \cup CreateSteps

Errors == {"none", "BadSegmentHeader", "ContiguityViolation", "Corruption", "TornMidLog"}

Ack == [lsn : Lsns, pay : Payloads]

Rotten == [lsn : Lsns, pay : Payloads, masks : BOOLEAN]

(* Every variable keeps to the values its Rust type and its role allow.     *)
TypeOK ==
    /\ dir \subseteq Lsns /\ ddir \subseteq Lsns
    /\ cache \in [Lsns -> File] /\ disk \in [Lsns -> File]
    /\ pc \in Pcs /\ target \in Lsns \cup {0}
    /\ segments \subseteq Lsns /\ doomed \subseteq segments
    /\ active \in Lsns \cup {0} /\ write_offset \in Nat
    /\ oldest_lsn \in Lsns \cup {0}
    /\ last_lsn \in 0..MaxLsn /\ durable_lsn \in 0..MaxLsn
    /\ staging \subseteq Record /\ staging_len \in Nat /\ pos \in Nat /\ scan \in Nat
    /\ poisoned \in BOOLEAN /\ err \in Errors
    /\ acked \subseteq Ack /\ released \in 0..MaxLsn
    /\ faults \in 0..MediaFaults /\ rotten \subseteq Rotten

(* D1, D3: a record a commit has reported as durable, and no checkpoint has *)
(* released, is on the device under a name that is on the device too.       *)
AckedIsDurable ==
    \A a \in acked : a.lsn > released => a \in Stored(dir \cap ddir, disk)

(* D1, D3 for a process crash: the same record is in the page cache, where  *)
(* the next open reads it, unless the device has corrupted something.       *)
AckedIsReadable ==
    faults = 0 => \A a \in acked : a.lsn > released => a \in Stored(dir, cache)

(* The fault of x cost record a: a itself, or all behind the zeros.         *)
LostTo(x, a) == a = [lsn |-> x.lsn, pay |-> x.pay] \/ (x.masks /\ x.lsn < a.lsn)

(* D5: corruption may cost the corrupted record (the last one cannot be     *)
(* told from a torn write) but no other acknowledged one: either open       *)
(* refuses the log or everything else is there when it returns.  With one   *)
(* exception, where the code does not do what D5 says: zeros over a record  *)
(* of the newest whole segment are taken for the end of the log, and open   *)
(* drops all behind them without an error.  (In an older segment the next   *)
(* base does not follow any more, and open refuses the log.)                *)
CorruptionIsLoud ==
    [][~IsOpen /\ IsOpen' =>
        \A a \in acked : a.lsn > released =>
            a \in Stored(dir', cache') \/ \E x \in rotten : LostTo(x, a)]_vars

(* D9: whatever the crash interrupted, open never returns a fatal error, as *)
(* long as the device corrupts nothing.                                     *)
NeverFatal == faults = 0 => err = "none"

(* D2, D6: between calls the log is dense from oldest_lsn to durable_lsn,   *)
(* with one record for each LSN.                                            *)
DenseLog ==
    (pc = "idle" /\ IsOpen /\ ~poisoned) =>
        LET R == Stored(segments, cache) IN
        /\ {r.lsn : r \in R} = oldest_lsn..durable_lsn
        /\ \A r, s \in R : r.lsn = s.lsn => r = s

(* Between calls the handle agrees with the files: the next write goes      *)
(* right behind the last record of the newest segment, the next LSN right   *)
(* behind its LSN.                                                          *)
HandleMatchesFiles ==
    Ready =>
        /\ segments = dir /\ Highest(active, dir) /\ Lowest(oldest_lsn, dir)
        /\ write_offset = RunEnd(cache[active], active)
        /\ durable_lsn = RunLast(cache[active], active)

(* An LSN that was ever reported durable is never given out again, not even *)
(* after its record was checkpointed away.                                  *)
AckedLsnNotReused == IsOpen => \A a \in acked : a.lsn <= durable_lsn

(* D12: while a newer segment exists, no step changes a segment that is not *)
(* deleted, and the device already holds all of it.                         *)
SealedImmutable ==
    [][\A b \in dir \cap dir' :
          (\E h \in dir : h > b) => cache'[b] = cache[b] /\ disk'[b] = cache[b]]_vars

(* A commit whose calls all succeed ends with every appended record         *)
(* durable: the split over segments always gets on.                         *)
CommitCompletes ==
    ~IoFaults => (pc = "commit" ~> \/ pc = "closed"
                                   \/ pc = "idle" /\ staging = {} /\ durable_lsn = last_lsn)

(* create_new never meets a left-over file: neither roll nor cold start can *)
(* fail with AlreadyExists.                                                 *)
NoCollision == pc = "create" => target \notin dir
=============================================================================
