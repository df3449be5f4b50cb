# open-wal: specification, model checking and proofs

open-wal is an embedded, single-writer write-ahead log (crate `open-wal`, sources
in `src/src/`). This directory holds TLA+ modules that model it at the level of its
system calls, TLC configurations that check them on small instances, and TLAPS
proofs. The contract the code is measured against is the list D1–D12 of
`src/docs/wal_design_v7.md` §4; every definition is translated from the code.

## 1. The system

| Component | State | Operations | Hard behaviours |
|---|---|---|---|
| Writer (`wal.rs`) | `segments`, `active`, `write_offset`, `oldest_lsn`, `last_lsn`, `durable_lsn`, `staging`, `poisoned` | `append`, `commit` (split over segments), `roll`, `checkpoint` | crash between two system calls; one step of several failing; the end of the LSN space |
| Segment files (`segment.rs`) | one pre-allocated file per base LSN: header, records, zeros | `create`, `read_record_at`, `zero_to_eof`, `sync_data_fully` | page cache against device, torn writes, directory entries that are not durable |
| Recovery (`wal.rs`, `recovery.rs`) | none kept: a function of the files | `open_seeded`, `discard_incomplete_highest`, `recover_all`, `recover_segment`, `classify`, the forward scan | telling a torn tail from corruption, a half-created segment from a damaged one |
| Reader (`reader.rs`) | segment, offset, expected LSN | `reader_from`, `next`, `advance_segment` | segment boundaries, damage while it reads, a poisoned handle |
| Record codec (`record.rs`) | none | `encode_into`, `peek`, `decode`, the size functions | lengths from damaged bytes, integer widths, the end-of-records sentinel |
| LSN, config, options, observer | values | `checked_next`, the precondition of open, the seed, `on_durable` | the last LSN, a configuration that changes between opens |
| Directory and lock (`wal.rs`) | the path, `LOCK`, the file names | `create_dir_all`, `flock`, discovery, `cold_start` | several processes at once, a lock that outlives its process, names that are not durable |
| Power-pull and dm-flakey tests (`bin/*.rs`, `scripts/m8/`) | the side channel and its capture file | workloads, `power_pull_verify`, the negative control | a lossy channel, a torn line, a verdict that is vacuous or wrong |
| Fuzz targets (`fuzz/`, `fuzzing` in `lib.rs`) | generated files | `structure`, `recovery`, `decode`, `model` | files no writer leaves behind |

How they interact: every call runs synchronously on one thread (`Wal` is `Send` and
not `Sync`, the write methods take `&mut self`, a `Reader` borrows the handle, and
`flock` keeps other processes out). Concurrency is therefore with the environment:
the process may be killed and the machine may lose power between any two system
calls, every system call may fail, and the kernel writes dirty pages and directory
entries back when it likes. Only `open` meets other processes. `PROJECT.json`
(`components`) lists every part with what is modelled of it.

What makes each part correct: what a commit reported stays (D1, D3) and is dense
(D2, D6); a crash anywhere leaves a log that opens (D9); checkpoint removes only what
it was allowed to (D8); corruption is loud (D5); a sealed segment never changes (D12);
replay returns exactly the durable records (D6); the scan is bounded and total (D11);
a tail that recovery has cut off never comes back (D10); competing opens end up with one
log; a durability test neither passes nor fails without reason.

## 2. Modules

| Module | Models | Composes |
|---|---|---|
| `Wal` | writer, checkpoint, open and recovery over a file system with a page cache and a device; kills, power losses, media faults | |
| `DurableLog` | the abstract promise: a numbered log that grows at its end, loses only unreported records in a crash, and old ones as far as allowed | |
| `WalRefinement` | the mapping from `Wal` to `DurableLog` | `WalInvariant`, `DurableLog` |
| `WalReader` | the replay reader on a live (healthy or poisoned) handle | `Wal` |
| `Segment` | one segment file, cell by cell: `recover_segment`, `classify`, the forward scan, the chunked zeroing, the writer; pages that persist in any order, files cut short, a changing record limit | |
| `LogDirectory` | `open_seeded` in several processes: the path, the lock, discard, cold start; power losses that take names and the path | |
| `SegmentFuzz` | the structure-aware fuzz target and `recover_segment_classify`: every small segment with one damage | `Segment` |
| `DirectoryFuzz` | the directory fuzz target: every small directory, opened, replayed, opened again | `Wal`, `WalReader` |
| `PowerPullVerify` | the arithmetic and the verdict of `power_pull_verify` | |
| `PowerPull` | the power-pull test: workload, side channel, cut, verdict | `PowerPullVerify` |
| `DirFsyncCut` | the negative control for the directory fsync of a roll, with its harness | `PowerPullVerify` |
| `RecordCodec` | framing sizes, `decode` and `read_record_at` with the code's integer widths | |
| `WalInvariant` | the inductive invariants `Inv` (D1, D9, D12), `CacheInv` (the same on the page cache alone, for process crashes) and `History` (LSNs are not reused) | `Wal` |
| `WalProofs` | type correctness, and the proof of these invariants: lemmas on chains of records, one lemma per step, the theorems | `WalInvariant` |
| `WalRefinementProofs` | the refinement, step by step | `WalProofs`, `WalRefinement` |
| `WalReaderProofs` | what a reader is given, with and without assumptions on the environment | `WalReader`, `WalProofs` |
| `SegmentProofs` | one segment file: what holds on any device, and what needs pages in order | `Segment` |
| `RecordCodecProofs` | correctness of the scan of one record | `RecordCodec` |
| `LogDirectoryProofs` | the invariant of the lock, the directory and cold start | `LogDirectory` |
| `PowerPullProofs`, `DirFsyncCutProofs` | the verdicts of the power-cut tests | `PowerPull`, `DirFsyncCut` |
| `MC*` | the constants of the TLC instances | |

### State of `Wal`

`dir`/`ddir` are the segment names in the cached directory and on the device,
`cache`/`disk` the contents of each segment in the page cache and on the device. A
segment is a set of records, each with its place, a flag `torn` for invalid bytes
right behind the run, and the state of its header (`empty`: no bytes, `zero`:
allocated, `ok`). Offsets count 8-byte units: every frame is a multiple of 8. The
fields of the `Wal` struct keep their names; `pos` and `scan` are the cursors of
`commit`; `pc` is the next system call of the running API call. `acked`, `released`,
`faults` and `rotten` are history.

### Actions of `Wal`

One action is one system call with the memory updates up to the next one.

| Code | Actions |
|---|---|
| `open_seeded` | `OpenStart`, `DiscoverEmpty`, `OpenFault` |
| `discard_incomplete_highest` | `KeepHighest`, `RejectHighest`, `DiscardHighest`, `DiscardSync` |
| `recover_all`, `recover_segment`, `classify` | `SegmentError`, `RecoverFatal`, `RecoverClean`, `RecoverTorn`, `ZeroSync` |
| `segment::create`, then `cold_start` or `roll` | `CreateNew`, `Allocate`, `WriteHeader`, `SyncHeader`, `ColdStarted`, `Rolled`, `CreateFault` |
| `append`, `commit` | `Append`, `CommitEmpty`, `CommitStart`, `CommitWrite`, `CommitSync`, `CommitNoFit`, `CommitWriteFault`, `CommitSyncFault` |
| `checkpoint` | `CheckpointStart`, `CheckpointUnlink`, `CheckpointSync`, `CheckpointFault` |
| environment | `Kill`, `Writeback`, `LosePower`, `MediaFault` |

The environment is parameterised. `SurvivingNames` says which directory entries a
power loss leaves: any unsynced create or unlink may or may not be on the device;
with `OrderedUnlink` unlinks persist in the order they were issued, as on a
journalling file system. `SurvivingFiles` says what it leaves of a file: the cached
contents up to some record boundary, the device's from there on, perhaps with a torn
record between them. `WarmReopen` lets the log be reopened while the kernel still
holds unsynced writes of the previous process.

### `Segment`

`Wal` treats a torn tail as a flag, lets unsynced writes persist in offset order and
zeroes a tail in one step. `Segment` drops these simplifications for one file. `cache`
and `disk` map 8-byte cells to contents: zeros, junk, or one piece of the encoding of an
LSN and a payload; a record decodes iff all its pieces are there. `PageCells` cells reach
the device together. `env`, chosen in `Init` from the constant `Settings`, says what may
happen: the base LSN, power losses, pages that persist in any order (`anyOrder`) or in
offset order, a kill after every `zeroStep` cells of the zeroing (64 KiB in the code),
a device that takes the zeros of a tail as a whole (`zeroWhole`), an immediate reopen
(`warmReopen`), and how often the closed file is cut short (`maxCuts`). `Limits` are the
values of `max_record_size` an open may choose.

| Code | Actions |
|---|---|
| `recover_segment`: the scan, its end | `Open`, `ScanRecord`, `ScanEnd` |
| `classify`, the branch behind the last LSN | `Classify`, `AtCapacity` |
| `zero_to_eof`, `write_zeros`, `sync_data_fully` | `ZeroChunk`, `ZeroSync` |
| `append`, `commit`, `roll`, drop | `AppendRecord`, `Commit`, `CommitWrite`, `CommitSync`, their failures, `Roll`, `CloseHandle` |
| environment | `Writeback`, `Kill`, `LosePower`, `Cut` |

A sealed segment is opened with the rules for sealed ones. The limit of an open is
never below the previous one: a record above the limit is invalid to recovery, so a
smaller limit truncates records that were acknowledged.

### `LogDirectory`

Every process has its own `pc`, seed, list of bases and origin; `lock` is the `flock`,
which a killed process may hold until `TearDown`. `made`/`rooted` count the components of
the path that exist and that are on the device, `names`/`dnames` the segment names. One
segment with a number of records stands for the log: rolls are `Wal`'s. `env`, chosen
from `Settings`, says whether power may be lost, whether the path is on the device before
the log is used (`syncedPath`), and whether a process may open the log while the directory
changes of the previous one are only in the cache (`warmReopen`).

### The fuzz targets

`SegmentFuzz` and `DirectoryFuzz` choose the input in `Init`, over all inputs within the
bounds, and run recovery (and the reader) as `Segment`, `Wal` and `WalReader` define it.
`SegmentFuzz!Reference` says from the shape of the segment alone what the verdict has to
be, as the oracle of the target does. `DirectoryFuzz` reaches states the writer never
leaves: gaps, overlaps, the headers of other segments, records in any order.

### The power-cut tests

The log under test may misbehave: a cut may take acknowledged records or bring back wrong
payloads, and the question is whether the verdict is right about it. In `PowerPull` the
capture may lose lines (`LossyWire`) or end in a torn one (`TornLines`). As in the
procedure that `power-pull.sh cycle` prints, one receiver appends the lines of all cycles to
one capture file, the workload numbers them from 1 in each, and the log is kept or reset
between two cycles. `DirFsyncCut` runs the correct build and the one
with `inject_no_dir_fsync` in turn, as `scripts/m8/dm-flakey.sh` does. A verifier that
cannot open the log panics; that is neither a pass nor a loss in `PowerPull`, and a
failure of the run in `DirFsyncCut`, whose script looks at the exit code.

### Mutants

The operators `ActivateFile`, `fsync_dir_omitted`, `DeletableOneMore` and the like,
each right before the operator it resembles, are plausible mistakes. No action uses
them; `PROJECT.json` (`mutants`) names for each checked property one that breaks it.

## 3. Runs

| Run | Properties | What it shows |
|---|---|---|
| `crash` | `TypeOK`, `AckedIsDurable`, `NeverFatal`, `DenseLog`, `HandleMatchesFiles`, `AckedLsnNotReused`, `NoCollision`, `SealedImmutable`, `ImplementsDurableLog` | D1–D3, D8, D9, D12 under failing system calls, kills and power losses anywhere, and that `Wal` implements `DurableLog` |
| `kill` | `AckedIsReadable`, `NeverFatal`, `CommitCompletes` | D1, D3, D9 for process crashes with an immediate reopen over a dirty page cache, as long as nothing is corrupted; the split loop of `commit` terminates with everything durable |
| `reader` | `ReplayExact`, `ReplayDense`, `ReaderServed`, `ReplayEnds`, `CorruptionIsLoud` | D6 for replay: a stream may end early but never jumps; D5 with one record made invalid or zero, or one damaged header, before an open or under a reader, but for the exception below |
| `codec` | `ScanInBounds`, `EncodedIsFound`, `BoundsSuffice` | D6, D11 for the read of one record |
| `segment` | `HandleIsFile`, `TailIsZero`, `ActiveOpens`, `SealedOpens`, `AckedKept`, `NoResurrection` | one segment, cell by cell, in the four environments below |
| `segment_fuzz` | `ClassifierCorrect`, `ReopenIsClean`, `Terminates` | the verdict on every small damaged segment, and that recovering is idempotent |
| `directory_fuzz` | `ReplayIsReport`, `ReopenAgrees` | open and replay agree on every small directory; a second open finds the same |
| `directory` | `OpenNeverFails`, `OneOrigin`, `OpenReturns` | processes that open at once, with different seeds and kills: one log, and no open hangs; power losses around cold start and discard never restart a log that acknowledged a record |
| `dirfsync_cut` | `CorrectBuildPasses`, `ControlBites`, `DemonstratedIsReal` | the control discriminates, and is reported as demonstrated only when it did |
| `warm_powerloss` | `AckedIsDurable` (violated) | finding 1 |
| `segment_zeroing` | `SealedOpens` (violated) | finding 2 |
| `power_pull` | `NoVacuousPass` (violated) | finding 3 |

The environments of `segment`: process crashes with an immediate reopen (`Kills`); power
losses with pages in offset order (`OrderedPowerLoss`), which is what `Wal` takes for
granted about a torn tail; power losses with pages in any order and the zeroing
interrupted anywhere (`AnyPowerLoss`); and files cut short, behind the last LSN too
(`Cuts`). `HandleIsFile` and `AckedKept` are stated for all four: an open that succeeds
returns every acknowledged record the file still holds. The others exclude pages that
persist in any order, and `SealedOpens` a file that was cut: see the observations.

Deadlock checking is off for `Wal`, `WalReader`, the codec, the fuzz targets and the
power-cut tests: a log at the end of its LSN space, closed for good, a finished scan or a
finished test has nothing left to do. It is on for `Segment` and `LogDirectory`, where an
open is always possible again.

### Findings

1. **A reopened log reports what is only in the page cache.** `recover_all` takes
   what it reads for durable and syncs neither a segment nor the directory when the tail is
   clean. In the run's trace a cold start is killed after it wrote the header of the first
   segment and before it synced file and directory. The log is reopened at once and accepts
   the segment; `append` and `commit` then sync the file, and the commit reports a record
   whose segment name is on no device, so a power loss takes it (design D1). The same missing
   sync reaches the records of a settled segment: append, write, a kill before the
   sync, a reopen, and an empty `commit()` that reports what no one synced. The contract holds
   if the log is reopened only once the previous process's writes have settled (run
   `crash`), or if only processes crash (run `kill`).
2. **An interrupted zeroing is not resumed.** A kill between two chunks of `write_zeros`
   leaves zeros at the boundary and old bytes behind them; the next open sees a clean end,
   and once the segment is sealed its leftovers are `Corruption`. No power loss is needed.
3. **A cycle of the power-pull test may pass by the lines of an earlier one.** The receiver
   is started once and appends to one `capture.txt` (`power-pull.sh`), while the workload
   numbers its lines from 1 at every start; the verifier takes the watermark of the
   highest number for the bar. In the trace the first cycle captures lines 1 and 2, the second,
   on the same log, only line 1, for LSN 3; the cut takes LSN 3, the bar is still 2, and the
   verdict is PASS, where the script promises "every acked LSN survived". With the WAL directory reset
   between the cycles a log that kept everything may FAIL by an old line
   instead. `docs/m8-infra-plan.md` plans a fresh capture file for each cycle; no script makes
   one. What holds of the verdict with one capture is proved (section 4).

### Observations at the edges of the runs

Each condition in a setting or a property is there because TLC finds a behaviour without
it. These are the behaviours, with the change that shows them:

* `OrderedUnlink = FALSE` in `crash`: when a later unlink of a checkpoint persists before
  an earlier one, a power loss leaves a gap: `ImplementsDurableLog` and `NeverFatal` fail. "Survivors remain a
  contiguous suffix at every crash point" (`wal.rs`) needs ordered unlinks.
* A checkpoint that fails after an unlink leaves `oldest_lsn()` naming a segment that is
  gone: why `ReaderServed` lets a poisoned handle answer `NotFound`.
* A reader of a handle whose commit failed yields records that no commit made durable: why
  `ReplayExact` asks for a healthy handle.
* `CorruptionIsLoud` without `x.masks /\ x.lsn < a.lsn` in `LostTo`: zeros mark the end of the log
  (`record.rs`, `segment.rs`), so damage that leaves a zeroed record header in the newest segment
  ends the recovery there with a clean tail. Open returns no error, and all acknowledged
  records behind it are gone, without the loud error that D5 demands for a corrupt record that is not the
  tail. (D5 argues from the type byte; the test of the whole header protects against that
  only.) `masks` says which fault did this: the model has it, and the property excepts
  exactly the records behind such zeros. In a segment with a whole newer one the base of that one
  does not follow, and the same damage is `ContiguityViolation`. Only zeros in front of a
  tail that is torn already are left out of `Rot`.
* A damaged header of an empty sole segment is taken for an interrupted create: the log
  restarts at the seed, behind LSNs it has given out. `AckedLsnNotReused` is checked
  without media faults.
* `NoResurrection` without `InOrderWrites`: when a later page of an unsynced batch persists
  and the first does not, the tail looks clean, the old record stays behind it, and a commit
  that ends right before it makes it part of the log (against D10).
* `ActiveOpens` without `InOrderWrites`: with the same disorder, a torn record in front of a
  whole one of the same batch is `TornMidLog` (against D9).
* `SealedOpens` without `Intact`, and `Cuts` with base 1: a file cut short where the cut leaves a clean end keeps its
  length, and is `Corruption` once it is sealed.
* `syncedPath |-> FALSE` with power losses in `directory` (`OneOrigin`): no parent directory is synced, so
  a power loss takes a new log with its acknowledged records.
* `warmReopen |-> TRUE` with power losses in `directory` (`OneOrigin`): a kill in `cold_start` before the
  directory fsync leaves the name of the first segment to the kernel; records committed by
  the next process go with it, as in finding 1.
* `Cycles = 1`, `TornLines = TRUE`, `Batch = 4` and `Total = 13` in `power_pull`: a torn line that still
  parses lowers the verifier's high-water mark, and a lost record passes in the first cycle.

The disorder of pages, the interrupted zeroing and short files are outside what `Wal` can
see, so they bound what its runs and the theorems of §4 say: these hold where unsynced
writes persist in offset order and a tail is zeroed as a whole. `AckedKept` in `segment`
shows what remains without that: what is acknowledged is not lost silently.

### Bounds

Segments of `Wal` hold three units behind a header of one (four in `reader`, two in
`kill`), records take one or two (four for the oversized one of `kill`), and the LSN space
ends at 4. With these a batch can fit a segment, fill it exactly, fit in part or not at
all; a commit can roll twice; a checkpoint can delete two segments and stop between
them; a crash can hit a half-created, an empty, a part-filled and a full newest
segment; and the LSN space can be exhausted in the middle of a batch. Seeds 1 and 3
let a log start in the middle of the LSN space; an emptied directory is recreated
under either. The number of crashes is not bounded. One media fault is allowed (D5
speaks of one corruption). `kill` has no failing calls: what a failed call leaves in the
files is what a kill at the same point leaves. `kill` and `reader` use one record size. In
`codec` a byte has its real size, `U32` is 256 and the segment has exactly the 91 bytes of slack
that `open` asks for.

A segment of `Segment` has 12 cells; records take 4 cells, with a payload of zeros, so that
the last cell is no evidence, and 5 (3 and 5 in `segment_zeroing`); LSNs end at 3, so that
with base 2 two records reach the last one. A page has 4 cells: record boundaries lie on,
before and behind page boundaries. `segment_fuzz` has 14 cells: three records, a duplicate
under the last LSN and trailing zeros fit, or are cut off by the end of the file.
`directory_fuzz` takes up to three files with up to three records of two sizes in all; LSNs end
at 3, so bases can repeat an LSN, skip one or be the last. Two processes and two seeds
suffice for `LogDirectory`: its steps involve the holder of the lock and one contender.
`power_pull` makes two cycles of commits of one record, with no lossy channel and no torn
line: the finding needs neither. Its number of crashes
is bounded by `Cycles`, that of `Cut` by `maxCuts`, that of the control's attempts by
`Budget`; in `Segment` and `LogDirectory` crashes are not bounded.

### Fairness

`FairSpec` asks for weak fairness of `Running`, the steps of a call in progress; the
faults, the environment and the caller's decisions have none. The code justifies it:
a call runs synchronously on one thread and holds no lock another thread could keep.
`FairReaderSpec` asks for weak fairness of `ReaderStep`, a caller that reads on.
`LogDirectory!FairSpec` asks for weak fairness of `Opening(p)` for each process: every
call of `open_seeded` returns, since the lock is non-blocking. `SegmentFuzz` asks for
weak fairness of its next step: the target is a plain function that calls recovery.

## 4. Proofs

* `WalProofs!TypeCorrect`: `Spec => []TypeOK` for every value of the constants. The
  invariant is inductive as it stands; the parts that need care are that no LSN passes
  `MaxLsn`, that `RunLast` and `RunEnd` of a file are numbers (a finite maximum exists
  because LSNs are bounded), and that a power loss leaves well-formed files.
* `RecordCodecProofs!ScanCorrect`: `ScanInBounds` and `EncodedIsFound` (by itself
  `WrittenIsRead`) for every segment size, record limit, offset, file size and stored header, under `CodecAssumption` (the precondition of `open`, and a segment that can
  be addressed). The invariant says what each step of the scan has already checked.
* `RecordCodecProofs!BoundsCorrect`: the constants 91 and 28 of the code suffice.
* `WalProofs!CrashSafeUntilFault`: `Settling => (Spec => [](faults = 0 => Inv))`, where
  `Settling` says that the log is reopened only over settled files and that unlinks persist
  in order (finding 1 and the observation on `OrderedUnlink` show what happens otherwise).
  Failing system calls, kills and power losses stay as in the runs, and the device may
  corrupt what it likes: the invariant holds up to the first fault. From it follow, for
  every segment size, record size, LSN space and number of crashes and faults, `AlwaysOpens`
  (`NeverFatal`, D9) and `Readability` (`AckedIsReadable`, D1).
* `WalProofs!KillSafe`: `~PowerLoss => (Spec => [](faults = 0 => CacheInv))`, the environment
  of run `kill`. The only hypothesis is that the power stays on: a process may be killed at
  any step and the next one start at once over files that have not settled, calls may fail,
  unlinks may persist in any order. From it follow `KillLosesNothing` (`AckedIsReadable`) and
  `KilledLogOpens` (`NeverFatal`), and where the device corrupts nothing `KilledLogIsDense`
  (`DenseLog`), `KilledHandleIsCurrent` (`HandleMatchesFiles`) and `KilledCreateIsExclusive`
  (`NoCollision`).
* `WalProofs!CrashSafe`: `Honest => (Spec => []Inv)`, where `Honest` adds to `Settling` that
  the device corrupts nothing. From it follow `Durability` (`AckedIsDurable`, D1),
  `CreateIsExclusive` (`NoCollision`), `HandleIsCurrent` (`HandleMatchesFiles`),
  `LogIsDense` (`DenseLog`, D2) and the action property `SealedNeverChanges`
  (`SealedImmutable`, D12).
* `WalProofs!HistoryCorrect` and `LsnsAreNotReused` (`AckedLsnNotReused`), from `Inv`
  and `History`.
* `WalRefinementProofs!Refinement`: `Honest => (Spec => ImplementsDurableLog)`.
* `WalReaderProofs`: `ReplayNeverJumps` (`ReplayDense`) and `HealthyHandleServes`
  (`ReaderServed`) with no hypothesis at all: power losses, immediate reopens, unordered
  unlinks and media faults included; `ReplayIsExact` (`ReplayExact`, D6) under `Honest`.
* `LogDirectoryProofs`: `DirectoryCorrect`, `OpensAreServed` (`OpenNeverFails`) and
  `LogKeepsItsOrigin` (`OneOrigin`) for any number of processes, seeds and path levels,
  under `Contract`: where power may fail, the path is on the device first and a log is
  opened over a settled directory (the observations in section 3 show why both are needed).
* `SegmentProofs`: `CoreInvariant`, and from it `HandleTrue` (`HandleIsFile`) and
  `AckedRecordsKept` (`AckedKept`), for every segment, page and record size, every set of
  settings and limits and any number of crashes and cuts, with no hypothesis. Under
  `OrderedDevice`, `OrderInvariant`, `ZeroTail` (`TailIsZero`), `ActiveAlwaysOpens`
  (`ActiveOpens`), `SealedAlwaysOpens` (`SealedOpens`) and `NothingResurrected`
  (`NoResurrection`).
* `PowerPullProofs`, of the procedure as it is, one capture for all cycles, for every number
  of cycles, commits and lost lines: `FailIsReal` (`NoFalseAlarm`): a FAIL means that an
  acknowledged record is gone or wrong, whatever was lost or torn, unless the log was reset under
  lines already captured. `PassIsEarned` (`NoVacuousPassAlone`): a PASS means that all that the
  cycle's complete lines told is there, if these lines reach the highest number in the capture
  and no piece of a line was captured. The first cycle is of that kind, and every one that
  comes further than those before; finding 3 is the other case. No run checks the two: `power_pull`
  checks `NoVacuousPass`, which has neither condition.
* `DirFsyncCutProofs`: `CutInvariant`, `CorrectBuildKeepsAll` (`CorrectBuildPasses`),
  `LostNameIsCaught` (`ControlBites`) and `DemonstrationIsReal` (`DemonstratedIsReal`), for
  every number of records, segment size and number of attempts.

Why `Inv` is needed: that an acknowledged record is on the device says nothing about
what the next crash or the next recovery does to it. `Inv` says that no open was refused
(`NoError`, which is `NeverFatal` where nothing is corrupted), and adds

* `FilesOK`: the records of a file form a chain (one behind another, LSNs counting up
  from the base), the device holds a prefix of what the cache holds, no record is in a
  file whose header or name is not durable, and a torn tail means that an LSN is left.
  So a power loss leaves a chain again, and recovery takes no torn tail for corruption;
* `SealedOK`: a file with a newer one is complete on the device and the next file starts
  right behind it, so recovery finds no gap;
* `PendingOK`: a name that is in one of the two directories only is the oldest and
  released, or the newest and empty, so no name that survives a crash leaves a hole;
* `HandleOK`: while a handle is live, the end of the active segment on the device is
  `durable_lsn` and `write_offset`, the unwritten part of the staging buffer is a chain
  that starts there, and the segment `roll` creates is right behind both.

`WalProofs` has first the lemmas on chains (appending, cutting, moving, scanning one), then
one lemma per operation that it preserves `Inv`; `RejectHighest` and
`RecoverFatal` are shown never to happen before a media fault. The proofs use
`ConfigAssumption` (among others the check of `open` that every allowed record fits an
empty segment: without it `commit` would roll from an empty segment to the name it has) and
`EnvironmentAssumption`.

`Inv` does not hold in the environment of `KillSafe`: a process that reopens at once takes
what it reads for durable (finding 1), so the device may lag behind what the handle reports,
and a name may be in the directory and not on the device in the middle of the log.
`CacheInv` therefore speaks of the page cache alone, which is all that any call of the
program reads: the cached records of a file are a chain, a file with a newer one ends where
the next begins (`CachedStore`), what was reported and not released is in that cache
(`AckedCached`), no open was refused (`NoError`), and the handle agrees with the cache
(`CachedHandle`). Where `Inv` can compare `durable_lsn` with the device at any time, `CachedHandle`
has to say at which steps of `commit` the cache already ends behind the batch: from the
write on, before the sync that reports it.

`LogIsDense` needs no invariant beyond `Inv`: the chains of the segments in the handle's
list join without a gap (`SealedOK`), and the last one ends at `durable_lsn`.
`LsnsAreNotReused` does. The record of a reported LSN may be gone, so `Inv`, which speaks of
files, does not bound what was reported. `History` adds

* `AckedBelow`: every reported LSN lies below the base or the last record of a segment
  that is durable with its header, and such a segment is never discarded by recovery; the
  checkpoint that releases a record never removes the segment behind it;
* `WrittenOK`: what `commit` has passed over in the buffer is in a segment, so what it is
  about to report is covered as well.

The refinement maps the abstract log to the records of all files that are in the directory
or still on the device, with the buffer of a live handle. `append` is `Append`; a sync that
succeeds, and an empty `commit`, is `Report`; the start of `checkpoint` is `Allow`, its unlinks
are stutters, and the directory fsync that ends it is `Trim`; losing the handle, to a kill, a poisoning error or a power loss, is `Crash`, which
may take an unreported tail and released old records; the end of `open` is `Recover`;
everything else (writing, rolling, headers, directory syncs, zeroing) is a stutter, because
moving a record from the buffer to a file does not change what callers see. That what a
crash takes is a tail or released is `PendingOK` and the chains of `Inv`; that nothing
reported is in that tail is `AckedIsDurable`.

For the reader there are two invariants. `AnyInv` holds in every environment, since it
speaks only of the handle's own bookkeeping (`HandleInv`: the list of segments starts at
`oldest_lsn`, what is staged lies above it, and a healthy handle's segments are in the
directory) and of the stream (`Stream`: the LSNs yielded are an interval that ends below
`expected_lsn`): `next` compares every LSN with the expected one, whatever the file holds.
`ExactInv` adds `Inv` and the place of the reader (right behind the record with
`expected_lsn - 1`, or at the first record of a file): where `next` stops, the chain
of the file is at its end, and where no file follows, the end is `durable_lsn`.

`DirInv` of `LogDirectoryProofs` says that whoever is past the lock holds it
(`Exclusive`), that there is at most one segment even when the device's view is counted
(`OneSegment`), that an acknowledged segment has name, header and path, on the device too
where power may fail (`Kept`), and what each step of open counts on (`Progress`). The
point where it could break is `create_new` after a discard: the discard's directory fsync
comes first, so the device cannot bring the old name back beside the new one.

`SegmentProofs` works with the cells themselves. The encoding of a run of records is a
recursive function; the lemmas on it (where a record starts, that its pieces decode, that a
longer run continues a shorter one) are inductions over the number of records. The
library's induction theorems cannot be applied here, so lemma `Induct` says the same of a
set of numbers, and the property becomes the set of the numbers that have it. There are two
invariants, because two kinds of promise are made.

* `CoreInv` needs nothing of the device: the cells below `write_offset` are the encoding of
  the log (`Handle`); the records that were acknowledged are whole in the cache and on the
  device, and a scan that has found some of them found those (`Kept`). A page written back
  early can only bring a cell of the cache to the device, and below the acknowledged part
  both are equal; the zeroing starts behind what the scan found, and the scan cannot stop
  before the end of the acknowledged part, since that decodes.
* `OrderInv` adds what the order of writes gives: cache and device hold a beginning of the
  encoding of the log, cut anywhere, and zeros behind it (`Shaped`). So whatever a scan
  stops at is followed by no whole record, and the forward scan of `classify` finds none.
  `OrderedDevice` asks, of settings with pages in order only, that no kill falls between two
  chunks of the zeroing, and where power may fail that the zeros of a tail persist as a
  whole and the log is reopened over a settled file. Without the first clause the run
  `segment_zeroing` violates `SealedOpens` (finding 2); without the others old bytes stay
  behind a zeroed gap on the device, which has the same effect.

`PullInv` of `PowerPullProofs` says that the side channel never runs ahead of the commits.
Within a cycle numbers and watermarks rise from what has arrived over the wire to the
workload (`WireBehind`); no line of the capture, of whatever cycle, names more than was
acknowledged on this log, until the log is reset; and the newest line of the cycle is the last
of the capture, as long as no piece of a line is there (`CaptureBehind`). The bar is the
watermark of some line of the capture, hence no false alarm; when the cycle's newest line has the
highest number, `by_seq` keeps that line under it, hence no vacuous pass.

`CutInv` of `DirFsyncCutProofs` says that a name is missing on the device only in the build
without the fsync, that each such file holds a record already, and that the last
acknowledgement is in the capture when the writes are dropped. So the cut takes nothing
from the correct build, and from the other one the log falls behind the capture exactly
when a name is lost, which is what the verifier reports.

Only model-checked: liveness (`CommitCompletes`, `ReplayEnds`, `OpenReturns`,
`Terminates`), which needs fairness and ENABLED; `CorruptionIsLoud`; and the properties of
`SegmentFuzz` and `DirectoryFuzz`, which compare what recovery computes with a reference for
files that no invariant describes.

## 5. Not modelled, and why

* The bytes of a record and of the header, the CRC and its collisions: a CRC that
  matches is taken to mean the bytes that were written. `SegmentFuzz` and `Segment`
  therefore cannot see a damaged record that still decodes.
* The disorder of pages together with several segments: `Segment` has it for one file,
  and `Wal` several files without it. Together they are beyond TLC.
* A `segment_size` that changes between two opens, and a `max_record_size` that shrinks:
  the documentation promises nothing for either.
* An observer that panics (its contract forbids it), external readers and backups of
  sealed segments (outside the crate; `SealedImmutable` is what they rely on).
* `crash_child`: the loop of the power-pull workload with a pipe for the side channel. Its
  header says that it announces the oldest LSN too; it prints the durable one only.
* Of the fuzzing support: the loop-bound probe of the forward scan, `decode_record` (a
  re-export of the modelled `decode`), the direct probe of single files in `recovery.rs`,
  the parsing of file names, and the targets `decode` (`RecordCodec` covers every header)
  and `model` (`Wal` explores its operations, `DurableLog` states its oracle).
* The error type, which only formats and converts.

## 6. Plan

1. `AckedLsnNotReused` and the refinement of `DurableLog` for process crashes with an
   immediate reopen, from `CacheInv`.
2. The fuzz targets for every size: what recovery accepts is a chain, so that replay and a
   second open agree with it.
