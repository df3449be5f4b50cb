--------------------------- MODULE WalReaderProofs --------------------------
(***************************************************************************)
(* What a reader of the log is given.  That its stream never jumps and that *)
(* a healthy handle always serves it needs nothing of the environment: not  *)
(* of the device, not of what survives a crash, not of when the log is      *)
(* reopened.  That it gets exactly the durable log is proved, like the rest *)
(* of the durability contract, for an honest environment.                   *)
(***************************************************************************)
EXTENDS WalReader, WalProofs

(* The handle keeps to itself: what it lists starts at oldest_lsn, is there *)
(* unless a checkpoint or a failed call has removed it, and lies below what *)
(* is still to be written.                                                  *)
Listed ==
    /\ Lowest(oldest_lsn, segments)
    /\ \A b \in segments : b <= last_lsn + 1
    /\ \A s \in staging : oldest_lsn <= s.lsn /\ s.lsn <= last_lsn
    /\ pc \in CreateSteps => oldest_lsn <= target /\ target <= last_lsn
    /\ pc \in CreateSteps \ {"create"} => target \in dir
    /\ pc \in {"idle", "unlink"} /\ ~poisoned => \A b \in segments, s \in staging : b <= s.lsn
    /\ ~poisoned => segments \ doomed \subseteq dir

HandleInv ==
    /\ IsOpen => Listed
    /\ pc \in {"closed", "discover", "discard", "recover", "zero"} => ~IsOpen
    /\ ~IsOpen /\ pc \in CreateSteps => dir = IF pc = "create" THEN {} ELSE {target}
    /\ pc \in {"commit", "sync", "unlink"} => IsOpen
    /\ poisoned => pc = "idle"
    /\ pc # "unlink" => doomed = {}

(* The stream so far, whatever is in the files: no gap, no repeat, from the *)
(* requested LSN or the retention floor up to the next one expected.        *)
Stream ==
    reader \in {"reading", "end"} =>
        /\ pc = "idle" /\ IsOpen /\ file \in segments /\ from \in Nat /\ expected_lsn \in Nat
        /\ oldest_lsn <= expected_lsn
        /\ Lsn(yielded) = {n \in Lsns : from <= n /\ oldest_lsn <= n /\ n < expected_lsn}

AnyInv == TypeInv /\ HandleInv /\ Stream /\ ReaderServed

(* The reader stands right behind the last record it has passed, or at the  *)
(* first record of its file.                                                *)
Position ==
    \/ offset = HeaderSize /\ expected_lsn = file
    \/ \E r \in cache[file].recs : offset = End(r) /\ expected_lsn = r.lsn + 1

(* There is no record at its place and no segment behind its file.          *)
AtEnd ==
    /\ ~\E r \in cache[file].recs : At(r)
    /\ ~\E n \in segments : NextSegment(n)

(* On a healthy handle it yields records of the log, and ends at its end.   *)
ReadOK ==
    reader \in {"reading", "end"} /\ ~poisoned =>
        /\ Position
        /\ yielded \subseteq Stored(dir, cache)
        /\ reader = "end" => AtEnd

ExactInv == AnyInv /\ Inv /\ ReadOK

-----------------------------------------------------------------------------
(* The handle, in any environment.                                          *)

(* No record of the run that a scan of segment b meets is below b.          *)
LEMMA RunAbove ==
    ASSUME NEW f \in File, NEW b \in Lsns, NEW r \in Run(f, b)
    PROVE  b <= r.lsn
<1> DEFINE Low == {q \in Run(f, b) : q.lsn < b}
           T == {q.start : q \in Low}
<1>0. /\ b \in Nat /\ Run(f, b) \subseteq f.recs
      /\ \A q \in f.recs : q.lsn \in Nat /\ q.start \in Nat /\ End(q) \in Nat /\ q.start < End(q)
  BY EndType DEF File, Run, Lsns
<1>1. SUFFICES ASSUME r.lsn < b PROVE FALSE
  BY <1>0
<1>2. T \in SUBSET Nat /\ T # {}
  BY <1>0, <1>1
<1>3. PICK m \in T : \A k \in T : m <= k
  <2> HIDE DEF T
  <2> QED BY <1>2, NatMin
<1>4. PICK q \in Low : m = q.start
  OBVIOUS
<1>5. PICK p \in f.recs : End(p) = q.start /\ q.lsn = p.lsn + 1
  <2>1. q \in f.recs /\ InRun(f, b, q) /\ q.lsn < b /\ q.lsn \in Nat /\ q.start \in Nat
    BY <1>0 DEF Run
  <2> QED BY <1>0, <2>1 DEF InRun
<1>6. p \in Low
  <2>1. q \in f.recs /\ InRun(f, b, q) /\ q.lsn < b
    BY DEF Run
  <2>2. p.start < q.start
    BY <1>0, <1>5, <2>1
  <2>3. InRun(f, b, p)
    <3>1. \A s \in f.recs : s.start <= p.start => s.start <= q.start
      BY <1>0, <2>1, <2>2
    <3> QED BY <2>1, <3>1 DEF InRun
  <2>4. p.lsn < b
    BY <1>0, <1>5, <2>1
  <2> QED BY <2>3, <2>4 DEF Run
<1>7. q.start <= p.start
  BY <1>3, <1>4, <1>6
<1>8. q \in f.recs
  BY <1>0
<1> HIDE DEF T, Low
<1> QED BY <1>0, <1>5, <1>7, <1>8

(* open starts the LSNs of a handle behind the base of its active segment.  *)
LEMMA OpenedListed ==
    ASSUME TypeInv, TypeInv', NEW a \in dir, Highest(a, dir), NEW o \in dir, Lowest(o, dir), NEW off,
           Handle(a, off, RunLast(cache[a], a), o), dir' = dir
    PROVE  HandleInv'
<1>1. a \in Lsns /\ cache[a] \in File /\ a \in Nat /\ dir \subseteq Nat
  <2>1. dir \subseteq Lsns /\ cache[a] \in File
    BY DEF TypeInv, TypeOK
  <2> QED BY <2>1 DEF Lsns
<1>2. last_lsn' = RunLast(cache[a], a) /\ last_lsn' \in Nat
  BY DEF Handle, TypeInv, TypeOK
<1>3. a <= last_lsn' + 1
  <2>1. CASE Run(cache[a], a) = {}
    BY <1>1, <1>2, <2>1 DEF RunLast
  <2>2. CASE Run(cache[a], a) # {}
    <3>1. LastRecord(cache[a], a) \in Run(cache[a], a)
      BY <1>1, <2>2, LastRecordInRun
    <3>2. a <= LastRecord(cache[a], a).lsn
      BY <1>1, <3>1, RunAbove
    <3> QED BY <1>1, <1>2, <2>2, <3>2 DEF RunLast
  <2> QED BY <2>1, <2>2
<1>4. \A b \in dir : b <= last_lsn' + 1
  BY <1>1, <1>2, <1>3 DEF Highest
<1>5. pc' = "idle" /\ segments' = dir /\ oldest_lsn' = o /\ staging' = {} /\ ~poisoned' /\ doomed' = {}
  BY DEF Handle
<1> QED BY <1>4, <1>5 DEF HandleInv, Listed, Lowest, IsOpen, CreateSteps

(* Every step of the writer and of the environment keeps the handle so.     *)
LEMMA HandleNext ==
    ASSUME TypeInv, TypeInv', HandleInv, Next
    PROVE  HandleInv'
<1> USE DEF segVars, lsnVars, bufVars
<1>0. /\ last_lsn \in Nat /\ staging \in SUBSET Record /\ segments \subseteq Nat
      /\ (\A s \in staging : s.lsn \in Nat) /\ target \in Nat
      /\ IsOpen => oldest_lsn \in segments
  <2>1. last_lsn \in Nat /\ staging \in SUBSET Record /\ segments \subseteq Nat /\ target \in Nat
    <3>1. /\ last_lsn \in 0..MaxLsn /\ staging \in SUBSET Record /\ segments \subseteq Lsns
          /\ target \in Lsns \cup {0}
      BY DEF TypeInv, TypeOK
    <3> QED BY <3>1 DEF Lsns
  <2>2. \A s \in staging : s.lsn \in Nat
    BY <2>1, EndType
  <2> QED BY <2>1, <2>2 DEF HandleInv, Listed, Lowest
<1>1. ASSUME NoHandle, pc' = "closed" PROVE HandleInv'
  BY <1>1 DEF NoHandle, HandleInv, IsOpen, CreateSteps
<1>2. ASSUME Poison, dir' = dir, IsOpen PROVE HandleInv'
  BY <1>2 DEF Poison, HandleInv, Listed, IsOpen, CreateSteps
<1>3. CASE Open
  <2>1. CASE \E seed \in Seeds : OpenStart(seed)
    BY <2>1 DEF OpenStart, fsVars, HandleInv, Listed, IsOpen, CreateSteps
  <2>2. CASE DiscoverEmpty \/ KeepHighest
    BY <2>2 DEF DiscoverEmpty, KeepHighest, fsVars, HandleInv, Listed, IsOpen, CreateSteps
  <2>3. CASE DiscardHighest \/ DiscardSync \/ RecoverTorn
    BY <2>3 DEF DiscardHighest, DiscardSync, RecoverTorn, HandleInv, Listed, IsOpen, CreateSteps
  <2>4. CASE RecoverClean
    <3>1. PICK a \in dir, o \in dir :
            /\ Highest(a, dir) /\ Lowest(o, dir)
            /\ Handle(a, RunEnd(cache[a], a), RunLast(cache[a], a), o)
      BY <2>4 DEF RecoverClean
    <3> QED BY <2>4, <3>1, OpenedListed DEF RecoverClean, fsVars
  <2>5. CASE ZeroSync
    <3>1. PICK a \in dir, o \in dir :
            /\ Highest(a, dir) /\ Lowest(o, dir)
            /\ Handle(a, RunEnd(cache[a], a), RunLast(cache[a], a), o)
      BY <2>5 DEF ZeroSync
    <3> QED BY <2>5, <3>1, OpenedListed DEF ZeroSync
  <2>6. CASE RejectHighest \/ RecoverFatal \/ OpenFault
    BY <1>1, <2>6 DEF RejectHighest, RecoverFatal, OpenFault
  <2> QED BY <1>3, <2>1, <2>2, <2>3, <2>4, <2>5, <2>6 DEF Open
<1>4. CASE Create
  <2>1. CASE CreateNew
    BY <2>1 DEF CreateNew, HandleInv, Listed, IsOpen, CreateSteps
  <2>2. CASE Allocate \/ WriteHeader \/ SyncHeader
    BY <2>2 DEF Allocate, WriteHeader, SyncHeader, HandleInv, Listed, IsOpen, CreateSteps
  <2>3. CASE ColdStarted
    <3>1. dir = {target} /\ target \in Nat
      BY <1>0, <2>3 DEF ColdStarted, HandleInv, CreateSteps
    <3>2. /\ pc' = "idle" /\ segments' = {target} /\ oldest_lsn' = target /\ staging' = {}
          /\ ~poisoned' /\ doomed' = {} /\ last_lsn' = target - 1 /\ dir' = dir
      BY <2>3, <3>1 DEF ColdStarted, Handle
    <3>3. target <= target - 1 + 1 /\ target <= target
      BY <3>1
    <3> QED BY <3>1, <3>2, <3>3 DEF HandleInv, Listed, Lowest, IsOpen, CreateSteps
  <2>4. CASE Rolled
    <3>1. /\ IsOpen /\ Listed /\ pc = "dirsync" /\ doomed = {} /\ ~poisoned /\ target \in Nat
      BY <2>4 DEF Rolled, HandleInv, CreateSteps, TypeInv, TypeOK, Lsns
    <3>2. /\ segments' = segments \cup {target} /\ pc' = "commit"
          /\ UNCHANGED <<dir, oldest_lsn, last_lsn, staging, poisoned, doomed>>
      BY <2>4 DEF Rolled, Activate
    <3>3. oldest_lsn <= target /\ target <= last_lsn + 1 /\ target \in dir
      BY <1>0, <3>1 DEF Listed, CreateSteps, Lowest
    <3>4. Lowest(oldest_lsn, segments') /\ \A b \in segments' : b <= last_lsn + 1
      BY <3>1, <3>2, <3>3 DEF Listed, Lowest
    <3> QED BY <3>1, <3>2, <3>3, <3>4 DEF HandleInv, Listed, IsOpen, CreateSteps
  <2>5. CASE CreateFault
    BY <1>1, <1>2, <2>5 DEF CreateFault, fsVars
  <2> QED BY <1>4, <2>1, <2>2, <2>3, <2>4, <2>5 DEF Create
<1>5. CASE Commit
  <2>1. CASE CommitEmpty \/ CommitStart \/ CommitWrite
    BY <2>1 DEF CommitEmpty, CommitStart, CommitWrite, Ready, fsVars, HandleInv, Listed, IsOpen,
                CreateSteps
  <2>2. CASE CommitNoFit \/ CommitSync
    <3>1. /\ pc \in {"commit", "sync"} /\ doomed = {}
          /\ UNCHANGED <<dir, segments, oldest_lsn, last_lsn, poisoned, doomed>>
      BY <2>2 DEF CommitNoFit, CommitSync, fsVars, HandleInv
    <3>2. \/ staging' = {} /\ pc' = "idle"
          \/ staging' = staging /\ pc' = "create" /\ \E r \in staging : target' = r.lsn
      BY <2>2 DEF CommitNoFit, CommitSync, FirstUnwritten
    <3>3. ~poisoned /\ IsOpen
      BY <3>1 DEF HandleInv
    <3> QED BY <1>0, <3>1, <3>2, <3>3 DEF HandleInv, Listed, IsOpen, CreateSteps
  <2>3. CASE CommitWriteFault \/ CommitSyncFault
    <3>1. IsOpen /\ dir' = dir
      BY <2>3 DEF CommitWriteFault, CommitSyncFault, fsVars, HandleInv
    <3>2. Poison \/ (NoHandle /\ pc' = "closed")
      BY <2>3 DEF CommitWriteFault, CommitSyncFault
    <3> QED BY <1>1, <1>2, <3>1, <3>2
  <2> QED BY <1>5, <2>1, <2>2, <2>3 DEF Commit
<1>6. CASE Checkpoint
  <2>1. CASE \E up_to \in 0..MaxLsn : CheckpointStart(up_to)
    BY <2>1 DEF CheckpointStart, Ready, fsVars, HandleInv, Listed, IsOpen, CreateSteps
  <2>2. CASE CheckpointUnlink
    BY <2>2 DEF CheckpointUnlink, HandleInv, Listed, IsOpen, CreateSteps, Lowest
  <2>3. CASE CheckpointSync
    <3>1. pc = "unlink" /\ ~poisoned /\ doomed \cap dir = {} /\ IsOpen
      BY <2>3 DEF CheckpointSync, HandleInv, IsOpen
    <3>2. PICK o \in segments : Lowest(o, segments \ doomed) /\ oldest_lsn' = o
      BY <2>3 DEF CheckpointSync
    <3> QED BY <1>0, <2>3, <3>1, <3>2
        DEF CheckpointSync, HandleInv, Listed, Lowest, IsOpen, CreateSteps
  <2>4. CASE CheckpointFault
    <3>1. IsOpen /\ dir' = dir /\ Poison
      BY <2>4 DEF CheckpointFault, fsVars, HandleInv
    <3> QED BY <1>2, <3>1
  <2> QED BY <1>6, <2>1, <2>2, <2>3, <2>4 DEF Checkpoint
<1>7. CASE Environment
  BY <1>1, <1>7 DEF Environment, Kill, LosePower, Writeback, MediaFault, HandleInv, IsOpen,
                    CreateSteps
<1>8. CASE \E p \in Payloads : Append(p)
  <2>1. PICK p \in Payloads : Append(p)
    BY <1>8
  <2> DEFINE new == [lsn |-> last_lsn + 1, pay |-> p, start |-> staging_len]
  <2>2. /\ pc = "idle" /\ IsOpen /\ ~poisoned /\ Listed
        /\ staging' = staging \cup {new} /\ last_lsn' = last_lsn + 1
        /\ UNCHANGED <<dir, pc, doomed, segments, oldest_lsn, poisoned>>
    BY <2>1 DEF Append, Ready, fsVars, HandleInv
  <2>3. \A b \in segments : b <= last_lsn + 1 /\ b <= last_lsn + 1 + 1 /\ b \in Nat
    BY <1>0, <2>2 DEF Listed
  <2>4. ASSUME NEW s \in staging'
        PROVE  oldest_lsn <= s.lsn /\ s.lsn <= last_lsn + 1 /\ \A b \in segments : b <= s.lsn
    <3>1. CASE s \in staging
      <4>1. s.lsn \in Nat /\ s.lsn <= last_lsn
        BY <1>0, <2>2, <3>1 DEF Listed
      <4>2. s.lsn <= last_lsn + 1
        BY <1>0, <4>1
      <4> QED BY <2>2, <3>1, <4>2 DEF Listed
    <3>2. CASE s = new
      <4>1. s.lsn = last_lsn + 1
        BY <3>2
      <4>2. oldest_lsn \in segments
        BY <1>0, <2>2
      <4>3. \A b \in segments : b <= s.lsn
        BY <2>3, <4>1
      <4>4. s.lsn <= last_lsn + 1
        BY <1>0, <4>1
      <4> QED BY <4>2, <4>3, <4>4
    <3> QED BY <2>2, <3>1, <3>2
  <2> QED BY <2>2, <2>3, <2>4 DEF HandleInv, Listed, IsOpen, CreateSteps
<1> QED BY <1>3, <1>4, <1>5, <1>6, <1>7, <1>8 DEF Next

-----------------------------------------------------------------------------
(* The reader, in any environment.                                          *)

(* A step is one of the writer or the environment, one that leaves all that *)
(* is theirs alone, or a page that rots under the reader.                   *)
LEMMA StepKinds == ReaderNext => [Next]_vars \/ ReaderRot
BY DEF ReaderNext, WriterStep, ReaderDies, ReaderStep, ReaderRecord, ReaderBreak, ReaderAdvance,
       ReaderEnd, ReaderFails, ReaderDrop, ReaderRefused, ReaderFrom, Next, Environment

(* A page that rots keeps the types and the handle.                         *)
LEMMA RotTypes ==
    ASSUME TypeInv, ReaderRot
    PROVE  TypeInv' /\ (HandleInv => HandleInv')
<1> USE DEF segVars, lsnVars, bufVars
<1>0. PICK b \in {c \in dir : disk[c] = cache[c]} : \E r \in disk[b].recs :
        Rot(b, r) /\ cache' = [cache EXCEPT ![b] = disk'[b]]
  BY DEF ReaderRot
<1>1. PICK r \in disk[b].recs : Rot(b, r) /\ cache' = [cache EXCEPT ![b] = disk'[b]]
  BY <1>0
<1>2. TypeOK /\ b \in Lsns
  BY DEF TypeInv, TypeOK
<1>3. disk' \in [Lsns -> File] /\ rotten' \subseteq Rotten
  BY <1>1, <1>2, RotType
<1>4. cache' \in [Lsns -> File]
  BY <1>1, <1>2, <1>3 DEF TypeOK
<1>5. faults' \in 0..MediaFaults
  BY EnvironmentAssumption DEF ReaderRot, TypeInv, TypeOK
<1>6. /\ UNCHANGED <<dir, ddir, pc, target, doomed, segments, active, write_offset, oldest_lsn,
                     last_lsn, durable_lsn, staging, staging_len, pos, scan, poisoned, err, acked,
                     released>>
  BY DEF ReaderRot
<1>7. TypeInv'
  BY <1>3, <1>4, <1>5, <1>6 DEF TypeInv, TypeOK
<1>8. HandleInv => HandleInv'
  BY <1>6 DEF HandleInv, Listed, IsOpen
<1> QED BY <1>7, <1>8

(* The stream starts empty in the segment that holds its first record.      *)
LEMMA StreamStarts ==
    ASSUME TypeInv, HandleInv, NEW lsn \in 0..MaxLsn, ReaderFrom(lsn)
    PROVE  Stream'
<1>0. /\ IsOpen /\ Lowest(oldest_lsn, segments) /\ segments \subseteq Nat /\ pc = "idle"
      /\ UNCHANGED vars /\ oldest_lsn \in Nat
  <2>1. segments \subseteq Nat
    BY DEF TypeInv, TypeOK, Lsns
  <2> QED BY <2>1 DEF ReaderFrom, HandleInv, Listed, Lowest
<1>1. UNCHANGED <<pc, segments, oldest_lsn>>
  BY <1>0 DEF vars, segVars
<1>2. from' \in Nat /\ yielded' = {}
  BY ConfigAssumption DEF ReaderFrom
<1>3. PICK b \in segments \cap dir : Containing(from', b) /\ file' = b /\ expected_lsn' = b
  BY DEF ReaderFrom
<1>4. b \in Nat /\ oldest_lsn <= b /\ (b <= from' \/ b <= oldest_lsn)
  BY <1>0, <1>3 DEF Containing, Highest, Lowest
<1>5. \A n \in Lsns : ~(from' <= n /\ oldest_lsn <= n /\ n < b)
  BY <1>0, <1>2, <1>4 DEF Lsns
<1>6. Lsn(yielded') = {n \in Lsns : from' <= n /\ oldest_lsn <= n /\ n < b}
  BY <1>2, <1>5 DEF Lsn
<1> QED BY <1>0, <1>1, <1>2, <1>3, <1>4, <1>6 DEF Stream, IsOpen

(* It goes on by the record it expects.                                     *)
LEMMA StreamGoesOn ==
    ASSUME TypeInv, HandleInv, Stream, ReaderRecord
    PROVE  Stream'
<1>0. /\ pc = "idle" /\ IsOpen /\ file \in segments /\ from \in Nat /\ expected_lsn \in Nat
      /\ oldest_lsn <= expected_lsn /\ oldest_lsn \in Nat
      /\ Lsn(yielded) = {n \in Lsns : from <= n /\ oldest_lsn <= n /\ n < expected_lsn}
  BY DEF ReaderRecord, Stream, HandleInv, Listed, Lowest, TypeInv, TypeOK, Lsns
<1>1. UNCHANGED <<pc, segments, oldest_lsn, from, file, reader>>
  BY DEF ReaderRecord, vars, segVars
<1>2. PICK r \in cache[file].recs :
        /\ r.lsn = expected_lsn /\ expected_lsn' = r.lsn + 1
        /\ yielded' = IF r.lsn < from THEN yielded ELSE yielded \cup Contents({r})
  BY DEF ReaderRecord, InSequence
<1>3. Lsn(yielded') = {n \in Lsns : from <= n /\ oldest_lsn <= n /\ n < expected_lsn + 1}
  <2>1. \A n \in Lsns : n < expected_lsn + 1 <=> n < expected_lsn \/ n = expected_lsn
    BY <1>0 DEF Lsns
  <2>2. CASE expected_lsn < from
    BY <1>0, <1>2, <2>1, <2>2 DEF Lsns
  <2>3. CASE ~(expected_lsn < from)
    <3>1. expected_lsn \in Lsns
      <4>1. cache[file].recs \subseteq Record
        BY <1>0 DEF TypeInv, TypeOK, File
      <4> QED BY <1>2, <4>1 DEF Record
    <3>2. Lsn(Contents({r})) = {r.lsn}
      <4>1. Contents({r}) = {[lsn |-> r.lsn, pay |-> r.pay]}
        BY DEF Contents
      <4>2. Lsn({[lsn |-> r.lsn, pay |-> r.pay]}) = {r.lsn}
        BY DEF Lsn
      <4> QED BY <4>1, <4>2
    <3>3. Lsn(yielded \cup Contents({r})) = Lsn(yielded) \cup Lsn(Contents({r}))
      BY DEF Lsn
    <3>4. Lsn(yielded') = Lsn(yielded) \cup {expected_lsn}
      BY <1>2, <2>3, <3>2, <3>3
    <3>5. from <= expected_lsn
      BY <1>0, <2>3
    <3> QED BY <1>0, <2>1, <3>1, <3>4, <3>5
  <2> QED BY <2>2, <2>3
<1>4. oldest_lsn <= expected_lsn + 1 /\ expected_lsn + 1 \in Nat
  BY <1>0
<1> QED BY <1>0, <1>1, <1>2, <1>3, <1>4 DEF Stream, IsOpen

(* The other steps of a reader do not touch the stream, and the segment a   *)
(* healthy handle needs for it is there.                                    *)
LEMMA AnyNext ==
    AnyInv /\ [ReaderNext]_<<vars, readerVars>> => AnyInv'
<1> SUFFICES ASSUME TypeInv, HandleInv, Stream, ReaderServed, [ReaderNext]_<<vars, readerVars>>
             PROVE  AnyInv'
  BY DEF AnyInv
<1>1. TypeInv' /\ HandleInv'
  <2>1. CASE ReaderRot
    BY <2>1, RotTypes
  <2>2. CASE [Next]_vars
    <3>1. TypeInv'
      BY <2>2, TypeNext
    <3>2. CASE UNCHANGED vars
      BY <3>1, <3>2 DEF vars, fsVars, segVars, lsnVars, bufVars, HandleInv, Listed, IsOpen
    <3> QED BY <2>2, <3>1, <3>2, HandleNext
  <2>3. CASE UNCHANGED <<vars, readerVars>>
    BY <2>2, <2>3
  <2> QED BY <2>1, <2>2, <2>3, StepKinds
<1> SUFFICES Stream' /\ ReaderServed'
  BY <1>1 DEF AnyInv
<1>2. CASE reader' \notin {"reading", "end", "NotFound"}
  BY <1>2 DEF Stream, ReaderServed
<1>3. CASE WriterStep \/ ReaderDies \/ ReaderDrop
  BY <1>2, <1>3 DEF WriterStep, ReaderDies, ReaderDrop, Reset, readerVars
<1>4. CASE ReaderRot
  <2>1. UNCHANGED <<pc, segments, oldest_lsn, poisoned, reader, from, file, expected_lsn, yielded>>
    BY <1>4 DEF ReaderRot, segVars, readerVars
  <2> QED BY <2>1 DEF Stream, ReaderServed, IsOpen
<1>5. CASE ReaderFails
  BY <1>2, <1>5 DEF ReaderFails
<1>6. CASE ReaderBreak \/ ReaderEnd \/ UNCHANGED <<vars, readerVars>>
  <2>1. /\ UNCHANGED <<pc, segments, oldest_lsn, poisoned, from, file, expected_lsn, yielded>>
        /\ reader' = reader \/ (reader = "reading" /\ reader' = "end")
    BY <1>6 DEF ReaderBreak, ReaderEnd, vars, segVars, readerVars
  <2> QED BY <2>1 DEF Stream, ReaderServed, IsOpen
<1>7. CASE ReaderAdvance
  <2>1. /\ UNCHANGED <<pc, segments, oldest_lsn, poisoned, reader, from, expected_lsn, yielded>>
        /\ reader = "reading" /\ file' \in segments
    BY <1>7 DEF ReaderAdvance, NextSegment, Next_, vars, segVars
  <2> QED BY <2>1 DEF Stream, ReaderServed, IsOpen
<1>8. CASE ReaderRecord
  BY <1>8, StreamGoesOn DEF ReaderServed, ReaderRecord
<1>9. CASE \E lsn \in 0..MaxLsn : ReaderFrom(lsn)
  BY <1>9, StreamStarts DEF ReaderServed, ReaderFrom
<1>10. CASE \E lsn \in 0..MaxLsn : ReaderRefused(lsn)
  <2>1. PICK lsn \in 0..MaxLsn : ReaderRefused(lsn)
    BY <1>10
  <2>2. pc = "idle" /\ IsOpen /\ UNCHANGED vars /\ UNCHANGED poisoned
    BY <2>1 DEF ReaderRefused, vars
  <2>3. reader' = "NotFound" => \E b \in segments : b \notin dir
    BY <2>1 DEF ReaderRefused, Reset
  <2>4. ~poisoned => segments \subseteq dir
    BY <2>2 DEF HandleInv, Listed
  <2>5. reader' \in {"NotFound", "ContiguityViolation"}
    BY <2>1 DEF ReaderRefused, Reset
  <2> QED BY <2>2, <2>3, <2>4, <2>5 DEF Stream, ReaderServed
<1> QED BY <1>3, <1>4, <1>5, <1>6, <1>7, <1>8, <1>9, <1>10 DEF ReaderNext, ReaderStep

(* What holds of every reader in every environment.                         *)
LEMMA AnyCorrect == ReaderSpec => []AnyInv
<1>1. ReaderInit => AnyInv
  <2> SUFFICES ASSUME ReaderInit PROVE AnyInv
    OBVIOUS
  <2>1. TypeInv
    BY TypeInit DEF ReaderInit
  <2>2. HandleInv /\ Stream /\ ReaderServed
    BY DEF ReaderInit, Init, HandleInv, IsOpen, CreateSteps, Stream, ReaderServed
  <2> QED BY <2>1, <2>2 DEF AnyInv
<1> QED BY <1>1, AnyNext, PTL DEF ReaderSpec

(* D6: whatever the disk holds, whatever a crash has left and whether or    *)
(* not a call has failed on the handle, next never skips an LSN and never   *)
(* repeats one.                                                             *)
THEOREM ReplayNeverJumps == ReaderSpec => []ReplayDense
<1>1. AnyInv => ReplayDense
  <2> SUFFICES ASSUME AnyInv, reader \in {"reading", "end"}
               PROVE  \E low \in {from, oldest_lsn} :
                        /\ from <= low
                        /\ Lsn(yielded) = {n \in Lsns : low <= n /\ n < expected_lsn}
    BY DEF ReplayDense
  <2>1. /\ from \in Nat /\ oldest_lsn \in Nat
        /\ Lsn(yielded) = {n \in Lsns : from <= n /\ oldest_lsn <= n /\ n < expected_lsn}
    <3>1. oldest_lsn \in Lsns \cup {0}
      BY DEF AnyInv, TypeInv, TypeOK
    <3> QED BY <3>1 DEF AnyInv, Stream, Lsns
  <2>2. \A n \in Lsns : n \in Nat
    BY DEF Lsns
  <2>3. CASE from <= oldest_lsn
    <3>1. \A n \in Lsns : oldest_lsn <= n => from <= n
      BY <2>1, <2>2, <2>3
    <3>2. Lsn(yielded) = {n \in Lsns : oldest_lsn <= n /\ n < expected_lsn}
      BY <2>1, <3>1
    <3> QED BY <2>3, <3>2
  <2>4. CASE ~(from <= oldest_lsn)
    <3>1. \A n \in Lsns : from <= n => oldest_lsn <= n
      BY <2>1, <2>2, <2>4
    <3>2. Lsn(yielded) = {n \in Lsns : from <= n /\ n < expected_lsn}
      BY <2>1, <3>1
    <3>3. from <= from
      BY <2>1
    <3> QED BY <3>2, <3>3
  <2> QED BY <2>3, <2>4
<1> QED BY AnyCorrect, <1>1, PTL

(* reader_from finds its first file, in every environment, unless a call    *)
(* has failed on the handle.                                                *)
THEOREM HealthyHandleServes == ReaderSpec => []ReaderServed
<1>1. AnyInv => ReaderServed
  BY DEF AnyInv
<1> QED BY AnyCorrect, <1>1, PTL

-----------------------------------------------------------------------------
(* The reader of a healthy handle in an honest environment.                 *)

(* In a file whose records are a chain, the next record is the expected one *)
(* and where there is none the reader has passed them all.                  *)
LEMMA ChainRead ==
    ASSUME NEW R \in SUBSET Record, NEW b \in Nat, Chained(R, b, HeaderSize),
           NEW off, NEW x \in Nat,
           \/ off = HeaderSize /\ x = b
           \/ \E r \in R : off = End(r) /\ x = r.lsn + 1
    PROVE  /\ \A r \in R : r.start = off => r.lsn = x
           /\ (~\E r \in R : r.start = off) => \A r \in R : r.lsn < x
<1>0. /\ \A r \in R : /\ r.lsn \in Nat /\ r.start \in Nat /\ End(r) \in Nat /\ r.start < End(r)
                      /\ b <= r.lsn /\ HeaderSize <= r.start
      /\ HeaderSize \in Nat
  BY EndType, ConfigAssumption DEF Chained
<1>1. ASSUME NEW q \in R, NEW p \in R, End(q) = End(p) PROVE q = p
  <2>1. /\ q.lsn < p.lsn => End(q) <= p.start
        /\ p.lsn < q.lsn => End(p) <= q.start
        /\ q.lsn = p.lsn => q = p
    BY DEF Chained
  <2> QED BY <1>0, <1>1, <2>1
<1>2. \A r \in R : \/ r.lsn = b /\ r.start = HeaderSize
                   \/ \E q \in R : End(q) = r.start /\ r.lsn = q.lsn + 1
  BY DEF Chained
<1>3. ASSUME NEW r \in R, r.start = off PROVE r.lsn = x
  <2>1. CASE off = HeaderSize /\ x = b
    <3>1. ASSUME NEW q \in R, End(q) = r.start PROVE FALSE
      BY <1>0, <1>3, <2>1, <3>1
    <3> QED BY <1>2, <2>1, <3>1
  <2>2. CASE \E p \in R : off = End(p) /\ x = p.lsn + 1
    <3>1. PICK p \in R : off = End(p) /\ x = p.lsn + 1
      BY <2>2
    <3>2. r.start # HeaderSize
      BY <1>0, <1>3, <3>1
    <3>3. PICK q \in R : End(q) = r.start /\ r.lsn = q.lsn + 1
      BY <1>2, <3>2
    <3>4. q = p
      BY <1>1, <1>3, <3>1, <3>3
    <3> QED BY <3>1, <3>3, <3>4
  <2> QED BY <2>1, <2>2
<1>4. ASSUME NEW r \in R, ~(r.lsn < x) PROVE \E t \in R : t.start = off
  <2>1. b <= x /\ x <= r.lsn /\ b \in Int /\ x \in Int
    BY <1>0, <1>4
  <2>2. PICK t \in R : t.lsn = x
    BY <2>1, ChainDense
  <2>3. CASE off = HeaderSize /\ x = b
    <3>1. ASSUME NEW q \in R, t.lsn = q.lsn + 1 PROVE FALSE
      BY <1>0, <2>2, <2>3, <3>1
    <3> QED BY <1>2, <2>2, <2>3, <3>1
  <2>4. CASE \E p \in R : off = End(p) /\ x = p.lsn + 1
    <3>1. PICK p \in R : off = End(p) /\ x = p.lsn + 1
      BY <2>4
    <3>2. t.lsn # b
      BY <1>0, <2>2, <3>1
    <3>3. PICK q \in R : End(q) = t.start /\ t.lsn = q.lsn + 1
      BY <1>2, <3>2
    <3>4. q.lsn = p.lsn
      BY <1>0, <2>2, <3>1, <3>3
    <3>5. q = p
      BY <3>4 DEF Chained
    <3> QED BY <3>1, <3>3, <3>5
  <2> QED BY <2>3, <2>4
<1> QED BY <1>3, <1>4

(* So it is for the file of a reader of a healthy handle.                   *)
LEMMA FileRead ==
    ASSUME ExactInv, reader \in {"reading", "end"}, ~poisoned
    PROVE  /\ Live /\ pc = "idle" /\ dir = segments /\ ddir = segments /\ file \in dir /\ file \in Nat
           /\ expected_lsn \in Nat
           /\ cache[file].recs \in SUBSET Record
           /\ Chained(cache[file].recs, file, HeaderSize)
           /\ \A r \in cache[file].recs : At(r) => r.lsn = expected_lsn
           /\ (~\E r \in cache[file].recs : At(r)) => \A r \in cache[file].recs : r.lsn < expected_lsn
<1>1. /\ Live /\ pc = "idle" /\ dir = segments /\ ddir = segments /\ file \in dir
      /\ expected_lsn \in Nat /\ TypeOK
  BY DEF ExactInv, AnyInv, TypeInv, Stream, Live, Inv, HandleOK, DirectoryOK
<1>2. file \in Names /\ file \in Nat
  BY <1>1, NamesType DEF Names
<1>3. cache[file].recs \in SUBSET Record /\ Chained(cache[file].recs, file, HeaderSize)
  BY <1>1, <1>2, NamesType DEF ExactInv, Inv, StoreOK, FilesOK, FileOK
<1>4. \/ offset = HeaderSize /\ expected_lsn = file
      \/ \E r \in cache[file].recs : offset = End(r) /\ expected_lsn = r.lsn + 1
  BY DEF ExactInv, ReadOK, Position
<1>5. /\ \A r \in cache[file].recs : r.start = offset => r.lsn = expected_lsn
      /\ (~\E r \in cache[file].recs : r.start = offset)
            => \A r \in cache[file].recs : r.lsn < expected_lsn
  BY <1>1, <1>2, <1>3, <1>4, ChainRead
<1> QED BY <1>1, <1>2, <1>3, <1>5 DEF At

(* The next segment starts with the expected LSN.                           *)
LEMMA AdvanceContinues ==
    ASSUME ExactInv, reader = "reading", ~poisoned, ~\E r \in cache[file].recs : At(r),
           NEW n \in dir, NextSegment(n)
    PROVE  expected_lsn = n
<1>0. /\ Live /\ dir = segments /\ file \in dir /\ file \in Nat /\ expected_lsn \in Nat
      /\ cache[file].recs \in SUBSET Record /\ Chained(cache[file].recs, file, HeaderSize)
      /\ \A r \in cache[file].recs : r.lsn < expected_lsn
  BY FileRead
<1>1. TypeOK /\ StoreOK /\ n \in Nat /\ dir \subseteq Names /\ dir \subseteq Nat
  BY NamesType DEF ExactInv, AnyInv, TypeInv, Inv, Names
<1>2. \A r \in cache[file].recs : r.lsn \in Nat /\ file <= r.lsn
  BY <1>0, EndType DEF Chained
<1>3. file < n /\ \A c \in dir : file < c => n <= c
  BY <1>0 DEF NextSegment, Next_
<1>4. PICK t \in cache[file].recs : t.lsn + 1 \in dir
  BY <1>0, <1>1, <1>3, SealedInDir
<1>5. \A r \in cache[file].recs : r.lsn < n
  BY <1>0, <1>1, <1>3 DEF StoreOK, SealedOK
<1>6. n <= t.lsn + 1
  BY <1>0, <1>2, <1>3, <1>4
<1>7. PICK p \in cache[file].recs : expected_lsn = p.lsn + 1
  <2>1. \/ offset = HeaderSize /\ expected_lsn = file
        \/ \E r \in cache[file].recs : offset = End(r) /\ expected_lsn = r.lsn + 1
    BY DEF ExactInv, ReadOK, Position
  <2>2. expected_lsn # file
    BY <1>0, <1>2, <1>4
  <2> QED BY <2>1, <2>2
<1> QED BY <1>0, <1>1, <1>2, <1>4, <1>5, <1>6, <1>7

(* A reader step keeps to the log.                                          *)
LEMMA ExactStep ==
    ASSUME ExactInv, AnyInv', ReaderNext, reader' \in {"reading", "end"}, ~poisoned',
           UNCHANGED vars
    PROVE  ReadOK'
<1>0. UNCHANGED <<dir, cache, segments, poisoned, pc>>
  BY DEF vars, fsVars, segVars
<1>1. CASE \E lsn \in 0..MaxLsn : ReaderFrom(lsn)
  <2>1. /\ offset' = HeaderSize /\ expected_lsn' = file' /\ yielded' = {} /\ reader' = "reading"
    BY <1>1 DEF ReaderFrom
  <2> QED BY <2>1 DEF ReadOK, Position
<1>2. CASE ReaderRecord
  <2>1. reader = "reading" /\ reader' = reader /\ file' = file
    BY <1>2 DEF ReaderRecord
  <2>2. PICK r \in cache[file].recs :
          /\ offset' = End(r) /\ expected_lsn' = r.lsn + 1
          /\ yielded' = IF r.lsn < from THEN yielded ELSE yielded \cup Contents({r})
    BY <1>2 DEF ReaderRecord
  <2>3. Position'
    BY <1>0, <2>1, <2>2 DEF Position
  <2>4. [lsn |-> r.lsn, pay |-> r.pay] \in Stored(dir, cache)
    <3>1. file \in dir
      BY <1>0, <2>1, FileRead
    <3>2. TypeOK /\ StoreOK /\ dir \in SUBSET Names
      BY DEF ExactInv, AnyInv, TypeInv, Inv, Names
    <3> QED BY <3>1, <3>2, ShownRecords
  <2>5. yielded \subseteq Stored(dir, cache)
    BY <1>0, <2>1 DEF ExactInv, ReadOK
  <2>6. yielded' \subseteq Stored(dir, cache)
    BY <2>2, <2>4, <2>5 DEF Contents
  <2>7. Stored(dir, cache)' = Stored(dir, cache)
    BY <1>0 DEF Stored, Contents, Run, InRun
  <2> QED BY <2>1, <2>3, <2>6, <2>7 DEF ReadOK
<1>3. CASE ReaderAdvance
  <2>1. PICK n \in dir : NextSegment(n) /\ file' = n
    BY <1>3 DEF ReaderAdvance
  <2>2. /\ reader = "reading" /\ reader' = reader /\ offset' = HeaderSize /\ yielded' = yielded
        /\ expected_lsn' = expected_lsn /\ ~\E r \in cache[file].recs : At(r)
    BY <1>3 DEF ReaderAdvance
  <2>3. expected_lsn = n
    BY <1>0, <2>1, <2>2, AdvanceContinues
  <2>4. yielded \subseteq Stored(dir, cache)
    BY <1>0, <2>2 DEF ExactInv, ReadOK
  <2>5. Stored(dir, cache)' = Stored(dir, cache)
    BY <1>0 DEF Stored, Contents, Run, InRun
  <2> QED BY <2>1, <2>2, <2>3, <2>4, <2>5 DEF ReadOK, Position
<1>4. CASE ReaderEnd
  <2>1. /\ reader = "reading" /\ UNCHANGED <<file, offset, expected_lsn, yielded>>
        /\ ~(\E r \in cache[file].recs : At(r)) /\ ~\E n \in segments : NextSegment(n)
    BY <1>4 DEF ReaderEnd
  <2>2. Position /\ yielded \subseteq Stored(dir, cache)
    BY <1>0, <2>1 DEF ExactInv, ReadOK
  <2>3. Stored(dir, cache)' = Stored(dir, cache)
    BY <1>0 DEF Stored, Contents, Run, InRun
  <2>4. AtEnd'
    BY <1>0, <2>1 DEF AtEnd, At, NextSegment, Next_
  <2> QED BY <1>0, <2>1, <2>2, <2>3, <2>4 DEF ReadOK, Position
<1>5. CASE ReaderBreak
  <2>1. reader = "reading" /\ \E r \in cache[file].recs : At(r) /\ r.lsn # expected_lsn
    BY <1>5 DEF ReaderBreak, InSequence
  <2> QED BY <1>0, <2>1, FileRead
<1>6. CASE WriterStep \/ ReaderDies \/ ReaderDrop \/ ReaderFails
           \/ \E lsn \in 0..MaxLsn : ReaderRefused(lsn)
  BY <1>6 DEF WriterStep, ReaderDies, ReaderDrop, ReaderFails, ReaderRefused, Reset, readerVars
<1>7. CASE ReaderRot
  <2>1. UNCHANGED faults /\ faults' = faults + 1 /\ faults \in Nat
    BY <1>7 DEF ReaderRot, vars, ghostVars, mediaVars, ExactInv, AnyInv, TypeInv, TypeOK
  <2> QED BY <2>1
<1> QED BY <1>1, <1>2, <1>3, <1>4, <1>5, <1>6, <1>7 DEF ReaderNext, ReaderStep

(* The invariant of the reader is inductive.                                *)
LEMMA ExactNext ==
    ASSUME Honest
    PROVE  ExactInv /\ [ReaderNext]_<<vars, readerVars>> => ExactInv'
<1> SUFFICES ASSUME ExactInv, [ReaderNext]_<<vars, readerVars>> PROVE ExactInv'
  OBVIOUS
<1>1. AnyInv'
  BY AnyNext DEF ExactInv
<1>2. [Next]_vars
  <2>1. ~ReaderRot
    <3>1. faults \in 0..MediaFaults /\ MediaFaults = 0
      BY DEF ExactInv, AnyInv, TypeInv, TypeOK, Honest
    <3>2. ~(faults < MediaFaults)
      BY <3>1
    <3> QED BY <3>2 DEF ReaderRot
  <2> QED BY <2>1, StepKinds
<1>3. Inv'
  <2>1. Settling /\ ~MediaFault
    BY MediaFaultNever DEF ExactInv, AnyInv, Honest
  <2> QED BY <1>1, <1>2, <2>1, InvNext DEF ExactInv, AnyInv
<1>4. ReadOK'
  <2>1. SUFFICES ASSUME reader' \in {"reading", "end"}, ~poisoned' PROVE ReadOK'
    BY DEF ReadOK
  <2>2. CASE UNCHANGED <<vars, readerVars>>
    BY <2>2 DEF ExactInv, ReadOK, Position, AtEnd, At, NextSegment, Next_, vars, fsVars, segVars,
                readerVars, Stored, Contents, Run, InRun
  <2>3. CASE ReaderNext
    <3>1. UNCHANGED vars
      BY <1>2, <2>1, <2>3
      DEF ReaderNext, WriterStep, ReaderDies, Reset, ReaderStep, ReaderRecord, ReaderBreak,
          ReaderAdvance, ReaderEnd, ReaderFails, ReaderDrop, ReaderRefused, ReaderFrom, readerVars,
          ReaderRot, ExactInv, AnyInv, TypeInv, TypeOK, Honest
    <3> QED BY <1>1, <2>1, <2>3, <3>1, ExactStep
  <2> QED BY <2>2, <2>3
<1> QED BY <1>1, <1>3, <1>4 DEF ExactInv

(* A reader that came to the end has passed durable_lsn.                    *)
LEMMA EndIsDurable ==
    ASSUME ExactInv, reader = "end", ~poisoned
    PROVE  expected_lsn = durable_lsn + 1
<1>0. /\ Live /\ pc = "idle" /\ dir = segments /\ ddir = segments /\ file \in dir /\ file \in Nat
      /\ expected_lsn \in Nat /\ cache[file].recs \in SUBSET Record
      /\ Chained(cache[file].recs, file, HeaderSize)
      /\ (~\E r \in cache[file].recs : At(r)) => \A r \in cache[file].recs : r.lsn < expected_lsn
  BY FileRead
<1>1. /\ \A r \in cache[file].recs : r.lsn < expected_lsn
      /\ ~\E n \in segments : NextSegment(n)
  BY <1>0 DEF ExactInv, ReadOK, AtEnd
<1>2. /\ TypeInv /\ Inv /\ active \in Nat /\ segments \subseteq Nat /\ durable_lsn \in Nat
      /\ active \in segments /\ \A b \in segments : b <= active
  <2>1. TypeInv /\ Inv /\ segments \subseteq Nat /\ durable_lsn \in Nat
    BY DEF ExactInv, AnyInv, TypeInv, TypeOK, Lsns
  <2> QED BY <1>0, <2>1 DEF Inv, HandleOK, DirectoryOK, Highest
<1>3. file = active
  <2> SUFFICES ASSUME file # active PROVE FALSE
    OBVIOUS
  <2> DEFINE T == {c \in segments : file < c}
  <2>0. file < active
    <3>1. file \in segments
      BY <1>0
    <3>2. file <= active
      BY <1>2, <3>1
    <3> QED BY <1>0, <1>2, <3>2
  <2>1. T \in SUBSET Nat /\ T # {}
    BY <1>2, <2>0
  <2>2. PICK n \in T : \A c \in T : n <= c
    <3> HIDE DEF T
    <3> QED BY <2>1, NatMin
  <2>3. NextSegment(n)
    BY <2>2 DEF NextSegment, Next_
  <2> QED BY <1>1, <2>3
<1>4. /\ active <= durable_lsn + 1
      /\ \A r \in disk[active].recs : r.lsn <= durable_lsn
      /\ active <= durable_lsn => \E r \in disk[active].recs : r.lsn = durable_lsn
  BY <1>0, <1>2, TopRecord
<1>5. cache[active] = disk[active]
  BY <1>0, <1>2 DEF Inv, HandleOK, TailOK
<1>6. \A r \in cache[file].recs : r.lsn \in Nat /\ file <= r.lsn
  BY <1>0, EndType DEF Chained
<1>7. \/ expected_lsn = file
      \/ \E r \in cache[file].recs : expected_lsn = r.lsn + 1
  BY DEF ExactInv, ReadOK, Position
<1>8. CASE active <= durable_lsn
  <2>1. PICK r \in cache[file].recs : r.lsn = durable_lsn
    BY <1>3, <1>4, <1>5, <1>8
  <2> QED BY <1>0, <1>1, <1>2, <1>3, <1>4, <1>5, <1>6, <1>7, <1>8, <2>1
<1>9. CASE ~(active <= durable_lsn)
  <2>1. cache[file].recs = {}
    BY <1>2, <1>3, <1>4, <1>5, <1>6, <1>9
  <2> QED BY <1>2, <1>3, <1>4, <1>7, <1>9, <2>1
<1> QED BY <1>8, <1>9

(* D6: replay of a healthy handle that ran to the end is the durable log    *)
(* from the requested LSN on, record for record, whatever rolls,            *)
(* checkpoints, crashes and recoveries went before.                         *)
THEOREM ReplayIsExact == Honest => (ReaderSpec => []ReplayExact)
<1> SUFFICES ASSUME Honest PROVE ReaderSpec => []ReplayExact
  OBVIOUS
<1>1. ReaderInit => Inv /\ ReadOK
  BY InvInit DEF ReaderInit, ReadOK
<1>2. ExactInv => ReplayExact
  <2> SUFFICES ASSUME ExactInv, reader = "end", ~poisoned
               PROVE  /\ yielded = {a \in Stored(dir \cap ddir, disk) : a.lsn >= from}
                      /\ Lsn(yielded) = {n \in oldest_lsn..durable_lsn : n >= from}
    BY DEF ReplayExact
  <2> DEFINE L == Stored(segments, cache)
  <2>0. Live /\ pc = "idle" /\ dir = segments /\ ddir = segments /\ TypeInv /\ Inv
    BY FileRead DEF ExactInv, AnyInv
  <2>1. Stored(dir \cap ddir, disk) = L
    <3>1. \A b \in dir : disk[b] = cache[b]
      <4>1. cache[active] = disk[active]
        BY <2>0 DEF Inv, HandleOK, TailOK
      <4> QED BY <2>0, <4>1, OthersOnDevice
    <3>2. TypeOK /\ StoreOK /\ segments \in SUBSET Names
      BY <2>0 DEF TypeInv, Inv, Names
    <3>3. \A x : /\ x \in L <=>
                      \E b \in segments : \E r \in cache[b].recs : x = [lsn |-> r.lsn, pay |-> r.pay]
                 /\ x \in Stored(segments, disk) <=>
                      \E b \in segments : \E r \in disk[b].recs : x = [lsn |-> r.lsn, pay |-> r.pay]
      BY <3>2, ShownRecords
    <3>4. \A x : x \in L <=> x \in Stored(segments, disk)
      BY <2>0, <3>1, <3>3
    <3>5. dir \cap ddir = segments
      BY <2>0
    <3> HIDE DEF L
    <3> QED BY <3>4, <3>5
  <2>2. /\ {a.lsn : a \in L} = oldest_lsn..durable_lsn
        /\ \A a, c \in L : a.lsn = c.lsn => a = c
    BY <2>0, LogDense DEF DenseLog, Live
  <2>3. /\ oldest_lsn \in Nat /\ oldest_lsn >= 1 /\ durable_lsn \in Nat /\ durable_lsn <= MaxLsn
        /\ from \in Nat /\ MaxLsn \in Nat
        /\ Lsn(yielded) = {n \in Lsns : from <= n /\ oldest_lsn <= n /\ n < expected_lsn}
    <3>1. oldest_lsn \in segments /\ segments \subseteq Lsns /\ durable_lsn \in 0..MaxLsn
      BY <2>0 DEF TypeInv, TypeOK, Inv, HandleOK, DirectoryOK, Lowest
    <3> QED BY <3>1, ConfigAssumption DEF Lsns, ExactInv, AnyInv, Stream
  <2>4. expected_lsn = durable_lsn + 1
    BY EndIsDurable
  <2>5. Lsn(yielded) = {n \in oldest_lsn..durable_lsn : n >= from}
    BY <2>3, <2>4 DEF Lsns
  <2>6. yielded \subseteq L
    BY <2>0 DEF ExactInv, ReadOK
  <2> HIDE DEF L
  <2>7. ASSUME NEW x \in yielded PROVE x \in L /\ x.lsn >= from
    <3>1. x.lsn \in Lsn(yielded)
      BY DEF Lsn
    <3> QED BY <2>5, <2>6, <3>1
  <2>8. ASSUME NEW a \in L, a.lsn >= from PROVE a \in yielded
    <3>1. a.lsn \in oldest_lsn..durable_lsn
      BY <2>2
    <3>2. a.lsn \in Lsn(yielded)
      BY <2>5, <2>8, <3>1
    <3>3. PICK y \in yielded : y.lsn = a.lsn
      BY <3>2 DEF Lsn
    <3> QED BY <2>2, <2>6, <3>3
  <2> QED BY <2>1, <2>5, <2>7, <2>8
<1>3. AnyInv /\ Inv /\ ReadOK => ExactInv
  BY DEF ExactInv
<1> QED BY <1>1, <1>2, <1>3, AnyCorrect, ExactNext, PTL DEF ReaderSpec
=============================================================================
