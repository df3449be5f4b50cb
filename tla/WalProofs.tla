----------------------------- MODULE WalProofs ------------------------------
(***************************************************************************)
(* The writer, checkpoint and recovery of Wal, for every value of the       *)
(* constants: type correctness, chains of records, one lemma for every      *)
(* operation that it preserves the inductive invariant, and the durability  *)
(* contract that follows, for any sequence of crashes; then the same for    *)
(* the page cache alone, when only processes crash.                         *)
(***************************************************************************)
EXTENDS WalInvariant, WellFoundedInduction, TLAPS

(* The naturals are well-ordered.                                           *)
LEMMA NatMin ==
    ASSUME NEW T \in SUBSET Nat, T # {}
    PROVE  \E m \in T : \A n \in T : m <= n
<1> DEFINE R == {ss \in Nat \X Nat : ss[1] < ss[2]}
<1>1. IsWellFoundedOn(R, Nat)
  BY NatLessThanWellFounded DEF OpToRel
<1>2. PICK m \in T : \A y \in T : ~(<<y, m>> \in R)
  <2> HIDE DEF R
  <2> QED BY <1>1, WFMin
<1>3. \A n \in T : ~(n < m)
  BY <1>2
<1> QED BY <1>3

(* LSNs are bounded, so a set of records has one with the largest LSN: the  *)
(* CHOOSE in LastRecord is defined.                                         *)
LEMMA MaxRecord ==
    ASSUME NEW T \in SUBSET Record, T # {}
    PROVE  \E r \in T : \A s \in T : s.lsn <= r.lsn
<1> DEFINE D == {MaxLsn - r.lsn : r \in T}
<1>1. D \in SUBSET Nat /\ D # {}
  BY ConfigAssumption DEF Record, Lsns
<1>2. PICK m \in D : \A n \in D : m <= n
  <2> HIDE DEF D
  <2> QED BY <1>1, NatMin
<1>3. PICK r \in T : m = MaxLsn - r.lsn
  OBVIOUS
<1>4. \A s \in T : MaxLsn - r.lsn <= MaxLsn - s.lsn
  BY <1>2, <1>3
<1> QED BY <1>4, ConfigAssumption DEF Record, Lsns

(* LastRecord is a record of the run, and the one with the largest LSN.     *)
LEMMA LastRecordInRun ==
    ASSUME NEW f \in File, NEW b, Run(f, b) # {}
    PROVE  /\ LastRecord(f, b) \in Run(f, b)
           /\ \A s \in Run(f, b) : s.lsn <= LastRecord(f, b).lsn
<1>1. Run(f, b) \in SUBSET Record
  BY DEF Run, File
<1>2. \E r \in Run(f, b) : \A s \in Run(f, b) : s.lsn <= r.lsn
  BY <1>1, MaxRecord
<1> QED BY <1>2 DEF LastRecord

(* Where recovery resumes is an LSN and an offset.                          *)
LEMMA ResumeType ==
    ASSUME NEW f \in File, NEW b \in Lsns
    PROVE  RunLast(f, b) \in 0..MaxLsn /\ RunEnd(f, b) \in Nat
<1>1. CASE Run(f, b) = {}
  BY <1>1, ConfigAssumption DEF RunLast, RunEnd, Lsns
<1>2. CASE Run(f, b) # {}
  <2>1. LastRecord(f, b) \in Record
    BY <1>2, LastRecordInRun DEF Run, File
  <2> QED BY <1>2, <2>1, ConfigAssumption DEF RunLast, RunEnd, End, Record, Lsns
<1> QED BY <1>1, <1>2

(* What a caller sees of records are acknowledgements.                      *)
LEMMA ContentsType ==
    ASSUME NEW S \in SUBSET Record
    PROVE  Contents(S) \subseteq Ack
BY DEF Contents, Ack, Record

(* So is what it sees of files.                                             *)
LEMMA StoredType ==
    ASSUME NEW names \in SUBSET Lsns, NEW files \in [Lsns -> File]
    PROVE  Stored(names, files) \subseteq Ack
<1>1. \A b \in Lsns : Run(files[b], b) \in SUBSET Record
  BY DEF Run, File
<1>2. UNION {Run(files[b], b) : b \in {c \in names : files[c].hdr = "ok"}} \in SUBSET Record
  BY <1>1
<1> QED BY <1>2, ContentsType DEF Stored

-----------------------------------------------------------------------------
(* Type correctness.  write_offset advances by scan - pos, so the cursors   *)
(* must be known to be in order while a sync is pending; and a file is only *)
(* created under a name there is.                                           *)

TypeInv ==
    /\ TypeOK
    /\ pc = "sync" => pos <= scan
    /\ pc \in {"discover", "discard"} \cup CreateSteps => target \in Lsns

(* The type invariant holds at the start.                                   *)
LEMMA TypeInit == Init => TypeInv
<1> SUFFICES ASSUME Init PROVE TypeInv
  OBVIOUS
<1>1. cache \in [Lsns -> File] /\ disk \in [Lsns -> File]
  BY DEF Init, File, Headers, NewFile
<1>2. pc \in Pcs /\ ~(pc \in {"discover", "discard", "sync"} \cup CreateSteps)
  BY DEF Init, Pcs, CreateSteps
<1>3. /\ poisoned \in BOOLEAN /\ err \in Errors /\ acked \subseteq Ack /\ rotten \subseteq Rotten
      /\ staging \subseteq Record
  BY DEF Init, Errors
<1> QED BY <1>1, <1>2, <1>3, ConfigAssumption, EnvironmentAssumption DEF Init, TypeInv, TypeOK

(* Writing a batch into a file gives a file.                                *)
LEMMA WriteRecordsType ==
    ASSUME TypeOK, NEW f \in File, NEW from \in Nat, NEW to \in Nat, NEW off \in Nat
    PROVE  WriteRecords(f, Batch(from, to, off)) \in File
<1>1. Staged(from, to) \subseteq {r \in Record : r.start >= from}
  BY DEF Staged, TypeOK
<1>2. \A r \in Staged(from, to) : [r EXCEPT !.start = off + (r.start - from)] \in Record
  BY <1>1 DEF Record
<1>3. Batch(from, to, off) \subseteq Record
  BY <1>2 DEF Batch
<1> QED BY <1>3 DEF WriteRecords, File

(* What the device makes of a record is a file and a record that was lost.  *)
LEMMA RotType ==
    ASSUME TypeOK, NEW b \in Lsns, NEW r \in disk[b].recs, Rot(b, r)
    PROVE  disk' \in [Lsns -> File] /\ rotten' \subseteq Rotten
<1>1. PICK t \in BOOLEAN :
          /\ disk' = [disk EXCEPT ![b].recs = @ \ {r}, ![b].torn = t]
          /\ rotten' = rotten \cup
                {[lsn |-> r.lsn, pay |-> r.pay, masks |-> ~t /\ Newest(b)]}
  BY DEF Rot
<1>2. disk \in [Lsns -> File] /\ disk[b] \in File /\ r \in Record
  BY DEF TypeOK, File
<1>3. [disk[b] EXCEPT !.recs = @ \ {r}, !.torn = t] \in File
  BY <1>2 DEF File
<1>4. disk' = [disk EXCEPT ![b] = [disk[b] EXCEPT !.recs = @ \ {r}, !.torn = t]]
  BY <1>1
<1>5. (~t /\ Newest(b)) \in BOOLEAN
  OBVIOUS
<1>6. \A m \in BOOLEAN : [lsn |-> r.lsn, pay |-> r.pay, masks |-> m] \in Rotten
  BY <1>2 DEF Record, Rotten
<1>7. [lsn |-> r.lsn, pay |-> r.pay, masks |-> ~t /\ Newest(b)] \in Rotten
  BY <1>5, <1>6
<1>8. rotten \subseteq Rotten
  BY DEF TypeOK
<1> QED BY <1>1, <1>2, <1>3, <1>4, <1>7, <1>8

(* Every step preserves it.                                                 *)
LEMMA TypeNext == TypeInv /\ [Next]_vars => TypeInv'
<1> SUFFICES ASSUME TypeInv, [Next]_vars PROVE TypeInv'
  OBVIOUS
<1> USE ConfigAssumption, EnvironmentAssumption
<1> USE DEF TypeInv, TypeOK, Pcs, CreateSteps, Errors, fsVars, segVars, lsnVars, bufVars,
            mediaVars, ghostVars, fsync_dir, sync_data_fully, Activate, HasNext, SizeAllowed
<1>0. Lsns \subseteq 0..MaxLsn /\ 0 \in 0..MaxLsn /\ NewFile \in File
  BY DEF Lsns, NewFile, File, Headers
<1>1. ASSUME NEW seed \in Seeds, OpenStart(seed) PROVE TypeInv'
  BY <1>1 DEF OpenStart
<1>2. CASE DiscoverEmpty
  BY <1>2 DEF DiscoverEmpty
<1>3. CASE KeepHighest
  BY <1>3 DEF KeepHighest
<1>4. CASE RejectHighest
  BY <1>4, <1>0 DEF RejectHighest, NoHandle
<1>5. CASE DiscardHighest
  BY <1>5 DEF DiscardHighest
<1>6. CASE DiscardSync
  BY <1>6 DEF DiscardSync
<1>7. CASE RecoverFatal
  <2>1. err' \in Errors
    BY <1>7 DEF RecoverFatal, SegmentError
  <2> QED BY <1>7, <1>0, <2>1 DEF RecoverFatal, NoHandle
<1>8. CASE RecoverClean
  <2>1. PICK a \in dir, o \in dir : Handle(a, RunEnd(cache[a], a), RunLast(cache[a], a), o)
    BY <1>8 DEF RecoverClean
  <2>2. cache[a] \in File /\ a \in Lsns /\ o \in Lsns
    OBVIOUS
  <2>3. RunLast(cache[a], a) \in 0..MaxLsn /\ RunEnd(cache[a], a) \in Nat
    BY <2>2, ResumeType
  <2> QED BY <1>8, <2>1, <2>2, <2>3 DEF RecoverClean, Handle
<1>9. CASE RecoverTorn
  <2>1. PICK a \in dir :
            cache' = [cache EXCEPT ![a].recs = Run(cache[a], a), ![a].torn = FALSE]
    BY <1>9 DEF RecoverTorn
  <2>2. cache' \in [Lsns -> File]
    BY <2>1 DEF File, Run
  <2> QED BY <1>9, <2>2 DEF RecoverTorn
<1>10. CASE ZeroSync
  <2>1. PICK a \in dir, o \in dir :
            /\ disk' = [disk EXCEPT ![a] = cache[a]]
            /\ Handle(a, RunEnd(cache[a], a), RunLast(cache[a], a), o)
    BY <1>10 DEF ZeroSync
  <2>2. cache[a] \in File /\ a \in Lsns /\ o \in Lsns
    OBVIOUS
  <2>3. RunLast(cache[a], a) \in 0..MaxLsn /\ RunEnd(cache[a], a) \in Nat
    BY <2>2, ResumeType
  <2> QED BY <1>10, <2>1, <2>2, <2>3 DEF ZeroSync, Handle
<1>11. CASE OpenFault
  BY <1>11, <1>0 DEF OpenFault, NoHandle
<1>12. CASE CreateNew
  BY <1>12, <1>0 DEF CreateNew
<1>13. CASE Allocate
  BY <1>13 DEF Allocate, File, Headers
<1>14. CASE WriteHeader
  BY <1>14 DEF WriteHeader, File, Headers
<1>15. CASE SyncHeader
  BY <1>15 DEF SyncHeader
<1>16. CASE ColdStarted
  <2>1. target \in Lsns /\ target - 1 \in 0..MaxLsn
    BY <1>16 DEF ColdStarted, Lsns
  <2> QED BY <1>16, <1>0, <2>1 DEF ColdStarted, Handle
<1>17. CASE Rolled
  BY <1>17 DEF Rolled
<1>18. CASE CreateFault
  <2>1. CASE IsOpen /\ Poison
    BY <1>18, <2>1 DEF CreateFault, Poison
  <2>2. CASE ~IsOpen /\ NoHandle /\ pc' = "closed" /\ UNCHANGED <<err, ghostVars>>
    BY <1>18, <1>0, <2>2 DEF CreateFault, NoHandle
  <2> QED BY <1>18, <2>1, <2>2 DEF CreateFault
<1>19. ASSUME NEW p \in Payloads, Append(p) PROVE TypeInv'
  <2>1. last_lsn + 1 \in Lsns /\ staging_len + Framed[p] \in Nat
    BY <1>19 DEF Append, Lsns
  <2> QED BY <1>19, <2>1, <1>0 DEF Append, Ready, Record
<1>20. CASE CommitEmpty
  <2>1. Stored(dir, cache) \subseteq Ack
    BY StoredType
  <2> QED BY <1>20, <2>1 DEF CommitEmpty, Report, Ready
<1>21. CASE CommitStart
  BY <1>21 DEF CommitStart
<1>22. CASE CommitWrite
  <2>1. PICK e \in Boundaries :
            /\ e > pos /\ scan' = e
            /\ cache' = [cache EXCEPT ![active] =
                            WriteRecords(@, Batch(pos, e, write_offset))]
    BY <1>22 DEF CommitWrite
  <2>2. e \in Nat
    BY DEF Boundaries, End, Record
  <2>3. cache' \in [Lsns -> File]
    BY <2>1, <2>2, WriteRecordsType
  <2> QED BY <1>22, <2>1, <2>2, <2>3 DEF CommitWrite
<1>23. CASE CommitWriteFault
  <2>1. PICK e \in Boundaries, k \in {pos} \cup Boundaries, t \in BOOLEAN :
            cache' = [cache EXCEPT ![active] =
                        [WriteRecords(@, Batch(pos, k, write_offset)) EXCEPT !.torn = t]]
    BY <1>23 DEF CommitWriteFault
  <2>2. k \in Nat
    BY DEF Boundaries, End, Record
  <2>3. cache' \in [Lsns -> File]
    <3> DEFINE W == WriteRecords(cache[active], Batch(pos, k, write_offset))
    <3>1. active \in Lsns => W \in File
      BY <2>2, WriteRecordsType
    <3>2. active \in Lsns => [W EXCEPT !.torn = t] \in File
      BY <3>1 DEF File
    <3> QED BY <2>1, <3>2
  <2>4. CASE Poison
    BY <1>23, <2>3, <2>4 DEF CommitWriteFault, Poison
  <2>5. CASE pc' = "closed" /\ NoHandle /\ UNCHANGED <<err, ghostVars>>
    BY <1>23, <1>0, <2>3, <2>5 DEF CommitWriteFault, NoHandle
  <2> QED BY <1>23, <2>4, <2>5 DEF CommitWriteFault
<1>24. CASE CommitSync
  <2>1. acked' \subseteq Ack
    <3>1. Stored(dir, cache) \subseteq Ack
      BY StoredType
    <3>2. Contents(Staged(pos, scan)) \subseteq Ack
      BY ContentsType DEF Staged
    <3> QED BY <1>24, <3>1, <3>2 DEF CommitSync, Report
  <2>2. durable_lsn' \in 0..MaxLsn /\ target' \in Lsns \cup {0}
    BY <1>24, <1>0 DEF CommitSync, Record
  <2>3. write_offset' \in Nat
    BY <1>24 DEF CommitSync
  <2>4. disk' \in [Lsns -> File]
    BY <1>24 DEF CommitSync
  <2>5. CASE scan = staging_len /\ staging' = {} /\ staging_len' = 0 /\ pos' = 0 /\ scan' = 0
             /\ pc' = "idle" /\ target' = target
    BY <1>24, <2>1, <2>2, <2>3, <2>4, <2>5 DEF CommitSync
  <2>6. CASE /\ \E r \in staging : FirstUnwritten(scan, r) /\ target' = r.lsn
             /\ pos' = scan /\ pc' = "create" /\ UNCHANGED <<staging, staging_len, scan>>
    <3>1. target' \in Lsns
      BY <2>6 DEF Record
    <3> QED BY <1>24, <2>1, <2>2, <2>3, <2>4, <2>6, <3>1 DEF CommitSync
  <2> QED BY <1>24, <2>5, <2>6 DEF CommitSync
<1>25. CASE CommitSyncFault
  BY <1>25 DEF CommitSyncFault, Poison
<1>26. CASE CommitNoFit
  BY <1>26 DEF CommitNoFit, FirstUnwritten, Record
<1>27. ASSUME NEW u \in 0..MaxLsn, CheckpointStart(u) PROVE TypeInv'
  BY <1>27 DEF CheckpointStart, Deletable, Ready
<1>28. CASE CheckpointUnlink
  BY <1>28 DEF CheckpointUnlink
<1>29. CASE CheckpointSync
  BY <1>29 DEF CheckpointSync
<1>30. CASE CheckpointFault
  BY <1>30 DEF CheckpointFault, Poison
<1>31. CASE Kill
  BY <1>31, <1>0 DEF Kill, NoHandle
<1>32. CASE Writeback
  BY <1>32 DEF Writeback
<1>33. CASE LosePower
  <2>1. PICK S \in SUBSET (dir \cup ddir) :
            /\ dir' = S /\ ddir' = S
            /\ LET Dirty == {b \in S : disk[b] # cache[b]} IN
               \E f \in [Dirty -> UNION {SurvivingFiles(disk[b], cache[b]) : b \in Dirty}] :
                  /\ \A b \in Dirty : f[b] \in SurvivingFiles(disk[b], cache[b])
                  /\ disk' = [b \in Lsns |-> IF b \in Dirty THEN f[b] ELSE disk[b]]
                  /\ cache' = disk'
    BY <1>33 DEF LosePower
  <2> DEFINE Dirty == {b \in S : disk[b] # cache[b]}
  <2>2. PICK f :
            /\ \A b \in Dirty : f[b] \in SurvivingFiles(disk[b], cache[b])
            /\ disk' = [b \in Lsns |-> IF b \in Dirty THEN f[b] ELSE disk[b]]
            /\ cache' = disk'
    BY <2>1
  <2>3. ASSUME NEW d \in File, NEW c \in File PROVE SurvivingFiles(d, c) \subseteq File
    <3>1. \A k : Mixed(d, c, k) \in SUBSET Record
      BY DEF Mixed, File
    <3> QED BY <3>1 DEF SurvivingFiles, File, Headers
  <2>4. \A b \in Dirty : f[b] \in File
    BY <2>2, <2>3
  <2>5. disk' \in [Lsns -> File]
    BY <2>2, <2>4
  <2> QED BY <1>33, <1>0, <2>1, <2>2, <2>5 DEF LosePower, NoHandle
<1>34. CASE MediaFault
  <2>1. disk' \in [Lsns -> File] /\ rotten' \subseteq Rotten
    <3>1. CASE CorruptRecord
      <4>1. PICK b \in dir : \E r \in Run(disk[b], b) : Rot(b, r)
        BY <3>1 DEF CorruptRecord
      <4>2. PICK r \in Run(disk[b], b) : Rot(b, r)
        BY <4>1
      <4> QED BY <4>2, RotType DEF Run
    <3>2. CASE CorruptHeader
      <4>1. PICK b \in dir : disk' = [disk EXCEPT ![b].hdr = "zero"]
        BY <3>2 DEF CorruptHeader
      <4>2. [disk[b] EXCEPT !.hdr = "zero"] \in File
        BY DEF File, Headers
      <4> QED BY <3>2, <4>1, <4>2 DEF CorruptHeader
    <3> QED BY <1>34, <3>1, <3>2 DEF MediaFault
  <2> QED BY <1>34, <2>1 DEF MediaFault
<1>35. CASE UNCHANGED vars
  BY <1>35 DEF vars
<1> QED BY <1>1, <1>2, <1>3, <1>4, <1>5, <1>6, <1>7, <1>8, <1>9, <1>10, <1>11, <1>12, <1>13,
           <1>14, <1>15, <1>16, <1>17, <1>18, <1>19, <1>20, <1>21, <1>22, <1>23, <1>24,
           <1>25, <1>26, <1>27, <1>28, <1>29, <1>30, <1>31, <1>32, <1>33, <1>34, <1>35
        DEF Next, Open, Create, Commit, Checkpoint, Environment

(* The type invariant of the writer holds in every environment: with or     *)
(* without crashes, failing calls, early reopening and media faults.        *)
THEOREM TypeCorrect == Spec => []TypeOK
<1>1. TypeInv => TypeOK
  BY DEF TypeInv
<1> QED BY TypeInit, TypeNext, <1>1, PTL DEF Spec

-----------------------------------------------------------------------------
(* Chains of records: what the scan of a segment, a write behind its last   *)
(* record and the split of a batch do to them.                              *)

(* The fields of a record are numbers, and it is not empty.                 *)
LEMMA EndType ==
    ASSUME NEW r \in Record
    PROVE  End(r) \in Nat /\ r.start < End(r) /\ r.start \in Nat /\ r.lsn \in Lsns /\ r.lsn \in Nat
BY ConfigAssumption DEF End, Record, Lsns

(* A scan from the header meets every record of a chain.                    *)
LEMMA ChainedRun ==
    ASSUME NEW f, NEW b, Chained(f.recs, b, HeaderSize)
    PROVE  Run(f, b) = f.recs
BY DEF Chained, Run, InRun

(* R ends at offset e with LSN l, if it starts at off with b.               *)
EndsAt(R, b, off, l, e) ==
    /\ R = {} => l = b - 1 /\ e = off
    /\ R # {} => \E r \in R : r.lsn = l /\ End(r) = e
    /\ \A r \in R : r.lsn <= l /\ End(r) <= e

(* Recovery resumes right behind the last record.                           *)
LEMMA ResumeAtEnd ==
    ASSUME NEW f \in File, NEW b \in Lsns, Chained(f.recs, b, HeaderSize)
    PROVE  EndsAt(f.recs, b, HeaderSize, RunLast(f, b), RunEnd(f, b))
<1>1. Run(f, b) = f.recs /\ f.recs \in SUBSET Record
  BY ChainedRun DEF File
<1>2. CASE f.recs = {}
  BY <1>1, <1>2 DEF EndsAt, RunLast, RunEnd
<1>3. CASE f.recs # {}
  <2> DEFINE m == LastRecord(f, b)
  <2>1. m \in f.recs /\ \A s \in f.recs : s.lsn <= m.lsn
    BY <1>1, <1>3, LastRecordInRun
  <2>2. RunLast(f, b) = m.lsn /\ RunEnd(f, b) = End(m)
    BY <1>1, <1>3 DEF RunLast, RunEnd
  <2>3. ASSUME NEW s \in f.recs PROVE End(s) <= End(m)
    <3>1. s \in Record /\ m \in Record /\ s.lsn <= m.lsn
      BY <1>1, <2>1
    <3>2. CASE s.lsn < m.lsn
      <4>1. End(s) <= m.start
        BY <2>1, <3>2 DEF Chained
      <4> HIDE DEF m
      <4> QED BY <4>1, <3>1, EndType
    <3>3. CASE s.lsn = m.lsn
      <4>1. s = m
        BY <2>1, <3>3 DEF Chained
      <4> HIDE DEF m
      <4> QED BY <4>1, <3>1, EndType
    <3> HIDE DEF m
    <3> QED BY <3>1, <3>2, <3>3, EndType
  <2> HIDE DEF m
  <2> QED BY <1>3, <2>1, <2>2, <2>3 DEF EndsAt
<1> QED BY <1>2, <1>3

(* Writing a chain where another one ends makes one chain.                  *)
LEMMA ChainAppend ==
    ASSUME NEW R \in SUBSET Record, NEW B \in SUBSET Record,
           NEW b \in Int, NEW off \in Int, NEW l \in Int, NEW e \in Int,
           Chained(R, b, off), EndsAt(R, b, off, l, e), Chained(B, l + 1, e)
    PROVE  Chained(R \cup B, b, off)
<1>0. \A r \in R \cup B : /\ r \in Record /\ End(r) \in Nat /\ r.start < End(r)
                          /\ r.start \in Nat /\ r.lsn \in Nat
  BY EndType
<1>1. b <= l + 1 /\ off <= e
  BY <1>0 DEF EndsAt, Chained
<1>2. \A r \in R \cup B : b <= r.lsn /\ off <= r.start
  BY <1>0, <1>1 DEF Chained
<1>3. ASSUME NEW r \in R \cup B
      PROVE  \/ r.lsn = b /\ r.start = off
             \/ \E q \in R \cup B : End(q) = r.start /\ r.lsn = q.lsn + 1
  <2>1. CASE r \in R
    BY <2>1 DEF Chained
  <2>2. CASE r \in B /\ \E q \in B : End(q) = r.start /\ r.lsn = q.lsn + 1
    BY <2>2
  <2>3. CASE r \in B /\ r.lsn = l + 1 /\ r.start = e
    BY <2>3, <1>0 DEF EndsAt
  <2> QED BY <2>1, <2>2, <2>3 DEF Chained
<1>4. \A r \in R, s \in B : r.lsn < s.lsn /\ End(r) <= s.start
  BY <1>0 DEF EndsAt, Chained
<1>5. ASSUME NEW r \in R \cup B, NEW s \in R \cup B
      PROVE  (r.lsn < s.lsn => End(r) <= s.start) /\ (r.lsn = s.lsn => r = s)
  BY <1>0, <1>4 DEF Chained
<1> QED BY <1>2, <1>3, <1>5 DEF Chained

(* What lies below an offset of a chain is a chain.                         *)
LEMMA ChainPrefix ==
    ASSUME NEW R \in SUBSET Record, NEW b, NEW off, NEW k \in Int, Chained(R, b, off)
    PROVE  Chained({r \in R : End(r) <= k}, b, off)
<1> DEFINE P == {r \in R : End(r) <= k}
<1>0. \A r \in R : End(r) \in Nat /\ r.start < End(r) /\ r.start \in Nat
  BY EndType
<1>1. ASSUME NEW r \in P
      PROVE  \/ r.lsn = b /\ r.start = off
             \/ \E q \in P : End(q) = r.start /\ r.lsn = q.lsn + 1
  <2>1. \A q \in R : End(q) = r.start => q \in P
    BY <1>0
  <2> QED BY <2>1 DEF Chained
<1> QED BY <1>1 DEF Chained

(* A chain moved by a fixed distance is a chain.                            *)
Moved(r, from, off) == [r EXCEPT !.start = off + (r.start - from)]

(* Such a move keeps the LSNs and the distances.                            *)
LEMMA ChainMove ==
    ASSUME NEW S \in SUBSET Record, NEW b \in Int, NEW from \in Nat, NEW off \in Nat,
           Chained(S, b, from)
    PROVE  /\ {Moved(r, from, off) : r \in S} \in SUBSET Record
           /\ Chained({Moved(r, from, off) : r \in S}, b, off)
<1> DEFINE M == {Moved(r, from, off) : r \in S}
<1>0. ASSUME NEW r \in S
      PROVE  /\ Moved(r, from, off) \in Record
             /\ Moved(r, from, off).lsn = r.lsn /\ Moved(r, from, off).pay = r.pay
             /\ Moved(r, from, off).start = r.start + (off - from)
             /\ End(Moved(r, from, off)) = End(r) + (off - from)
             /\ r.lsn \in Nat /\ r.start \in Nat /\ End(r) \in Nat /\ from <= r.start
  BY ConfigAssumption, EndType DEF Moved, Chained, Record, End
<1>1. \A m \in M : b <= m.lsn /\ off <= m.start
  BY <1>0 DEF Chained
<1>2. ASSUME NEW m \in M
      PROVE  \/ m.lsn = b /\ m.start = off
             \/ \E q \in M : End(q) = m.start /\ m.lsn = q.lsn + 1
  <2>1. PICK r \in S : m = Moved(r, from, off)
    OBVIOUS
  <2>2. CASE r.lsn = b /\ r.start = from
    BY <1>0, <2>1, <2>2
  <2>3. CASE \E q \in S : End(q) = r.start /\ r.lsn = q.lsn + 1
    <3>1. PICK q \in S : End(q) = r.start /\ r.lsn = q.lsn + 1
      BY <2>3
    <3>2. Moved(q, from, off) \in M
      OBVIOUS
    <3>3. /\ End(Moved(q, from, off)) = m.start
          /\ m.lsn = Moved(q, from, off).lsn + 1
      BY <1>0, <2>1, <3>1
    <3> QED BY <3>2, <3>3
  <2> QED BY <2>2, <2>3 DEF Chained
<1>3. ASSUME NEW m \in M, NEW n \in M
      PROVE  (m.lsn < n.lsn => End(m) <= n.start) /\ (m.lsn = n.lsn => m = n)
  <2>1. PICK r \in S, s \in S : m = Moved(r, from, off) /\ n = Moved(s, from, off)
    OBVIOUS
  <2>2. (r.lsn < s.lsn => End(r) <= s.start) /\ (r.lsn = s.lsn => r = s)
    BY DEF Chained
  <2>3. r.lsn < s.lsn => End(m) <= n.start
    BY <1>0, <2>1, <2>2
  <2> QED BY <1>0, <2>1, <2>2, <2>3
<1>4. M \in SUBSET Record
  BY <1>0
<1> HIDE DEF M
<1>5. Chained(M, b, off)
  BY <1>1, <1>2, <1>3 DEF Chained
<1> QED BY <1>4, <1>5 DEF M

(* What lies behind a record of a chain is a chain.                         *)
LEMMA ChainSuffix ==
    ASSUME NEW R \in SUBSET Record, NEW b \in Int, NEW off \in Int, NEW t \in R,
           Chained(R, b, off)
    PROVE  /\ Chained({s \in R : s.start >= End(t)}, t.lsn + 1, End(t))
           /\ \A s \in R : s.start < End(t) => End(s) <= End(t)
           /\ \A s \in R : End(s) = End(t) => s = t
<1> DEFINE Q == {s \in R : s.start >= End(t)}
<1>0. \A r \in R : End(r) \in Nat /\ r.start < End(r) /\ r.start \in Nat /\ r.lsn \in Nat
  BY EndType
<1>1. \A s \in R : s.lsn <= t.lsn => End(s) <= End(t)
  BY <1>0 DEF Chained
<1>2. \A s \in R : s.lsn > t.lsn => s.start >= End(t)
  BY <1>0 DEF Chained
<1>3. \A s \in Q : s.lsn >= t.lsn + 1 /\ s.start >= End(t)
  BY <1>0, <1>1
<1>4. ASSUME NEW s \in Q
      PROVE  \/ s.lsn = t.lsn + 1 /\ s.start = End(t)
             \/ \E q \in Q : End(q) = s.start /\ s.lsn = q.lsn + 1
  <2>0. s \in R /\ s.start >= End(t)
    OBVIOUS
  <2>1. CASE s.lsn = b /\ s.start = off
    BY <1>0, <2>0, <2>1 DEF Chained
  <2>2. CASE \E q \in R : End(q) = s.start /\ s.lsn = q.lsn + 1
    <3>1. PICK q \in R : End(q) = s.start /\ s.lsn = q.lsn + 1
      BY <2>2
    <3>2. CASE q.lsn > t.lsn
      BY <3>1, <3>2, <1>2
    <3>3. CASE q.lsn <= t.lsn
      <4>1. q.lsn = t.lsn
        BY <1>0, <1>3, <3>1, <3>3
      <4>2. q = t
        BY <4>1 DEF Chained
      <4> QED BY <3>1, <4>2
    <3> QED BY <1>0, <3>2, <3>3
  <2> QED BY <2>0, <2>1, <2>2 DEF Chained
<1>5. \A s \in R : s.start < End(t) => End(s) <= End(t)
  BY <1>0, <1>1, <1>2
<1>6. ASSUME NEW s \in R, End(s) = End(t) PROVE s = t
  <2>1. ~(s.lsn < t.lsn) /\ ~(t.lsn < s.lsn)
    BY <1>0, <1>6 DEF Chained
  <2> QED BY <1>0, <2>1 DEF Chained
<1>7. Chained(Q, t.lsn + 1, End(t))
  BY <1>3, <1>4 DEF Chained
<1> QED BY <1>5, <1>6, <1>7

(* A chain has a record for every LSN from its base to any LSN in it.       *)
LEMMA ChainDense ==
    ASSUME NEW R \in SUBSET Record, NEW b \in Int, NEW off, Chained(R, b, off),
           NEW r \in R, NEW n \in Int, b <= n, n <= r.lsn
    PROVE  \E s \in R : s.lsn = n
<1> DEFINE T == {s.lsn : s \in {q \in R : n <= q.lsn}}
<1>0. \A s \in R : s.lsn \in Nat
  BY EndType
<1>1. T \in SUBSET Nat /\ T # {}
  BY <1>0
<1>2. PICK m \in T : \A k \in T : m <= k
  <2> HIDE DEF T
  <2> QED BY <1>1, NatMin
<1>3. PICK s \in R : m = s.lsn /\ n <= s.lsn
  OBVIOUS
<1>4. \A q \in R : n <= q.lsn => s.lsn <= q.lsn
  BY <1>2, <1>3
<1>5. ASSUME s.lsn > n PROVE FALSE
  <2>1. s.lsn # b
    BY <1>0, <1>5
  <2>2. PICK q \in R : s.lsn = q.lsn + 1
    BY <2>1 DEF Chained
  <2> QED BY <1>0, <1>4, <1>5, <2>2
<1> QED BY <1>0, <1>3, <1>5

(* The end of a chain is determined.                                        *)
LEMMA EndUnique ==
    ASSUME NEW f \in File, NEW b \in Lsns, Chained(f.recs, b, HeaderSize),
           NEW l \in Int, NEW e \in Int, EndsAt(f.recs, b, HeaderSize, l, e)
    PROVE  RunLast(f, b) = l /\ RunEnd(f, b) = e
<1>0. f.recs \in SUBSET Record
  BY DEF File
<1>1. EndsAt(f.recs, b, HeaderSize, RunLast(f, b), RunEnd(f, b))
  BY ResumeAtEnd
<1>2. RunLast(f, b) \in Int /\ RunEnd(f, b) \in Int
  BY ResumeType, ConfigAssumption
<1>3. \A r \in f.recs : r.lsn \in Nat /\ End(r) \in Nat
  BY <1>0, EndType
<1> QED BY <1>1, <1>2, <1>3 DEF EndsAt

(* The files of a directory whose records are chains show all of them.      *)
LEMMA StoredChained ==
    ASSUME NEW S, NEW F, \A b \in S : Chained(F[b].recs, b, HeaderSize), NEW x
    PROVE  x \in Stored(S, F) <=>
               \E b \in S : /\ F[b].hdr = "ok"
                            /\ \E r \in F[b].recs : x = [lsn |-> r.lsn, pay |-> r.pay]
<1>1. \A b \in S : Run(F[b], b) = F[b].recs
  BY ChainedRun
<1> QED BY <1>1 DEF Stored, Contents

-----------------------------------------------------------------------------
(* What the steps do to the files.                                          *)

(* The names are LSNs, and what lies under them are files.                  *)
LEMMA NamesType ==
    ASSUME TypeOK
    PROVE  /\ Names \in SUBSET Lsns /\ Names \in SUBSET Nat
           /\ \A b \in Lsns : /\ cache[b] \in File /\ disk[b] \in File
                              /\ cache[b].recs \in SUBSET Record /\ disk[b].recs \in SUBSET Record
BY DEF TypeOK, Names, Lsns, File

(* Nothing happens to the files.                                            *)
LEMMA StoreSame ==
    ASSUME TypeOK, StoreOK, AckedIsDurable, UNCHANGED fsVars, acked' = acked,
           released' \in Nat, released <= released'
    PROVE  StoreOK' /\ AckedIsDurable'
<1>1. released \in Nat /\ acked \subseteq Ack /\ \A a \in Ack : a.lsn \in Nat
  BY DEF TypeOK, Ack, Lsns
<1>2. dir' = dir /\ ddir' = ddir /\ cache' = cache /\ disk' = disk /\ Names' = Names
  BY DEF fsVars, Names
<1>3. FilesOK' /\ SealedOK'
  BY <1>2 DEF StoreOK, FilesOK, FileOK, SealedOK, Sealed
<1>4. PendingOK'
  <2>1. \A b \in ddir : \A r \in cache[b].recs : r.lsn \in Nat
    BY NamesType, EndType DEF TypeOK
  <2> QED BY <1>1, <1>2, <2>1 DEF StoreOK, PendingOK
<1>5. AckedIsDurable'
  <2>1. Stored(dir' \cap ddir', disk') = Stored(dir \cap ddir, disk)
    BY <1>2
  <2>2. \A x \in acked : x.lsn > released' => x.lsn > released
    BY <1>1
  <2> QED BY <2>1, <2>2 DEF AckedIsDurable
<1> QED BY <1>3, <1>4, <1>5 DEF StoreOK

(* The successor of a segment in the directory is in it too.                *)
LEMMA SealedInDir ==
    ASSUME TypeOK, StoreOK, NEW b \in dir, NEW c \in dir, b < c
    PROVE  \E r \in cache[b].recs : r.lsn + 1 \in dir
<1>0. dir \subseteq Names /\ dir \subseteq Nat
  BY NamesType DEF Names
<1>1. Sealed(b) /\ \A r \in cache[b].recs : r.lsn < c
  BY <1>0 DEF StoreOK, SealedOK
<1>2. PICK r \in cache[b].recs : r.lsn + 1 \in Names
  BY <1>1 DEF Sealed
<1>3. b <= r.lsn /\ r.lsn < c /\ r.lsn \in Nat
  BY <1>0, <1>1, NamesType, EndType DEF StoreOK, FilesOK, FileOK, Chained
<1>4. SUFFICES ASSUME r.lsn + 1 \in ddir \ dir PROVE FALSE
  BY <1>2 DEF Names
<1>5. CASE \A d \in dir : r.lsn + 1 < d
  BY <1>5, <1>3, <1>0
<1>6. CASE \A d \in dir : d < r.lsn + 1
  BY <1>6, <1>3, <1>0
<1> QED BY <1>4, <1>5, <1>6 DEF StoreOK, PendingOK

(* A directory fsync.                                                       *)
LEMMA StoreSyncDir ==
    ASSUME TypeOK, StoreOK, AckedIsDurable, fsync_dir,
           UNCHANGED <<dir, cache, disk, acked, released>>
    PROVE  StoreOK' /\ AckedIsDurable'
<1>0. Names' = dir /\ ddir' = dir /\ dir \subseteq Names /\ dir \subseteq Nat
  BY NamesType DEF Names, fsync_dir
<1>1. FilesOK'
  BY <1>0 DEF StoreOK, FilesOK, FileOK
<1>2. ASSUME NEW b \in dir, NEW c \in dir, b < c
      PROVE  Sealed(b)' /\ \A r \in cache[b].recs : r.lsn < c
  <2>1. Sealed(b) /\ \A r \in cache[b].recs : r.lsn < c
    BY <1>0, <1>2 DEF StoreOK, SealedOK
  <2>2. \E r \in cache[b].recs : r.lsn + 1 \in dir
    BY <1>2, SealedInDir
  <2> QED BY <1>0, <2>1, <2>2 DEF Sealed
<1>3. SealedOK' /\ PendingOK'
  BY <1>0, <1>2 DEF SealedOK, PendingOK
<1>4. AckedIsDurable'
  <2>1. Stored(dir \cap ddir, disk) \subseteq Stored(dir, disk)
    BY DEF Stored, Contents
  <2> QED BY <1>0, <2>1 DEF AckedIsDurable
<1> QED BY <1>1, <1>3, <1>4 DEF StoreOK

(* Only the newest file a changes, and the device loses nothing of it.      *)
LEMMA StoreNewest ==
    ASSUME TypeOK, StoreOK, UNCHANGED <<dir, ddir, released>>, NEW a \in Lsns,
           \A c \in Names : c <= a,
           \A c \in Names \ {a} : cache'[c] = cache[c] /\ disk'[c] = disk[c],
           a \in Names => FileOK(a)',
           ~(a \in dir \cap ddir) => cache'[a].recs = {}
    PROVE  StoreOK'
<1>0. Names' = Names /\ Names \subseteq Nat /\ dir \subseteq Names /\ ddir \subseteq Names
  BY NamesType DEF Names
<1>1. FilesOK'
  BY <1>0 DEF StoreOK, FilesOK, FileOK
<1>2. SealedOK'
  <2>1. \A b, c \in Names : b < c => b # a
    BY <1>0
  <2> QED BY <1>0, <2>1 DEF StoreOK, SealedOK, Sealed
<1>3. PendingOK'
  BY <1>0 DEF StoreOK, PendingOK
<1> QED BY <1>1, <1>2, <1>3 DEF StoreOK

(* A file the device has more of than before still shows what was acked.    *)
LEMMA StoredKept ==
    ASSUME TypeOK, StoreOK, AckedIsDurable, StoreOK',
           released' \in Nat, released <= released',
           \A b \in dir \cap ddir :
               \A r \in disk[b].recs : r.lsn > released' /\ disk[b].hdr = "ok" =>
                       b \in dir' \cap ddir' /\ r \in disk'[b].recs /\ disk'[b].hdr = "ok",
           NEW x \in acked, x.lsn > released'
    PROVE  x \in Stored(dir' \cap ddir', disk')
<1>1. released \in Nat /\ acked \subseteq Ack /\ \A y \in Ack : y.lsn \in Nat
  BY DEF TypeOK, Ack, Lsns
<1>2. \A b \in dir \cap ddir : Chained(disk[b].recs, b, HeaderSize)
  BY DEF StoreOK, FilesOK, FileOK, Names
<1>3. \A b \in dir' \cap ddir' : Chained(disk'[b].recs, b, HeaderSize)
  BY DEF StoreOK, FilesOK, FileOK, Names
<1>4. x \in Stored(dir \cap ddir, disk)
  <2>1. x.lsn > released
    BY <1>1
  <2> QED BY <2>1 DEF AckedIsDurable
<1>5. PICK b \in dir \cap ddir : /\ disk[b].hdr = "ok"
                                 /\ \E r \in disk[b].recs : x = [lsn |-> r.lsn, pay |-> r.pay]
  BY <1>2, <1>4, StoredChained
<1>6. PICK r \in disk[b].recs : x = [lsn |-> r.lsn, pay |-> r.pay]
  BY <1>5
<1>7. b \in dir' \cap ddir' /\ r \in disk'[b].recs /\ disk'[b].hdr = "ok"
  BY <1>5, <1>6
<1> QED BY <1>3, <1>6, <1>7, StoredChained

(* The same, when nothing new is acknowledged.                              *)
LEMMA AckedKept ==
    ASSUME TypeOK, StoreOK, AckedIsDurable, StoreOK',
           released' \in Nat, released <= released', acked' = acked,
           \A b \in dir \cap ddir :
               \A r \in disk[b].recs : r.lsn > released' /\ disk[b].hdr = "ok" =>
                       b \in dir' \cap ddir' /\ r \in disk'[b].recs /\ disk'[b].hdr = "ok"
    PROVE  AckedIsDurable'
BY StoredKept DEF AckedIsDurable

-----------------------------------------------------------------------------
(* Steps that leave the files alone.                                        *)

(* The log starts with an empty directory.                                  *)
LEMMA InvInit == Init => Inv
<1> SUFFICES ASSUME Init PROVE Inv
  OBVIOUS
<1>1. dir = {} /\ ddir = {} /\ Names = {} /\ acked = {} /\ err = "none"
  BY DEF Init, Names
<1>2. StoreOK /\ AckedIsDurable /\ NoError
  BY <1>1 DEF StoreOK, FilesOK, SealedOK, PendingOK, AckedIsDurable, NoError
<1>3. ~Live /\ ~IsOpen /\ pc = "closed" /\ ~poisoned
  BY DEF Init, Live, IsOpen
<1>4. HandleOK
  BY <1>3 DEF HandleOK, CreateOK, OpenOK, DirectoryOK, TailOK, StagingOK, CreateSteps
<1> QED BY <1>2, <1>4 DEF Inv

(* Without a handle there is nothing to keep in step with the files.        *)
LEMMA GoneOK ==
    ASSUME NoHandle, pc' = "closed"
    PROVE  HandleOK'
<1>1. ~Live' /\ ~IsOpen' /\ ~poisoned'
  BY DEF NoHandle, Live, IsOpen
<1> QED BY <1>1 DEF HandleOK, CreateOK, OpenOK, DirectoryOK, TailOK, StagingOK, CreateSteps

(* A poisoned handle is not used any more.                                  *)
LEMMA PoisonedOK ==
    ASSUME IsOpen, Poison
    PROVE  HandleOK'
<1>1. ~Live' /\ IsOpen' /\ pc' = "idle"
  BY DEF Poison, Live, IsOpen, segVars
<1> QED BY <1>1 DEF HandleOK, CreateOK, OpenOK, DirectoryOK, TailOK, StagingOK, CreateSteps

(* The process dies, or a call fails, and the files stay as they are.       *)
LEMMA FaultsSafe ==
    ASSUME TypeInv, Inv,
           \/ OpenFault \/ Kill \/ CreateFault \/ CommitSyncFault \/ CheckpointFault
    PROVE  Inv'
<1>0. TypeOK /\ released \in Nat
  BY DEF TypeInv, TypeOK
<1>1. UNCHANGED fsVars /\ UNCHANGED <<acked, released, err>>
  BY DEF OpenFault, Kill, CreateFault, CommitSyncFault, CheckpointFault, Poison, ghostVars
<1>2. StoreOK' /\ AckedIsDurable'
  BY <1>0, <1>1, StoreSame DEF Inv
<1>3. HandleOK'
  <2>1. CASE OpenFault \/ Kill
    BY <2>1, GoneOK DEF OpenFault, Kill
  <2>2. CASE CreateFault
    BY <2>2, GoneOK, PoisonedOK DEF CreateFault
  <2>3. CASE CommitSyncFault \/ CheckpointFault
    <3>1. IsOpen
      BY <2>3 DEF CommitSyncFault, CheckpointFault, Inv, HandleOK, OpenOK
    <3> QED BY <2>3, <3>1, PoisonedOK DEF CommitSyncFault, CheckpointFault
  <2> QED BY <2>1, <2>2, <2>3
<1> QED BY <1>1, <1>2, <1>3 DEF Inv, NoError

(* open looks at the directory.                                             *)
LEMMA OpenStartSafe ==
    ASSUME TypeInv, Inv, Settling, NEW seed \in Seeds, OpenStart(seed)
    PROVE  Inv'
<1>0. TypeOK /\ released \in Nat /\ Settled /\ ~IsOpen /\ pc = "closed" /\ ~poisoned
  BY DEF TypeInv, TypeOK, OpenStart, Settling, Inv, HandleOK, OpenOK
<1>1. /\ UNCHANGED fsVars /\ UNCHANGED <<acked, released, segments, poisoned>>
      /\ pc' = "discover" /\ err' = "none"
  BY DEF OpenStart, ghostVars, segVars
<1>2. StoreOK' /\ AckedIsDurable'
  BY <1>0, <1>1, StoreSame DEF Inv
<1>3. ~IsOpen' /\ ~Live' /\ Settled' /\ ~poisoned'
  BY <1>0, <1>1 DEF IsOpen, Live, Settled, fsVars
<1>4. HandleOK'
  BY <1>1, <1>3 DEF HandleOK, CreateOK, OpenOK, DirectoryOK, TailOK, StagingOK, CreateSteps
<1> QED BY <1>1, <1>2, <1>4 DEF Inv, NoError

(* An empty directory has nothing pending.                                  *)
LEMMA DiscoverEmptySafe ==
    ASSUME TypeInv, Inv, DiscoverEmpty
    PROVE  Inv'
<1>0. TypeOK /\ released \in Nat /\ Settled /\ ~IsOpen /\ ~poisoned /\ ddir = {} /\ dir = {}
  BY DEF TypeInv, TypeOK, DiscoverEmpty, Inv, HandleOK, OpenOK, Settled
<1>1. /\ UNCHANGED fsVars /\ UNCHANGED <<acked, released, segments, poisoned, err>>
      /\ pc' = "create"
  BY DEF DiscoverEmpty, ghostVars, segVars
<1>2. StoreOK' /\ AckedIsDurable'
  BY <1>0, <1>1, StoreSame DEF Inv
<1>3. ~IsOpen' /\ ~Live' /\ ~poisoned' /\ dir' = {} /\ ddir' = {}
  BY <1>0, <1>1 DEF IsOpen, Live, fsVars
<1>4. HandleOK'
  BY <1>1, <1>3 DEF HandleOK, CreateOK, OpenOK, DirectoryOK, TailOK, StagingOK, CreateSteps
<1> QED BY <1>1, <1>2, <1>4 DEF Inv, NoError

(* Every file but the newest has its header.                                *)
LEMMA KeepHighestSafe ==
    ASSUME TypeInv, Inv, KeepHighest
    PROVE  Inv'
<1>0. TypeOK /\ released \in Nat /\ Settled /\ ~IsOpen /\ ~poisoned /\ dir \subseteq Names
      /\ Names \in SUBSET Nat
  BY NamesType DEF TypeInv, TypeOK, KeepHighest, Inv, HandleOK, OpenOK, Names
<1>1. /\ UNCHANGED fsVars /\ UNCHANGED <<acked, released, segments, poisoned, err>>
      /\ pc' = "recover"
  BY DEF KeepHighest, ghostVars, segVars
<1>2. StoreOK' /\ AckedIsDurable'
  BY <1>0, <1>1, StoreSame DEF Inv
<1>3. ~IsOpen' /\ ~Live' /\ ~poisoned' /\ Settled'
  BY <1>0, <1>1 DEF IsOpen, Live, fsVars, Settled
<1>4. ASSUME NEW b \in dir PROVE cache[b].hdr = "ok"
  <2>1. PICK a \in dir : Highest(a, dir) /\ cache[a].hdr = "ok"
    BY DEF KeepHighest
  <2>2. a \in Nat /\ b \in Nat /\ b <= a
    BY <1>0, <2>1 DEF Highest
  <2>3. b = a \/ b < a
    BY <2>2
  <2> QED BY <1>0, <2>1, <2>3 DEF Inv, StoreOK, SealedOK, Sealed
<1>5. \A b \in dir' : cache'[b].hdr = "ok"
  BY <1>1, <1>4 DEF fsVars
<1>6. HandleOK'
  BY <1>1, <1>3, <1>5 DEF HandleOK, CreateOK, OpenOK, DirectoryOK, TailOK, StagingOK, CreateSteps
<1> QED BY <1>1, <1>2, <1>6 DEF Inv, NoError

(* A file with a record has its header.                                     *)
LEMMA RejectHighestNever ==
    ASSUME TypeInv, Inv, RejectHighest
    PROVE  FALSE
<1>1. PICK a \in dir : cache[a].hdr # "ok" /\ FirstRecord(cache[a])
  BY DEF RejectHighest
<1>2. FileOK(a)
  BY DEF Inv, StoreOK, FilesOK, Names
<1> QED BY <1>1, <1>2 DEF FileOK, FirstRecord

-----------------------------------------------------------------------------
(* Recovery.                                                                *)

(* What recover_segment sees of a chain.                                    *)
LEMMA ChainScan ==
    ASSUME NEW f \in File, NEW b \in Lsns, Chained(f.recs, b, HeaderSize)
    PROVE  /\ Run(f, b) = f.recs
           /\ Invalid(f, b) <=> f.torn
           /\ ~ForwardScanFindsValid(f, b)
           /\ \A r \in f.recs : r.lsn <= RunLast(f, b)
           /\ f.recs # {} => \E r \in f.recs : r.lsn = RunLast(f, b)
           /\ f.recs = {} => RunLast(f, b) = b - 1
<1>1. Run(f, b) = f.recs /\ f.recs \in SUBSET Record
  BY ChainedRun DEF File
<1>2. EndsAt(f.recs, b, HeaderSize, RunLast(f, b), RunEnd(f, b))
  BY ResumeAtEnd
<1>3. RunLast(f, b) \in Int /\ RunEnd(f, b) \in Int
  BY ResumeType
<1>4. Invalid(f, b) <=> f.torn
  BY <1>1 DEF Invalid
<1>5. ~ForwardScanFindsValid(f, b)
  <2>1. \A r \in f.recs : End(r) <= RunEnd(f, b) /\ r.start < End(r) /\ r.start \in Nat /\ End(r) \in Nat
    BY <1>1, <1>2, EndType DEF EndsAt
  <2> QED BY <2>1, <1>3 DEF ForwardScanFindsValid
<1>6. /\ \A r \in f.recs : r.lsn <= RunLast(f, b)
      /\ f.recs # {} => \E r \in f.recs : r.lsn = RunLast(f, b)
      /\ f.recs = {} => RunLast(f, b) = b - 1
  BY <1>2 DEF EndsAt
<1> QED BY <1>1, <1>4, <1>5, <1>6

(* A sealed segment ends right before the next one.                         *)
LEMMA SealedEnd ==
    ASSUME TypeOK, StoreOK, dir = ddir, NEW p \in dir, NEW b \in dir, Next_(p, b, dir)
    PROVE  RunLast(cache[p], p) + 1 = b
<1>0. Names = dir /\ p \in Lsns /\ b \in Lsns /\ p \in Nat /\ b \in Nat /\ p < b
      /\ cache[p] \in File
  BY NamesType DEF Names, TypeOK, Lsns, Next_
<1>1. Sealed(p) /\ \A r \in cache[p].recs : r.lsn < b
  BY <1>0 DEF StoreOK, SealedOK
<1>2. Chained(cache[p].recs, p, HeaderSize)
  BY <1>0 DEF StoreOK, FilesOK, FileOK
<1>3. \A r \in cache[p].recs : r.lsn \in Nat /\ p <= r.lsn
  BY <1>0, <1>2, NamesType, EndType DEF Chained
<1>4. PICK r \in cache[p].recs : r.lsn + 1 \in dir
  BY <1>0, <1>1 DEF Sealed
<1>5. b <= r.lsn + 1
  BY <1>0, <1>3, <1>4 DEF Next_
<1>6. PICK t \in cache[p].recs : t.lsn = RunLast(cache[p], p)
  BY <1>0, <1>2, <1>4, ChainScan
<1>7. r.lsn <= RunLast(cache[p], p)
  BY <1>0, <1>2, ChainScan
<1> QED BY <1>0, <1>1, <1>3, <1>5, <1>6, <1>7

(* Recovery accepts every segment: the crash left nothing that looks like   *)
(* corruption.                                                              *)
LEMMA NoSegmentError ==
    ASSUME TypeInv, Inv, pc = "recover", NEW a \in dir, Highest(a, dir), NEW b \in dir
    PROVE  SegmentError(b, a) = "none"
<1>0. /\ TypeOK /\ StoreOK /\ dir = ddir /\ Names = dir /\ cache[b] \in File /\ b \in Lsns
      /\ a \in Nat /\ b \in Nat /\ b <= a /\ MaxLsn \in Nat /\ b <= MaxLsn
  <2>1. TypeOK /\ StoreOK /\ dir = ddir
    BY DEF TypeInv, Inv, HandleOK, OpenOK, Settled
  <2>2. dir \subseteq Lsns /\ cache[b] \in File
    BY <2>1 DEF TypeOK
  <2> QED BY <2>1, <2>2, ConfigAssumption DEF Names, Highest, Lsns
<1>1. cache[b].hdr = "ok"
  BY DEF Inv, HandleOK, OpenOK
<1>2. \A p \in dir : Next_(p, b, dir) => RunLast(cache[p], p) + 1 = b
  BY <1>0, SealedEnd
<1>3. Chained(cache[b].recs, b, HeaderSize)
  BY <1>0 DEF StoreOK, FilesOK, FileOK
<1>4. /\ Run(cache[b], b) = cache[b].recs
      /\ Invalid(cache[b], b) <=> cache[b].torn
      /\ ~ForwardScanFindsValid(cache[b], b)
  BY <1>0, <1>3, ChainScan
<1>5. b # a => ~cache[b].torn /\ cache[b].recs # {}
  <2>1. SUFFICES ASSUME b < a PROVE ~cache[b].torn /\ cache[b].recs # {}
    BY <1>0
  <2> QED BY <1>0, <2>1 DEF StoreOK, SealedOK, Sealed
<1>6. cache[b].torn => RunLast(cache[b], b) # MaxLsn
  <2>1. SUFFICES ASSUME cache[b].torn PROVE RunLast(cache[b], b) # MaxLsn
    OBVIOUS
  <2>2. \A r \in cache[b].recs : r.lsn < MaxLsn /\ r.lsn \in Nat
    BY <1>0, <2>1, NamesType, EndType DEF StoreOK, FilesOK, FileOK
  <2>3. CASE cache[b].recs = {}
    <3>1. RunLast(cache[b], b) = b - 1
      BY <1>0, <1>3, <2>3, ChainScan
    <3> QED BY <1>0, <3>1
  <2>4. CASE cache[b].recs # {}
    <3>1. PICK r \in cache[b].recs : r.lsn = RunLast(cache[b], b)
      BY <1>0, <1>3, <2>4, ChainScan
    <3> QED BY <1>0, <2>2, <3>1
  <2> QED BY <2>3, <2>4
<1> QED BY <1>1, <1>2, <1>4, <1>5, <1>6 DEF SegmentError

(* So recover_all returns no error.                                         *)
LEMMA RecoverFatalNever ==
    ASSUME TypeInv, Inv, RecoverFatal
    PROVE  FALSE
<1>1. PICK a \in dir, b \in dir : Highest(a, dir) /\ SegmentError(b, a) # "none"
  BY DEF RecoverFatal
<1>2. pc = "recover"
  BY DEF RecoverFatal
<1> QED BY <1>1, <1>2, NoSegmentError

(* A handle fresh from open agrees with the files it was built from.        *)
LEMMA HandleFresh ==
    ASSUME NEW a, NEW off, NEW last, NEW o, Handle(a, off, last, o),
           Highest(a, dir), Lowest(o, dir), dir' = dir, ddir' = dir,
           disk'[a] = cache'[a], disk'[a].hdr = "ok", ~disk'[a].torn,
           RunLast(disk'[a], a) = last, RunEnd(disk'[a], a) = off
    PROVE  HandleOK'
<1>1. /\ pc' = "idle" /\ segments' = dir /\ active' = a /\ write_offset' = off
      /\ oldest_lsn' = o /\ last_lsn' = last /\ durable_lsn' = last
      /\ staging' = {} /\ staging_len' = 0 /\ pos' = 0 /\ ~poisoned'
  BY DEF Handle
<1>2. IsOpen' /\ Live'
  BY <1>1 DEF IsOpen, Live, Highest
<1>3. CreateOK' /\ OpenOK'
  BY <1>1, <1>2 DEF CreateOK, OpenOK, CreateSteps
<1>4. DirectoryOK'
  BY <1>1 DEF DirectoryOK, CreateSteps, Highest, Lowest
<1>5. TailOK'
  BY <1>1 DEF TailOK, CreateSteps
<1>6. StagingOK'
  BY <1>1 DEF StagingOK, Chained
<1> QED BY <1>3, <1>4, <1>5, <1>6 DEF HandleOK

(* A clean tail: the handle is built from what is on the device.            *)
LEMMA RecoverCleanSafe ==
    ASSUME TypeInv, Inv, RecoverClean
    PROVE  Inv'
<1>0. TypeOK /\ released \in Nat /\ Settled /\ dir \subseteq Names /\ dir \subseteq Lsns
  BY DEF TypeInv, TypeOK, RecoverClean, Inv, HandleOK, OpenOK, Names
<1>1. UNCHANGED fsVars /\ UNCHANGED <<acked, released, err>>
  BY DEF RecoverClean, ghostVars
<1>2. StoreOK' /\ AckedIsDurable'
  BY <1>0, <1>1, StoreSame DEF Inv
<1>3. PICK a \in dir, o \in dir :
        /\ Highest(a, dir) /\ Lowest(o, dir) /\ ~Invalid(cache[a], a)
        /\ Handle(a, RunEnd(cache[a], a), RunLast(cache[a], a), o)
  BY DEF RecoverClean
<1>4. dir' = dir /\ ddir' = dir /\ cache' = cache /\ disk' = cache
  BY <1>0, <1>1 DEF fsVars, Settled
<1>5. cache[a].hdr = "ok" /\ ~cache[a].torn
  BY <1>3 DEF Inv, HandleOK, OpenOK, RecoverClean, Invalid
<1>6. HandleOK'
  BY <1>3, <1>4, <1>5, HandleFresh
<1> QED BY <1>1, <1>2, <1>6 DEF Inv, NoError

(* Zeroing a torn tail takes no record away.                                *)
LEMMA RecoverTornSafe ==
    ASSUME TypeInv, Inv, RecoverTorn
    PROVE  Inv'
<1>0. /\ TypeOK /\ released \in Nat /\ Settled /\ dir \subseteq Names /\ dir \subseteq Lsns
      /\ Names = dir /\ StoreOK /\ ~IsOpen /\ ~poisoned /\ disk = cache /\ ddir = dir
      /\ Lsns \subseteq Nat
  BY DEF TypeInv, TypeOK, RecoverTorn, Inv, HandleOK, OpenOK, Names, Settled, Lsns
<1>1. /\ UNCHANGED <<dir, ddir, disk, acked, released, err, segments, poisoned>>
      /\ pc' = "zero" /\ pc = "recover"
  BY DEF RecoverTorn, ghostVars, segVars
<1>2. PICK a \in dir :
        /\ Highest(a, dir)
        /\ cache' = [cache EXCEPT ![a].recs = Run(cache[a], a), ![a].torn = FALSE]
  BY DEF RecoverTorn
<1>3. FileOK(a) /\ cache[a] \in File /\ a \in Lsns
  BY <1>0 DEF StoreOK, FilesOK, TypeOK
<1>4. Run(cache[a], a) = cache[a].recs
  BY <1>3, ChainedRun DEF FileOK
<1>5. /\ cache'[a].recs = cache[a].recs /\ cache'[a].hdr = cache[a].hdr /\ ~cache'[a].torn
      /\ \A c \in Names \ {a} : cache'[c] = cache[c]
  <2>1. cache \in [Lsns -> File] /\ cache'[a] = [cache[a] EXCEPT !.recs = Run(cache[a], a), !.torn = FALSE]
    BY <1>0, <1>2, <1>3 DEF TypeOK
  <2>2. \A c \in Names \ {a} : cache'[c] = cache[c]
    BY <1>0, <1>2, <2>1
  <2> QED BY <1>3, <1>4, <2>1, <2>2 DEF File
<1>6. FileOK(a)'
  <2>1. /\ disk'[a].recs = cache[a].recs /\ disk'[a].hdr = cache[a].hdr
        /\ (disk'[a].torn \/ cache'[a].torn) => cache[a].torn
    BY <1>0, <1>1, <1>5
  <2> QED BY <1>1, <1>3, <1>5, <2>1 DEF FileOK
<1>7. StoreOK'
  BY <1>0, <1>1, <1>2, <1>3, <1>5, <1>6, StoreNewest DEF Highest
<1>8. AckedIsDurable'
  BY <1>0, <1>1, <1>7, AckedKept DEF Inv
<1>9. \A b \in dir : cache[b].hdr = "ok"
  BY <1>1 DEF Inv, HandleOK, OpenOK
<1>10. ASSUME NEW b \in dir
       PROVE  ~cache'[b].torn /\ disk'[b].recs = cache'[b].recs /\ disk'[b].hdr = "ok"
              /\ cache'[b].hdr = "ok"
  <2>1. CASE b = a
    BY <1>0, <1>1, <1>5, <1>9, <2>1
  <2>2. CASE b # a
    <3>1. b < a
      BY <1>0, <1>2, <2>2 DEF Highest
    <3>2. ~cache[b].torn
      BY <1>0, <1>2, <3>1 DEF StoreOK, SealedOK, Sealed
    <3> QED BY <1>0, <1>1, <1>5, <1>9, <2>2, <3>2
  <2> QED BY <2>1, <2>2
<1>11. ~IsOpen' /\ ~Live' /\ ~poisoned' /\ dir' = dir /\ ddir' = dir
  BY <1>0, <1>1 DEF IsOpen, Live
<1>12. HandleOK'
  BY <1>1, <1>10, <1>11 DEF HandleOK, CreateOK, OpenOK, DirectoryOK, TailOK, StagingOK, CreateSteps
<1> QED BY <1>1, <1>7, <1>8, <1>12 DEF Inv, NoError

(* Syncing the zeros leaves the device with the same records.               *)
LEMMA ZeroSyncSafe ==
    ASSUME TypeInv, Inv, ZeroSync
    PROVE  Inv'
<1>0. /\ TypeOK /\ released \in Nat /\ dir \subseteq Lsns
      /\ Names = dir /\ StoreOK /\ ddir = dir /\ Lsns \subseteq Nat
  BY DEF TypeInv, TypeOK, ZeroSync, Inv, HandleOK, OpenOK, Names, Lsns
<1>1. /\ UNCHANGED <<dir, ddir, cache, acked, released, err>> /\ pc = "zero"
  BY DEF ZeroSync, ghostVars
<1>2. PICK a \in dir, o \in dir :
        /\ Highest(a, dir) /\ Lowest(o, dir)
        /\ disk' = [disk EXCEPT ![a] = cache[a]]
        /\ Handle(a, RunEnd(cache[a], a), RunLast(cache[a], a), o)
  BY DEF ZeroSync, sync_data_fully
<1>3. FileOK(a) /\ cache[a] \in File /\ a \in Lsns
  BY <1>0 DEF StoreOK, FilesOK, TypeOK
<1>4. disk'[a] = cache[a] /\ \A c \in Names \ {a} : disk'[c] = disk[c]
  BY <1>0, <1>2, <1>3 DEF TypeOK
<1>5. /\ \A b \in dir : disk[b].recs = cache[b].recs
      /\ cache[a].hdr = "ok" /\ ~cache[a].torn
  BY <1>1 DEF Inv, HandleOK, OpenOK
<1>6. FileOK(a)'
  BY <1>1, <1>3, <1>4 DEF FileOK
<1>7. StoreOK'
  BY <1>0, <1>1, <1>2, <1>3, <1>4, <1>6, StoreNewest DEF Highest
<1>8. AckedIsDurable'
  <2>1. \A b \in dir \cap ddir : disk'[b].recs = disk[b].recs /\ (disk[b].hdr = "ok" => disk'[b].hdr = "ok")
    BY <1>0, <1>4, <1>5
  <2> QED BY <1>0, <1>1, <1>7, <2>1, AckedKept DEF Inv
<1>9. HandleOK'
  BY <1>0, <1>1, <1>2, <1>4, <1>5, HandleFresh
<1> QED BY <1>1, <1>7, <1>8, <1>9 DEF Inv, NoError

(* Only an empty file is discarded.                                         *)
LEMMA DiscardHighestSafe ==
    ASSUME TypeInv, Inv, DiscardHighest
    PROVE  Inv'
<1>0. /\ TypeOK /\ released \in Nat /\ dir \subseteq Lsns
      /\ Names = dir /\ StoreOK /\ ~IsOpen /\ ~poisoned /\ disk = cache /\ ddir = dir
      /\ Lsns \subseteq Nat
  BY DEF TypeInv, TypeOK, DiscardHighest, Inv, HandleOK, OpenOK, Names, Settled, Lsns
<1>1. /\ UNCHANGED <<ddir, cache, disk, acked, released, err, segments, poisoned>>
      /\ pc' = "discard" /\ pc = "discover"
  BY DEF DiscardHighest, ghostVars, segVars
<1>2. PICK a \in dir : Highest(a, dir) /\ cache[a].hdr # "ok" /\ dir' = dir \ {a}
  BY DEF DiscardHighest
<1>3. cache[a].recs = {}
  BY <1>0, <1>2 DEF StoreOK, FilesOK, FileOK
<1>4. Names' = Names
  BY <1>0, <1>1, <1>2 DEF Names
<1>5. \A b \in dir' : b < a
  <2>1. dir \subseteq Nat
    BY <1>0
  <2> QED BY <1>2, <2>1 DEF Highest
<1>6. FilesOK' /\ SealedOK'
  BY <1>0, <1>1, <1>4 DEF StoreOK, FilesOK, FileOK, SealedOK, Sealed
<1>7. PendingOK'
  <2>1. ddir' \ dir' = {a} /\ dir' \ ddir' = {}
    BY <1>0, <1>1, <1>2
  <2> QED BY <1>1, <1>3, <1>5, <2>1 DEF PendingOK
<1>8. StoreOK'
  BY <1>6, <1>7 DEF StoreOK
<1>9. AckedIsDurable'
  <2>1. ASSUME NEW b \in dir \cap ddir, NEW r \in disk[b].recs
        PROVE  b \in dir' \cap ddir' /\ r \in disk'[b].recs /\ disk'[b].hdr = disk[b].hdr
    BY <1>0, <1>1, <1>2, <1>3
  <2> QED BY <1>0, <1>1, <1>8, <2>1, AckedKept DEF Inv
<1>10. \A b \in dir' : cache'[b].hdr = "ok"
  <2>1. \A b \in dir : b < a => cache[b].hdr = "ok"
    BY <1>0, <1>2 DEF StoreOK, SealedOK, Sealed
  <2> QED BY <1>1, <1>2, <1>5, <2>1
<1>11. ~IsOpen' /\ ~Live' /\ ~poisoned' /\ disk' = cache'
  BY <1>0, <1>1 DEF IsOpen, Live
<1>12. HandleOK'
  BY <1>1, <1>10, <1>11 DEF HandleOK, CreateOK, OpenOK, DirectoryOK, TailOK, StagingOK, CreateSteps
<1> QED BY <1>1, <1>8, <1>9, <1>12 DEF Inv, NoError

(* The directory without the discarded file is made durable.                *)
LEMMA DiscardSyncSafe ==
    ASSUME TypeInv, Inv, DiscardSync
    PROVE  Inv'
<1>0. /\ TypeOK /\ StoreOK /\ ~IsOpen /\ ~poisoned /\ disk = cache
      /\ \A b \in dir : cache[b].hdr = "ok"
  BY DEF TypeInv, DiscardSync, Inv, HandleOK, OpenOK
<1>1. /\ UNCHANGED <<dir, cache, disk, acked, released, err, segments, poisoned>> /\ fsync_dir
      /\ pc' = IF dir = {} THEN "create" ELSE "recover"
  BY DEF DiscardSync, ghostVars, segVars
<1>2. StoreOK' /\ AckedIsDurable'
  BY <1>0, <1>1, StoreSyncDir DEF Inv
<1>3. /\ ~IsOpen' /\ ~Live' /\ ~poisoned' /\ Settled' /\ dir' = dir /\ ddir' = dir
      /\ \A b \in dir' : cache'[b].hdr = "ok"
  BY <1>0, <1>1 DEF IsOpen, Live, Settled, fsync_dir
<1>4. CASE dir = {}
  <2>1. pc' = "create"
    BY <1>1, <1>4
  <2> QED BY <1>1, <1>2, <1>3, <1>4, <2>1
      DEF HandleOK, CreateOK, OpenOK, DirectoryOK, TailOK, StagingOK, CreateSteps, Inv, NoError
<1>5. CASE dir # {}
  <2>1. pc' = "recover"
    BY <1>1, <1>5
  <2> QED BY <1>1, <1>2, <1>3, <2>1
      DEF HandleOK, CreateOK, OpenOK, DirectoryOK, TailOK, StagingOK, CreateSteps, Inv, NoError
<1> QED BY <1>4, <1>5

-----------------------------------------------------------------------------
(* Creating a segment.                                                      *)

(* roll creates its segment above every other, right behind the last record *)
(* of the active one, which is on the device.                               *)
LEMMA TargetTop ==
    ASSUME TypeInv, Inv, IsOpen, pc \in CreateSteps
    PROVE  /\ Live /\ \A b \in segments : b < target
           /\ active \in segments /\ \A b \in segments : b <= active
           /\ target = durable_lsn + 1 /\ ddir = segments
           /\ \E r \in cache[active].recs : r.lsn = durable_lsn
           /\ \A r \in cache[active].recs : r.lsn <= durable_lsn
           /\ disk[active] = cache[active] /\ cache[active].hdr = "ok" /\ ~cache[active].torn
           /\ active <= durable_lsn /\ durable_lsn \in Nat /\ segments \subseteq Nat
<1>1. TypeOK /\ segments \subseteq Lsns /\ segments \subseteq Nat /\ durable_lsn \in Nat
  BY DEF TypeInv, TypeOK, Lsns
<1>2. Live
  BY DEF Live, Inv, HandleOK, OpenOK, CreateSteps
<1>3. /\ Highest(active, segments) /\ ddir = segments
  BY <1>2 DEF Inv, HandleOK, DirectoryOK
<1>4. /\ disk[active].hdr = "ok" /\ ~disk[active].torn
      /\ RunLast(disk[active], active) = durable_lsn
      /\ cache[active] = disk[active]
      /\ target = durable_lsn + 1 /\ disk[active].recs # {}
  BY <1>2 DEF Inv, HandleOK, TailOK, CreateSteps
<1>5. active \in Names /\ active \in Lsns /\ disk[active] \in File /\ active \in Nat
  BY <1>1, <1>3 DEF Highest, Names, TypeOK
<1>6. Chained(disk[active].recs, active, HeaderSize)
  BY <1>5 DEF Inv, StoreOK, FilesOK, FileOK
<1>7. /\ \A r \in disk[active].recs : r.lsn <= durable_lsn
      /\ \E r \in disk[active].recs : r.lsn = durable_lsn
  BY <1>4, <1>5, <1>6, ChainScan
<1>8. active <= durable_lsn
  BY <1>6, <1>7 DEF Chained
<1>9. \A b \in segments : b < target
  BY <1>1, <1>3, <1>4, <1>5, <1>8 DEF Highest
<1> QED BY <1>1, <1>2, <1>3, <1>4, <1>7, <1>8, <1>9 DEF Highest

(* The staging buffer while commit goes from one step to the next.          *)
LEMMA StagingSame ==
    ASSUME StagingOK, UNCHANGED <<segments, poisoned, lsnVars, staging, staging_len, pos>>,
           pc' \notin {"idle", "unlink", "sync"}
    PROVE  StagingOK'
<1>1. Live' = Live
  BY DEF Live, IsOpen
<1> QED BY <1>1 DEF StagingOK, lsnVars

(* A new file is the newest, and its predecessor is sealed by then.         *)
LEMMA CreateNewSafe ==
    ASSUME TypeInv, Inv, CreateNew
    PROVE  Inv'
<1>0. /\ TypeOK /\ released \in Nat /\ dir \subseteq Lsns /\ ddir \subseteq Lsns
      /\ StoreOK /\ Lsns \subseteq Nat /\ target \in Lsns
  BY DEF TypeInv, TypeOK, CreateNew, Inv, CreateSteps, Lsns
<1>1. /\ UNCHANGED <<ddir, target, acked, released, err, poisoned, segVars, lsnVars,
                     staging, staging_len, pos>>
      /\ pc = "create" /\ pc' = "allocate"
      /\ target \notin dir /\ dir' = dir \cup {target}
      /\ pc \in CreateSteps /\ ~poisoned
  BY DEF CreateNew, ghostVars, bufVars, CreateSteps, Inv, HandleOK, OpenOK
<1>2. /\ cache'[target] = NewFile /\ disk'[target] = NewFile
      /\ \A b \in dir : cache'[b] = cache[b] /\ disk'[b] = disk[b]
  BY <1>0, <1>1 DEF CreateNew, TypeOK
<1>3. ddir = dir /\ (IsOpen => dir = segments) /\ (~IsOpen => dir = {})
  <2>1. CASE IsOpen
    BY <1>1, <2>1 DEF Live, Inv, HandleOK, DirectoryOK
  <2>2. CASE ~IsOpen
    BY <1>1, <2>2 DEF Inv, HandleOK, CreateOK
  <2> QED BY <2>1, <2>2
<1>4. /\ Names = dir /\ Names' = dir \cup {target} /\ \A b \in dir : b < target
  BY <1>1, <1>3, TargetTop DEF Names
<1>5. ASSUME NEW b \in Names' PROVE FileOK(b)'
  <2>1. CASE b = target
    BY <1>2, <2>1 DEF FileOK, Chained, NewFile
  <2>2. CASE b \in dir
    <3>1. FileOK(b)
      BY <1>0, <1>4, <2>2 DEF StoreOK, FilesOK
    <3> QED BY <1>1, <1>2, <2>2, <3>1 DEF FileOK
  <2> QED BY <1>4, <2>1, <2>2
<1>6. ASSUME NEW b \in Names', NEW c \in Names', b < c
      PROVE  Sealed(b)' /\ \A r \in cache'[b].recs : r.lsn < c
  <2>0. b \in dir /\ b \in Nat
    BY <1>0, <1>4, <1>6
  <2>1. CASE c \in dir
    <3>1. Sealed(b) /\ \A r \in cache[b].recs : r.lsn < c
      BY <1>0, <1>4, <1>6, <2>0, <2>1 DEF StoreOK, SealedOK
    <3> QED BY <1>2, <1>4, <2>0, <3>1 DEF Sealed
  <2>2. CASE c = target
    <3>0. IsOpen /\ dir = segments
      BY <1>3, <2>0
    <3>1. CASE b = active
      <4>1. /\ \E r \in cache[active].recs : r.lsn = durable_lsn
            /\ \A r \in cache[active].recs : r.lsn <= durable_lsn /\ r.lsn \in Nat
            /\ disk[active] = cache[active] /\ cache[active].hdr = "ok" /\ ~cache[active].torn
            /\ durable_lsn \in Nat /\ target = durable_lsn + 1
        <5>1. active \in Lsns
          BY <1>0, <2>0, <3>1
        <5>2. \A r \in cache[active].recs : r.lsn \in Nat
          BY <1>0, <5>1, NamesType, EndType
        <5> QED BY <1>1, <3>0, <5>2, TargetTop
      <4> QED BY <1>2, <1>4, <2>0, <2>2, <3>1, <4>1 DEF Sealed
    <3>2. CASE b # active
      <4>1. active \in dir /\ b < active /\ active <= durable_lsn /\ target = durable_lsn + 1
            /\ durable_lsn \in Nat /\ active \in Nat
        <5>1. active \in dir /\ b <= active /\ active <= durable_lsn /\ target = durable_lsn + 1
              /\ durable_lsn \in Nat /\ active \in Nat
          BY <1>1, <2>0, <3>0, TargetTop
        <5> QED BY <2>0, <3>2, <5>1
      <4>2. Sealed(b) /\ \A r \in cache[b].recs : r.lsn < active
        BY <1>0, <1>4, <2>0, <4>1 DEF StoreOK, SealedOK
      <4>3. \A r \in cache[b].recs : r.lsn \in Nat
        BY <1>0, <2>0, NamesType, EndType
      <4>4. \A r \in cache[b].recs : r.lsn < c
        BY <2>2, <4>1, <4>2, <4>3
      <4> QED BY <1>2, <1>4, <2>0, <4>2, <4>4 DEF Sealed
    <3> QED BY <3>1, <3>2
  <2> QED BY <1>4, <2>1, <2>2
<1>7. PendingOK'
  <2>1. ddir' \ dir' = {} /\ dir' \ ddir' = {target}
    BY <1>1, <1>3
  <2>2. cache'[target].recs = {} /\ \A c \in Names' : c <= target
    BY <1>0, <1>2, <1>4 DEF NewFile
  <2> QED BY <2>1, <2>2 DEF PendingOK
<1>8. StoreOK'
  BY <1>5, <1>6, <1>7 DEF StoreOK, FilesOK, SealedOK
<1>9. AckedIsDurable'
  BY <1>0, <1>1, <1>2, <1>8, AckedKept DEF Inv
<1>10. CreateOK' /\ OpenOK'
  <2>1. ~IsOpen' => ddir' = {} /\ dir' = {target'}
    BY <1>1, <1>3 DEF IsOpen, segVars
  <2>2. /\ cache'[target'].recs = {} /\ ~cache'[target'].torn
        /\ disk'[target'].recs = {} /\ ~disk'[target'].torn
    BY <1>1, <1>2 DEF NewFile
  <2> QED BY <1>1, <2>1, <2>2 DEF CreateOK, OpenOK, CreateSteps
<1>11. ASSUME Live' PROVE DirectoryOK' /\ TailOK'
  <2>1. Live /\ IsOpen
    BY <1>1, <1>11 DEF Live, IsOpen, segVars
  <2>2. active \in dir /\ dir = segments /\ ddir = segments
    BY <1>1, <1>3, <2>1, TargetTop
  <2>3. DirectoryOK'
    BY <1>1, <2>1, <2>2 DEF Inv, HandleOK, DirectoryOK, CreateSteps, segVars
  <2>4. cache'[active'] = cache[active] /\ disk'[active'] = disk[active]
    BY <1>1, <1>2, <2>2 DEF segVars
  <2>5. TailOK'
    BY <1>1, <2>1, <2>4 DEF Inv, HandleOK, TailOK, CreateSteps, segVars, lsnVars
  <2> QED BY <2>3, <2>5
<1>12. StagingOK'
  BY <1>1, StagingSame DEF Inv, HandleOK, segVars
<1>13. HandleOK'
  BY <1>10, <1>11, <1>12 DEF HandleOK, DirectoryOK, TailOK
<1> QED BY <1>1, <1>8, <1>9, <1>13 DEF Inv, NoError

(* The steps that give the new segment its header.                          *)
LEMMA CreateStep ==
    ASSUME TypeInv, Inv, pc \in CreateSteps \ {"create"},
           pc' \in {"header", "headersync", "dirsync"},
           UNCHANGED <<dir, ddir, target, segVars, lsnVars, bufVars, poisoned, err, ghostVars>>,
           \A b \in Lsns \ {target} : cache'[b] = cache[b] /\ disk'[b] = disk[b],
           cache'[target].recs = {}, ~cache'[target].torn,
           disk'[target].recs = {}, ~disk'[target].torn,
           pc' \in {"headersync", "dirsync"} => cache'[target].hdr = "ok",
           pc' = "dirsync" => disk'[target] = cache'[target]
    PROVE  Inv'
<1>0. /\ TypeOK /\ released \in Nat /\ dir \subseteq Lsns /\ ddir \subseteq Lsns
      /\ StoreOK /\ target \in Lsns /\ ~poisoned /\ target \in Nat /\ dir \subseteq Nat
      /\ disk[target].recs = {} /\ pc \in CreateSteps
  BY DEF TypeInv, TypeOK, Inv, CreateSteps, Lsns, HandleOK, OpenOK, CreateOK
<1>1. /\ UNCHANGED <<dir, ddir, target, acked, released, err, poisoned, segVars, lsnVars,
                     staging, staging_len, pos, segments, active>>
      /\ IsOpen' = IsOpen /\ Live' = Live
  BY DEF ghostVars, bufVars, segVars, IsOpen, Live
<1>2. /\ IsOpen => dir = segments \cup {target} /\ ddir = segments
      /\ ~IsOpen => dir = {target} /\ ddir = {}
  <2>1. CASE IsOpen
    BY <1>0, <2>1 DEF Live, Inv, HandleOK, DirectoryOK, CreateSteps
  <2>2. CASE ~IsOpen
    BY <1>0, <2>2 DEF Inv, HandleOK, CreateOK, CreateSteps
  <2> QED BY <2>1, <2>2
<1>3. target \in dir /\ Names = dir /\ \A c \in Names : c <= target
  <2>1. IsOpen => \A c \in segments : c < target
    BY <1>0, TargetTop
  <2>2. target \in dir /\ Names = dir
    BY <1>2 DEF Names
  <2>3. target \in Nat /\ dir \subseteq Nat
    BY <1>0
  <2>4. ASSUME NEW c \in dir PROVE c <= target
    <3>1. c = target \/ c < target
      BY <1>2, <2>1
    <3> QED BY <2>3, <3>1
  <2> QED BY <2>2, <2>4
<1>4. \A c \in Names \ {target} : cache'[c] = cache[c] /\ disk'[c] = disk[c]
  BY <1>0, <1>3
<1>5. ASSUME NEW a \in Lsns, a = target PROVE FileOK(a)'
  BY <1>5 DEF FileOK, Chained
<1>6. StoreOK'
  BY <1>0, <1>1, <1>3, <1>4, <1>5, StoreNewest
<1>7. AckedIsDurable'
  <2>1. ASSUME NEW b \in dir \cap ddir, NEW r \in disk[b].recs
        PROVE  b \in dir' \cap ddir' /\ disk'[b] = disk[b]
    BY <1>0, <1>1
  <2> QED BY <1>0, <1>1, <1>6, <2>1, AckedKept DEF Inv
<1>8. CreateOK' /\ OpenOK'
  BY <1>0, <1>1, <1>2 DEF CreateOK, OpenOK, CreateSteps
<1>9. ASSUME Live PROVE DirectoryOK' /\ TailOK'
  <2>1. active # target /\ active \in Lsns
    BY <1>0, <1>9, TargetTop DEF Live, TypeOK
  <2>2. cache'[active'] = cache[active] /\ disk'[active'] = disk[active]
    BY <1>1, <2>1
  <2>3. DirectoryOK'
    BY <1>0, <1>1, <1>9 DEF Inv, HandleOK, DirectoryOK, CreateSteps, segVars
  <2>4. TailOK'
    BY <1>0, <1>1, <1>9, <2>2 DEF Inv, HandleOK, TailOK, CreateSteps, segVars, lsnVars
  <2> QED BY <2>3, <2>4
<1>10. StagingOK'
  BY <1>1, StagingSame DEF Inv, HandleOK
<1>11. HandleOK'
  BY <1>1, <1>8, <1>9, <1>10 DEF HandleOK, DirectoryOK, TailOK
<1> QED BY <1>1, <1>6, <1>7, <1>11 DEF Inv, NoError

(* The three steps that change its header one after the other.              *)
LEMMA HeaderSafe ==
    ASSUME TypeInv, Inv, Allocate \/ WriteHeader \/ SyncHeader
    PROVE  Inv'
<1>0. /\ cache \in [Lsns -> File] /\ disk \in [Lsns -> File] /\ target \in Lsns
      /\ pc \in CreateSteps \ {"create"}
  BY DEF TypeInv, TypeOK, Allocate, WriteHeader, SyncHeader, CreateSteps
<1>1. /\ cache[target].recs = {} /\ ~cache[target].torn
      /\ disk[target].recs = {} /\ ~disk[target].torn
      /\ pc = "headersync" => cache[target].hdr = "ok"
  BY <1>0 DEF Inv, HandleOK, CreateOK
<1>2. cache[target] \in File
  BY <1>0
<1>3. CASE Allocate
  <2>1. cache'[target] = [cache[target] EXCEPT !.hdr = "zero"]
    BY <1>0, <1>3 DEF Allocate
  <2>2. cache'[target].recs = {} /\ ~cache'[target].torn
    BY <1>1, <1>2, <2>1 DEF File
  <2>3. \A b \in Lsns \ {target} : cache'[b] = cache[b] /\ disk'[b] = disk[b]
    BY <1>0, <1>3 DEF Allocate
  <2> QED BY <1>0, <1>1, <1>3, <2>2, <2>3, CreateStep DEF Allocate
<1>4. CASE WriteHeader
  <2>1. cache'[target] = [cache[target] EXCEPT !.hdr = "ok"]
    BY <1>0, <1>4 DEF WriteHeader
  <2>2. cache'[target].recs = {} /\ ~cache'[target].torn /\ cache'[target].hdr = "ok"
    BY <1>1, <1>2, <2>1 DEF File
  <2>3. \A b \in Lsns \ {target} : cache'[b] = cache[b] /\ disk'[b] = disk[b]
    BY <1>0, <1>4 DEF WriteHeader
  <2> QED BY <1>0, <1>1, <1>4, <2>2, <2>3, CreateStep DEF WriteHeader
<1>5. CASE SyncHeader
  <2>1. disk'[target] = cache[target] /\ cache' = cache /\ pc = "headersync"
    BY <1>0, <1>5 DEF SyncHeader, sync_data_fully
  <2>2. \A b \in Lsns \ {target} : cache'[b] = cache[b] /\ disk'[b] = disk[b]
    BY <1>0, <1>5 DEF SyncHeader, sync_data_fully
  <2> QED BY <1>0, <1>1, <1>5, <2>1, <2>2, CreateStep DEF SyncHeader
<1> QED BY <1>3, <1>4, <1>5

(* The new segment is empty, so its run ends at the header.                 *)
LEMMA EmptyRun ==
    ASSUME NEW f, NEW b, f.recs = {}
    PROVE  RunLast(f, b) = b - 1 /\ RunEnd(f, b) = HeaderSize
BY DEF RunLast, RunEnd, Run

(* cold_start returns a handle on one empty segment.                        *)
LEMMA ColdStartedSafe ==
    ASSUME TypeInv, Inv, ColdStarted
    PROVE  Inv'
<1>0. TypeOK /\ StoreOK /\ pc = "dirsync" /\ ~IsOpen /\ target \in Nat
  BY DEF TypeInv, TypeOK, ColdStarted, Inv, CreateSteps, Lsns
<1>1. /\ UNCHANGED <<dir, cache, disk, acked, released, err>> /\ fsync_dir
      /\ Handle(target, HeaderSize, target - 1, target)
  BY DEF ColdStarted, ghostVars
<1>2. StoreOK' /\ AckedIsDurable'
  BY <1>0, <1>1, StoreSyncDir DEF Inv
<1>3. /\ dir = {target} /\ cache[target].recs = {} /\ ~cache[target].torn
      /\ disk[target] = cache[target] /\ cache[target].hdr = "ok"
  BY <1>0 DEF Inv, HandleOK, CreateOK, CreateSteps
<1>4. RunLast(disk[target], target) = target - 1 /\ RunEnd(disk[target], target) = HeaderSize
  BY <1>3, EmptyRun
<1>5. Highest(target, dir) /\ Lowest(target, dir)
  BY <1>0, <1>3 DEF Highest, Lowest
<1>6. dir' = dir /\ ddir' = dir /\ disk' = disk /\ cache' = cache
  BY <1>1 DEF fsync_dir
<1>7. HandleOK'
  <2>1. ASSUME NEW a, a = target PROVE HandleOK'
    BY <1>1, <1>3, <1>4, <1>5, <1>6, <2>1, HandleFresh
  <2> QED BY <2>1
<1> QED BY <1>1, <1>2, <1>7 DEF Inv, NoError

(* roll makes a file active only when its name and header are durable.      *)
LEMMA RolledSafe ==
    ASSUME TypeInv, Inv, Rolled
    PROVE  Inv'
<1>0. TypeOK /\ StoreOK /\ pc = "dirsync" /\ IsOpen /\ target \in Nat /\ ~poisoned
      /\ pc \in CreateSteps
  BY DEF TypeInv, TypeOK, Rolled, Inv, CreateSteps, Lsns, HandleOK, OpenOK
<1>1. /\ UNCHANGED <<dir, cache, disk, acked, released, err, oldest_lsn, lsnVars, staging,
                     staging_len, pos, poisoned>>
      /\ fsync_dir /\ pc' = "commit"
      /\ active' = target /\ write_offset' = HeaderSize /\ segments' = segments \cup {target}
  BY DEF Rolled, ghostVars, bufVars, Activate
<1>2. StoreOK' /\ AckedIsDurable'
  BY <1>0, <1>1, StoreSyncDir DEF Inv
<1>3. /\ cache[target].recs = {} /\ ~cache[target].torn
      /\ disk[target] = cache[target] /\ cache[target].hdr = "ok"
  BY <1>0 DEF Inv, HandleOK, CreateOK, CreateSteps
<1>4. RunLast(disk[target], target) = target - 1 /\ RunEnd(disk[target], target) = HeaderSize
  BY <1>3, EmptyRun
<1>5. /\ Live /\ \A b \in segments : b < target
      /\ target = durable_lsn + 1 /\ durable_lsn \in Nat /\ segments \subseteq Nat
  BY <1>0, TargetTop
<1>6. dir = segments \cup {target} /\ Lowest(oldest_lsn, segments)
  BY <1>0, <1>5 DEF Inv, HandleOK, DirectoryOK, CreateSteps
<1>7. dir' = dir /\ ddir' = dir /\ disk' = disk /\ cache' = cache /\ segments' = dir
  BY <1>1, <1>6 DEF fsync_dir
<1>8. Live' /\ IsOpen'
  BY <1>0, <1>1 DEF Live, IsOpen
<1>9. DirectoryOK'
  <2>1. Highest(target, dir)
    BY <1>0, <1>5, <1>6 DEF Highest
  <2>2. Lowest(oldest_lsn, dir)
    BY <1>0, <1>5, <1>6 DEF Lowest
  <2> QED BY <1>1, <1>7, <2>1, <2>2 DEF DirectoryOK, CreateSteps
<1>10. TailOK'
  <2>1. durable_lsn' = target - 1
    BY <1>1, <1>5 DEF lsnVars
  <2> QED BY <1>1, <1>3, <1>4, <1>7, <2>1 DEF TailOK, CreateSteps
<1>11. StagingOK'
  BY <1>0, <1>1, <1>8 DEF Inv, HandleOK, StagingOK, lsnVars, Live, IsOpen
<1>12. CreateOK' /\ OpenOK'
  BY <1>0, <1>1, <1>8 DEF CreateOK, OpenOK, CreateSteps
<1> QED BY <1>1, <1>2, <1>9, <1>10, <1>11, <1>12 DEF Inv, NoError, HandleOK

-----------------------------------------------------------------------------
(* Checkpoint.                                                              *)

(* The segments a checkpoint picks hold released records only.              *)
LEMMA CheckpointStartSafe ==
    ASSUME TypeInv, Inv, NEW u \in 0..MaxLsn, CheckpointStart(u)
    PROVE  Inv'
<1>0. /\ TypeOK /\ StoreOK /\ pc = "idle" /\ IsOpen /\ ~poisoned /\ Live
      /\ released \in Nat /\ u \in Nat /\ segments \subseteq Nat /\ segments \subseteq Lsns
  BY DEF TypeInv, TypeOK, CheckpointStart, Ready, Inv, Live, Lsns
<1>1. /\ UNCHANGED <<fsVars, segVars, lsnVars, bufVars, acked, err, poisoned>>
      /\ pc' \in {"idle", "unlink"} /\ doomed' = Deletable(u)
      /\ released' \in Nat /\ released <= released' /\ u <= released'
  BY <1>0 DEF CheckpointStart
<1>2. StoreOK' /\ AckedIsDurable'
  BY <1>0, <1>1, StoreSame DEF Inv
<1>3. IsOpen' /\ Live' /\ dir' = dir /\ ddir' = ddir /\ cache' = cache /\ disk' = disk
      /\ segments' = segments /\ active' = active /\ oldest_lsn' = oldest_lsn
  BY <1>0, <1>1 DEF IsOpen, Live, segVars, fsVars
<1>4. /\ Highest(active, segments) /\ Lowest(oldest_lsn, segments)
      /\ ddir = segments /\ dir = segments
  BY <1>0 DEF Inv, HandleOK, DirectoryOK
<1>5. active \notin Deletable(u)
  BY <1>0, <1>4 DEF Deletable, Highest
<1>6. \A d \in Deletable(u), b \in segments : b < d => b \in Deletable(u)
  BY <1>0 DEF Deletable
<1>7. ASSUME NEW d \in Deletable(u), NEW r \in cache[d].recs PROVE r.lsn <= released'
  <2>1. PICK n \in segments : d \in segments /\ d < n /\ n - 1 <= u
    BY DEF Deletable
  <2>2. r.lsn < n
    BY <1>0, <1>4, <2>1 DEF StoreOK, SealedOK, Names
  <2>3. r.lsn \in Nat /\ n \in Nat
    BY <1>0, <2>1, NamesType, EndType
  <2> QED BY <1>0, <1>1, <2>1, <2>2, <2>3
<1>8. DirectoryOK'
  BY <1>1, <1>3, <1>4, <1>5, <1>6, <1>7 DEF DirectoryOK, CreateSteps
<1>9. TailOK'
  BY <1>0, <1>1, <1>3 DEF Inv, HandleOK, TailOK, CreateSteps, segVars, lsnVars
<1>10. StagingOK'
  BY <1>0, <1>1, <1>3 DEF Inv, HandleOK, StagingOK, bufVars, lsnVars
<1>11. CreateOK' /\ OpenOK'
  BY <1>0, <1>1, <1>3 DEF CreateOK, OpenOK, CreateSteps
<1> QED BY <1>1, <1>2, <1>8, <1>9, <1>10, <1>11 DEF Inv, NoError, HandleOK

(* Segments go oldest first, so what is left is a suffix of the log.        *)
LEMMA CheckpointUnlinkSafe ==
    ASSUME TypeInv, Inv, CheckpointUnlink
    PROVE  Inv'
<1>0. /\ TypeOK /\ StoreOK /\ pc = "unlink" /\ IsOpen /\ ~poisoned /\ Live
      /\ released \in Nat /\ segments \subseteq Nat
  BY DEF TypeInv, TypeOK, CheckpointUnlink, Inv, Live, Lsns, HandleOK, OpenOK
<1>1. UNCHANGED <<ddir, cache, disk, pc, doomed, segVars, lsnVars, bufVars, poisoned, err,
                  acked, released, segments, active, oldest_lsn>>
  BY DEF CheckpointUnlink, ghostVars, segVars
<1>2. PICK b \in doomed : Lowest(b, doomed \cap dir) /\ dir' = dir \ {b}
  BY DEF CheckpointUnlink
<1>3. /\ Highest(active, segments) /\ Lowest(oldest_lsn, segments) /\ ddir = segments
      /\ dir \subseteq segments /\ segments \ dir \subseteq doomed
      /\ active \notin doomed
      /\ \A x \in segments \ dir, c \in dir : x < c
      /\ \A d \in doomed, x \in segments : x < d => x \in doomed
      /\ \A d \in doomed : \A r \in cache[d].recs : r.lsn <= released
  BY <1>0 DEF Inv, HandleOK, DirectoryOK
<1>4. Names = segments /\ Names' = segments /\ b \in dir
  BY <1>1, <1>2, <1>3 DEF Names, Lowest
<1>5. ASSUME NEW x \in segments \ dir', NEW c \in dir' PROVE x < c
  <2>1. CASE x # b
    BY <1>2, <1>3, <2>1
  <2>2. CASE x = b
    <3>1. c \in dir /\ c # b /\ c \in segments /\ c \in Nat /\ b \in Nat
      BY <1>0, <1>2, <1>3, <1>4
    <3>2. ~(c < b)
      BY <1>2, <1>3, <3>1 DEF Lowest
    <3> QED BY <2>2, <3>1, <3>2
  <2> QED BY <2>1, <2>2
<1>6. segments \ dir' \subseteq doomed /\ dir' \subseteq segments
  BY <1>2, <1>3
<1>7. FilesOK' /\ SealedOK'
  BY <1>0, <1>1, <1>4 DEF StoreOK, FilesOK, FileOK, SealedOK, Sealed
<1>8. PendingOK'
  BY <1>1, <1>3, <1>5, <1>6 DEF PendingOK
<1>9. StoreOK'
  BY <1>7, <1>8 DEF StoreOK
<1>10. AckedIsDurable'
  <2>1. ASSUME NEW x \in dir \cap ddir, NEW r \in disk[x].recs, r.lsn > released'
        PROVE  x \in dir' \cap ddir'
    <3>1. SUFFICES ASSUME x = b PROVE FALSE
      BY <1>1, <1>2
    <3>2. disk[b].recs \subseteq cache[b].recs
      BY <1>0, <1>3, <1>4 DEF StoreOK, FilesOK, FileOK
    <3>3. r \in cache[b].recs
      BY <3>1, <3>2
    <3>4. r.lsn <= released /\ r.lsn \in Nat
      <4>1. b \in Lsns
        BY <1>4, NamesType, <1>0 DEF TypeOK
      <4> QED BY <1>0, <1>3, <3>3, <4>1, NamesType, EndType
    <3> QED BY <1>0, <1>1, <2>1, <3>4
  <2> QED BY <1>0, <1>1, <1>9, <2>1, AckedKept DEF Inv
<1>11. IsOpen' /\ Live'
  BY <1>0, <1>1 DEF IsOpen, Live
<1>12. DirectoryOK'
  BY <1>0, <1>1, <1>3, <1>5, <1>6 DEF DirectoryOK, CreateSteps
<1>13. TailOK'
  BY <1>0, <1>1, <1>11 DEF Inv, HandleOK, TailOK, CreateSteps, segVars, lsnVars
<1>14. StagingOK'
  BY <1>0, <1>1, <1>11 DEF Inv, HandleOK, StagingOK, bufVars, lsnVars
<1>15. CreateOK' /\ OpenOK'
  BY <1>0, <1>1, <1>11 DEF CreateOK, OpenOK, CreateSteps
<1> QED BY <1>1, <1>9, <1>10, <1>12, <1>13, <1>14, <1>15 DEF Inv, NoError, HandleOK

(* After the directory fsync the handle forgets the deleted segments.       *)
LEMMA CheckpointSyncSafe ==
    ASSUME TypeInv, Inv, CheckpointSync
    PROVE  Inv'
<1>0. /\ TypeOK /\ StoreOK /\ pc = "unlink" /\ IsOpen /\ ~poisoned /\ Live
  BY DEF TypeInv, CheckpointSync, Inv, Live, HandleOK, OpenOK
<1>1. /\ UNCHANGED <<dir, cache, disk, active, write_offset, lsnVars, bufVars, poisoned, err,
                     acked, released>>
      /\ pc' = "idle" /\ fsync_dir /\ segments' = segments \ doomed
      /\ doomed \cap dir = {} /\ Lowest(oldest_lsn', segments \ doomed)
  BY DEF CheckpointSync, ghostVars
<1>2. StoreOK' /\ AckedIsDurable'
  BY <1>0, <1>1, StoreSyncDir DEF Inv
<1>3. /\ Highest(active, segments) /\ active \notin doomed
      /\ dir \subseteq segments /\ segments \ dir \subseteq doomed
  BY <1>0 DEF Inv, HandleOK, DirectoryOK
<1>4. dir' = segments' /\ ddir' = segments' /\ Highest(active', segments')
      /\ Lowest(oldest_lsn', segments')
  BY <1>1, <1>3 DEF fsync_dir, Highest
<1>5. IsOpen' /\ Live'
  BY <1>0, <1>1, <1>4 DEF IsOpen, Live, Highest
<1>6. DirectoryOK'
  BY <1>1, <1>4 DEF DirectoryOK, CreateSteps
<1>7. TailOK'
  BY <1>0, <1>1, <1>5 DEF Inv, HandleOK, TailOK, CreateSteps, lsnVars
<1>8. StagingOK'
  BY <1>0, <1>1, <1>5 DEF Inv, HandleOK, StagingOK, bufVars, lsnVars
<1>9. CreateOK' /\ OpenOK'
  BY <1>0, <1>1, <1>5 DEF CreateOK, OpenOK, CreateSteps
<1> QED BY <1>1, <1>2, <1>6, <1>7, <1>8, <1>9 DEF Inv, NoError, HandleOK

-----------------------------------------------------------------------------
(* Append and commit.                                                       *)

(* An appended record goes right behind the staged ones.                    *)
LEMMA AppendStaging ==
    ASSUME TypeOK, StagingOK, Live, NEW p \in Payloads, Append(p)
    PROVE  StagingOK'
<1>0. /\ pc = "idle" /\ Framed[p] <= MaxFramed /\ Framed[p] \in Nat \ {0}
      /\ staging \in SUBSET Record /\ staging_len \in Nat
      /\ last_lsn \in Nat /\ last_lsn < MaxLsn /\ durable_lsn \in Nat /\ MaxLsn \in Nat
  BY ConfigAssumption DEF TypeOK, Append, Ready, SizeAllowed, HasNext
<1>1. /\ UNCHANGED <<pc, durable_lsn, pos>>
      /\ staging_len' = staging_len + Framed[p] /\ last_lsn' = last_lsn + 1
  BY DEF Append
<1> DEFINE new == [lsn |-> last_lsn + 1, pay |-> p, start |-> staging_len]
<1>2. staging' = staging \cup {new}
  BY DEF Append
<1>3. new \in Record /\ End(new) = staging_len + Framed[p] /\ new.lsn = last_lsn + 1
      /\ new.start = staging_len /\ new.pay = p
  BY <1>0 DEF Record, End, Lsns
<1> HIDE DEF new
<1>6. /\ pos = 0
      /\ \A s \in staging : Framed[s.pay] <= MaxFramed /\ End(s) <= staging_len /\ s.lsn <= last_lsn
      /\ Chained({s \in staging : s.start >= pos}, durable_lsn + 1, pos)
      /\ staging = {} => staging_len = 0 /\ last_lsn = durable_lsn
      /\ staging # {} => \E s \in staging : End(s) = staging_len /\ s.lsn = last_lsn
  BY <1>0 DEF StagingOK
<1>7. \A s \in staging : s.start \in Nat /\ End(s) \in Nat /\ s.lsn \in Nat
  BY <1>0, EndType
<1>8. {s \in staging : s.start >= pos} = staging /\ {s \in staging' : s.start >= pos'} = staging'
  BY <1>0, <1>1, <1>2, <1>3, <1>6, <1>7
<1>9. Chained(staging', durable_lsn + 1, 0)
  <2>1. EndsAt(staging, durable_lsn + 1, 0, last_lsn, staging_len)
    BY <1>0, <1>6 DEF EndsAt
  <2>2. Chained({new}, last_lsn + 1, staging_len)
    BY <1>0, <1>3 DEF Chained
  <2>3. {new} \in SUBSET Record /\ Chained(staging, durable_lsn + 1, 0)
    BY <1>3, <1>6, <1>8
  <2>4. Chained(staging \cup {new}, durable_lsn + 1, 0)
    BY <1>0, <2>1, <2>2, <2>3, ChainAppend
  <2> QED BY <1>2, <2>4
<1>10. /\ \A s \in staging' : Framed[s.pay] <= MaxFramed
       /\ \A s \in staging' : End(s) <= staging_len' /\ s.lsn <= last_lsn'
       /\ \E s \in staging' : End(s) = staging_len' /\ s.lsn = last_lsn'
       /\ \A s \in staging' : ~(s.start < 0)
  <2>1. \A s \in staging : End(s) <= staging_len' /\ s.lsn <= last_lsn' /\ ~(s.start < 0)
    BY <1>0, <1>1, <1>6, <1>7
  <2>2. End(new) = staging_len' /\ new.lsn = last_lsn' /\ Framed[new.pay] <= MaxFramed
        /\ ~(new.start < 0)
    BY <1>0, <1>1, <1>3
  <2>3. End(new) <= staging_len' /\ new.lsn <= last_lsn'
    BY <1>0, <1>1, <2>2
  <2> QED BY <1>2, <1>6, <2>1, <2>2, <2>3
<1>11. StagingOK'
  <2>1. pos' = 0 /\ durable_lsn' = durable_lsn /\ pc' = "idle" /\ staging' # {}
    BY <1>0, <1>1, <1>2, <1>6
  <2>2. Chained({s \in staging' : s.start >= pos'}, durable_lsn' + 1, pos')
    BY <1>8, <1>9, <2>1
  <2> QED BY <1>10, <2>1, <2>2 DEF StagingOK
<1> QED BY <1>11

(* append changes nothing else.                                             *)
LEMMA AppendSafe ==
    ASSUME TypeInv, Inv, NEW p \in Payloads, Append(p)
    PROVE  Inv'
<1>0. /\ TypeOK /\ StoreOK /\ pc = "idle" /\ IsOpen /\ ~poisoned /\ Live /\ released \in Nat
  BY DEF TypeInv, TypeOK, Append, Ready, Inv, Live
<1>1. UNCHANGED <<fsVars, pc, segVars, durable_lsn, pos, acked, released, err, poisoned>>
  BY DEF Append, ghostVars
<1>4. StoreOK' /\ AckedIsDurable'
  BY <1>0, <1>1, StoreSame DEF Inv
<1>5. /\ IsOpen' /\ Live' /\ segments' = segments
      /\ dir' = dir /\ ddir' = ddir /\ cache' = cache /\ disk' = disk
  BY <1>0, <1>1 DEF IsOpen, Live, segVars, fsVars
<1>11. StagingOK'
  BY <1>0, AppendStaging DEF Inv, HandleOK
<1>12. DirectoryOK'
  BY <1>0, <1>1, <1>5 DEF Inv, HandleOK, DirectoryOK, CreateSteps, segVars
<1>13. TailOK'
  BY <1>0, <1>1, <1>5 DEF Inv, HandleOK, TailOK, CreateSteps, segVars
<1>14. CreateOK' /\ OpenOK'
  BY <1>0, <1>1, <1>5 DEF CreateOK, OpenOK, CreateSteps
<1> QED BY <1>1, <1>4, <1>11, <1>12, <1>13, <1>14 DEF Inv, NoError, HandleOK

(* commit starts at the front of the staging buffer.                        *)
LEMMA CommitStartSafe ==
    ASSUME TypeInv, Inv, CommitStart
    PROVE  Inv'
<1>0. /\ TypeOK /\ StoreOK /\ pc = "idle" /\ IsOpen /\ ~poisoned /\ Live /\ released \in Nat
  BY DEF TypeInv, TypeOK, CommitStart, Ready, Inv, Live
<1>1. /\ UNCHANGED <<fsVars, segVars, lsnVars, staging, staging_len, acked, released, err,
                     poisoned>>
      /\ pc' = "commit" /\ pos' = 0
  BY DEF CommitStart, ghostVars
<1>2. StoreOK' /\ AckedIsDurable'
  BY <1>0, <1>1, StoreSame DEF Inv
<1>3. /\ IsOpen' /\ Live' /\ segments' = segments
      /\ dir' = dir /\ ddir' = ddir /\ cache' = cache /\ disk' = disk
  BY <1>0, <1>1 DEF IsOpen, Live, segVars, fsVars
<1>4. pos' = pos
  BY <1>0, <1>1 DEF Inv, HandleOK, StagingOK
<1>5. StagingOK'
  BY <1>1, <1>3, <1>4, StagingSame DEF Inv, HandleOK
<1>6. DirectoryOK'
  BY <1>0, <1>1, <1>3 DEF Inv, HandleOK, DirectoryOK, CreateSteps, segVars
<1>7. TailOK'
  BY <1>0, <1>1, <1>3 DEF Inv, HandleOK, TailOK, CreateSteps, segVars, lsnVars
<1>8. CreateOK' /\ OpenOK'
  BY <1>0, <1>1, <1>3 DEF CreateOK, OpenOK, CreateSteps
<1> QED BY <1>1, <1>2, <1>5, <1>6, <1>7, <1>8 DEF Inv, NoError, HandleOK

(* While a handle is live, the device has every file but the active one.    *)
LEMMA OthersOnDevice ==
    ASSUME TypeInv, Inv, Live, pc \in {"idle", "commit", "sync"}
    PROVE  /\ dir = ddir /\ Names = dir /\ active \in dir /\ \A c \in dir : c <= active
           /\ \A b \in dir : b # active => disk[b] = cache[b]
           /\ active \in Lsns /\ cache[active] \in File /\ disk[active] \in File
<1>1. TypeOK /\ dir \subseteq Lsns /\ dir \subseteq Nat
  BY DEF TypeInv, TypeOK, Lsns
<1>2. Highest(active, segments) /\ ddir = segments /\ dir = segments
  BY DEF Inv, HandleOK, DirectoryOK
<1>3. Names = dir /\ active \in dir /\ \A c \in dir : c <= active
  BY <1>2 DEF Names, Highest
<1>4. ASSUME NEW b \in dir, b # active PROVE disk[b] = cache[b]
  <2>1. b < active
    BY <1>1, <1>3, <1>4
  <2> QED BY <1>3, <2>1 DEF Inv, StoreOK, SealedOK, Sealed
<1>5. cache[active] \in File /\ disk[active] \in File
  BY <1>1, <1>3 DEF TypeOK
<1> QED BY <1>1, <1>2, <1>3, <1>4, <1>5

(* An empty commit only repeats what is on the device.                      *)
LEMMA CommitEmptySafe ==
    ASSUME TypeInv, Inv, CommitEmpty
    PROVE  Inv'
<1>0. /\ TypeOK /\ StoreOK /\ pc = "idle" /\ IsOpen /\ ~poisoned /\ Live /\ released \in Nat
  BY DEF TypeInv, TypeOK, CommitEmpty, Ready, Inv, Live
<1>1. /\ UNCHANGED <<fsVars, pc, segVars, lsnVars, bufVars, released, err, poisoned>>
      /\ acked' \subseteq acked \cup Stored(dir, cache)
  BY DEF CommitEmpty, Report
<1>2. /\ IsOpen' /\ Live' /\ segments' = segments
      /\ dir' = dir /\ ddir' = ddir /\ cache' = cache /\ disk' = disk
  BY <1>0, <1>1 DEF IsOpen, Live, segVars, fsVars
<1>3. StoreOK'
  BY <1>0, <1>2, <1>1 DEF StoreOK, FilesOK, FileOK, SealedOK, Sealed, PendingOK, Names
<1>4. AckedIsDurable'
  <2>1. dir \cap ddir = dir /\ \A b \in dir : disk[b] = cache[b]
    <3>1. cache[active] = disk[active]
      BY <1>0 DEF Inv, HandleOK, TailOK
    <3> QED BY <1>0, <3>1, OthersOnDevice
  <2>2. Stored(dir, cache) = Stored(dir \cap ddir, disk)
    BY <2>1 DEF Stored
  <2>3. \A x \in acked : x.lsn > released => x \in Stored(dir \cap ddir, disk)
    BY DEF Inv, AckedIsDurable
  <2>4. Stored(dir' \cap ddir', disk') = Stored(dir \cap ddir, disk) /\ released' = released
    BY <1>1, <1>2
  <2> QED BY <1>1, <2>2, <2>3, <2>4 DEF AckedIsDurable
<1>5. StagingOK'
  BY <1>0, <1>1, <1>2 DEF Inv, HandleOK, StagingOK, bufVars, lsnVars
<1>6. DirectoryOK'
  BY <1>0, <1>1, <1>2 DEF Inv, HandleOK, DirectoryOK, CreateSteps, segVars
<1>7. TailOK'
  BY <1>0, <1>1, <1>2 DEF Inv, HandleOK, TailOK, CreateSteps, segVars, lsnVars
<1>8. CreateOK' /\ OpenOK'
  BY <1>0, <1>1, <1>2 DEF CreateOK, OpenOK, CreateSteps
<1> QED BY <1>1, <1>3, <1>4, <1>5, <1>6, <1>7, <1>8 DEF Inv, NoError, HandleOK

(* A chain's record at its first offset has its first LSN.                  *)
LEMMA ChainHead ==
    ASSUME NEW R \in SUBSET Record, NEW b, NEW off \in Nat, Chained(R, b, off),
           NEW r \in R, r.start = off
    PROVE  r.lsn = b
<1>1. \A q \in R : End(q) > off
  BY EndType DEF Chained
<1> QED BY <1>1, EndType DEF Chained

(* A record is only refused by the active segment if others are in it.      *)
LEMMA NoFitTarget ==
    ASSUME TypeOK, StagingOK, Live, CommitNoFit, NEW f, RunEnd(f, active) = write_offset
    PROVE  target' = durable_lsn + 1 /\ f.recs # {}
<1>0. pos \in Nat /\ write_offset \in Nat /\ staging \in SUBSET Record
  BY DEF TypeOK
<1>2. PICK r \in staging : r.start = pos /\ target' = r.lsn
  BY DEF CommitNoFit, FirstUnwritten
<1>5. target' = durable_lsn + 1
  <2> DEFINE R == {s \in staging : s.start >= pos}
  <2>1. Chained(R, durable_lsn + 1, pos)
    BY <1>0 DEF StagingOK
  <2>2. R \in SUBSET Record /\ r \in R
    BY <1>0, <1>2
  <2> HIDE DEF R
  <2> QED BY <1>0, <1>2, <2>1, <2>2, ChainHead
<1>6. f.recs # {}
  <2>1. SUFFICES ASSUME f.recs = {} PROVE FALSE
    OBVIOUS
  <2>2. write_offset = HeaderSize
    BY <1>0, <2>1, EmptyRun
  <2>3. Framed[r.pay] <= MaxFramed /\ Framed[r.pay] \in Nat /\ End(r) = pos + Framed[r.pay]
        /\ End(r) > pos /\ End(r) \in Boundaries /\ End(r) \in Nat
    BY <1>0, <1>2, EndType, ConfigAssumption
    DEF StagingOK, Boundaries, End, Record
  <2>4. ~Fits(End(r))
    BY <2>3 DEF CommitNoFit, Prefix
  <2> QED BY <1>0, <2>2, <2>3, <2>4, ConfigAssumption DEF Fits, ValidConfig
<1> QED BY <1>5, <1>6

(* So the new segment starts right behind a sealed one.                     *)
LEMMA CommitNoFitSafe ==
    ASSUME TypeInv, Inv, CommitNoFit
    PROVE  Inv'
<1>0. /\ TypeOK /\ StoreOK /\ pc = "commit" /\ IsOpen /\ ~poisoned /\ Live /\ released \in Nat
      /\ pos \in Nat /\ write_offset \in Nat /\ staging \in SUBSET Record
  BY DEF TypeInv, TypeOK, CommitNoFit, Inv, Live, HandleOK, OpenOK
<1>1. /\ UNCHANGED <<fsVars, segVars, lsnVars, staging, staging_len, pos, acked, released, err,
                     poisoned>>
      /\ pc' = "create"
  BY DEF CommitNoFit, ghostVars, bufVars
<1>3. StoreOK' /\ AckedIsDurable'
  BY <1>0, <1>1, StoreSame DEF Inv
<1>4. /\ IsOpen' /\ Live' /\ segments' = segments
      /\ dir' = dir /\ ddir' = ddir /\ cache' = cache /\ disk' = disk
  BY <1>0, <1>1 DEF IsOpen, Live, segVars, fsVars
<1>5. target' = durable_lsn + 1 /\ disk[active].recs # {}
  BY <1>0, NoFitTarget DEF Inv, HandleOK, TailOK
<1>7. StagingOK'
  BY <1>1, <1>4, StagingSame DEF Inv, HandleOK
<1>8. DirectoryOK'
  BY <1>0, <1>1, <1>4 DEF Inv, HandleOK, DirectoryOK, CreateSteps, segVars
<1>9. TailOK'
  BY <1>0, <1>1, <1>4, <1>5 DEF Inv, HandleOK, TailOK, CreateSteps, segVars, lsnVars
<1>10. CreateOK' /\ OpenOK'
  BY <1>0, <1>1, <1>4 DEF CreateOK, OpenOK, CreateSteps
<1> QED BY <1>1, <1>3, <1>7, <1>8, <1>9, <1>10 DEF Inv, NoError, HandleOK

(* The batch is a chain that starts where the active segment ends: writing  *)
(* it destroys nothing, and makes one longer chain.                         *)
LEMMA BatchBehind ==
    ASSUME TypeOK, StagingOK, Live, active \in Lsns, NEW f \in File,
           Chained(f.recs, active, HeaderSize),
           RunLast(f, active) = durable_lsn, RunEnd(f, active) = write_offset, NEW k \in Nat
    PROVE  LET B == Batch(pos, k, write_offset) IN
           /\ B \in SUBSET Record /\ Chained(B, durable_lsn + 1, write_offset)
           /\ B = {Moved(r, pos, write_offset) : r \in Staged(pos, k)}
           /\ f.recs \in SUBSET Record
           /\ EndsAt(f.recs, active, HeaderSize, durable_lsn, write_offset)
           /\ WriteRecords(f, B).recs = f.recs \cup B
           /\ WriteRecords(f, B).hdr = f.hdr /\ WriteRecords(f, B).torn = f.torn
           /\ Chained(f.recs \cup B, active, HeaderSize)
<1> DEFINE B == Batch(pos, k, write_offset)
           R == {s \in staging : s.start >= pos}
<1>0. /\ pos \in Nat /\ write_offset \in Nat /\ durable_lsn \in Nat
      /\ staging \in SUBSET Record
      /\ f.recs \in SUBSET Record /\ active \in Int /\ HeaderSize \in Int
  BY ConfigAssumption DEF TypeOK, File, Lsns
<1>1. Chained(R, durable_lsn + 1, pos) /\ R \in SUBSET Record
  BY <1>0 DEF StagingOK
<1>2. Staged(pos, k) = {r \in R : End(r) <= k} /\ Staged(pos, k) \in SUBSET Record
  BY <1>0 DEF Staged
<1>3. Chained(Staged(pos, k), durable_lsn + 1, pos)
  <2> HIDE DEF R
  <2> QED BY <1>1, <1>2, ChainPrefix
<1>4. B = {Moved(r, pos, write_offset) : r \in Staged(pos, k)}
  BY DEF Batch, Moved
<1>5. B \in SUBSET Record /\ Chained(B, durable_lsn + 1, write_offset)
  <2>1. durable_lsn + 1 \in Int /\ pos \in Nat /\ write_offset \in Nat
    BY <1>0
  <2>2. Staged(pos, k) \in SUBSET Record
    BY <1>2
  <2> DEFINE M == {Moved(r, pos, write_offset) : r \in Staged(pos, k)}
  <2>3. M \in SUBSET Record /\ Chained(M, durable_lsn + 1, write_offset)
    BY <1>3, <2>1, <2>2, ChainMove
  <2>4. B = M
    BY <1>4
  <2> HIDE DEF B, M
  <2> QED BY <2>3, <2>4
<1>7. EndsAt(f.recs, active, HeaderSize, durable_lsn, write_offset)
  BY <1>0, ResumeAtEnd
<1> HIDE DEF B, R
<1>8. Chained(f.recs \cup B, active, HeaderSize)
  BY <1>0, <1>5, <1>7, ChainAppend
<1>9. WriteRecords(f, B).recs = f.recs \cup B
  <2>1. ASSUME NEW r \in f.recs, NEW s \in B PROVE ~Overlap(r, s)
    <3>1. End(r) <= write_offset /\ write_offset <= s.start
      BY <1>5, <1>7 DEF EndsAt, Chained
    <3>2. End(r) \in Nat /\ s.start \in Nat
      BY <1>0, <1>5, EndType
    <3> QED BY <1>0, <3>1, <3>2 DEF Overlap
  <2>2. {r \in f.recs : \A s \in B : ~Overlap(r, s)} = f.recs
    BY <2>1
  <2> QED BY <1>0, <2>2 DEF WriteRecords, File
<1>10. WriteRecords(f, B).hdr = f.hdr /\ WriteRecords(f, B).torn = f.torn
  BY <1>0 DEF WriteRecords, File
<1> QED BY <1>0, <1>4, <1>5, <1>7, <1>8, <1>9, <1>10 DEF B

(* The same for the active segment on the device.                           *)
LEMMA BatchFits ==
    ASSUME TypeInv, Inv, Live, pc \in {"commit", "sync"}, NEW k \in Nat
    PROVE  LET B == Batch(pos, k, write_offset)
               f == disk[active] IN
           /\ B \in SUBSET Record /\ Chained(B, durable_lsn + 1, write_offset)
           /\ B = {Moved(r, pos, write_offset) : r \in Staged(pos, k)}
           /\ f.recs \in SUBSET Record
           /\ Chained(f.recs, active, HeaderSize)
           /\ EndsAt(f.recs, active, HeaderSize, durable_lsn, write_offset)
           /\ WriteRecords(f, B).recs = f.recs \cup B
           /\ WriteRecords(f, B).hdr = "ok" /\ ~WriteRecords(f, B).torn
           /\ Chained(f.recs \cup B, active, HeaderSize)
<1>1. TypeOK /\ StagingOK /\ active \in Lsns /\ disk[active] \in File /\ active \in Names
  BY OthersOnDevice DEF TypeInv, Inv, HandleOK
<1>2. Chained(disk[active].recs, active, HeaderSize)
  BY <1>1 DEF Inv, StoreOK, FilesOK, FileOK
<1>3. /\ RunLast(disk[active], active) = durable_lsn /\ RunEnd(disk[active], active) = write_offset
      /\ disk[active].hdr = "ok" /\ ~disk[active].torn
  BY DEF Inv, HandleOK, TailOK
<1> DEFINE f == disk[active]
<1>4. /\ f \in File /\ Chained(f.recs, active, HeaderSize)
      /\ RunLast(f, active) = durable_lsn /\ RunEnd(f, active) = write_offset
      /\ f.hdr = "ok" /\ ~f.torn
  BY <1>1, <1>2, <1>3
<1> HIDE DEF f
<1>5. LET B == Batch(pos, k, write_offset) IN
      /\ B \in SUBSET Record /\ Chained(B, durable_lsn + 1, write_offset)
      /\ B = {Moved(r, pos, write_offset) : r \in Staged(pos, k)}
      /\ f.recs \in SUBSET Record
      /\ EndsAt(f.recs, active, HeaderSize, durable_lsn, write_offset)
      /\ WriteRecords(f, B).recs = f.recs \cup B
      /\ WriteRecords(f, B).hdr = f.hdr /\ WriteRecords(f, B).torn = f.torn
      /\ Chained(f.recs \cup B, active, HeaderSize)
  BY <1>1, <1>4, BatchBehind
<1> QED BY <1>4, <1>5 DEF f

(* Where a write stops short of a staged record, an LSN is left.            *)
LEMMA LsnLeft ==
    ASSUME TypeOK, StagingOK, Live, active \in Lsns, NEW f \in File,
           Chained(f.recs, active, HeaderSize),
           RunLast(f, active) = durable_lsn, RunEnd(f, active) = write_offset, NEW k \in Nat,
           NEW e \in Boundaries, k < e, pos <= k
    PROVE  \A r \in f.recs \cup Batch(pos, k, write_offset) : r.lsn < MaxLsn
<1> DEFINE B == Batch(pos, k, write_offset)
<1>0. /\ pos \in Nat /\ durable_lsn \in Nat /\ MaxLsn \in Nat
  BY ConfigAssumption DEF TypeOK
<1>1. /\ B \in SUBSET Record /\ f.recs \in SUBSET Record
      /\ B = {Moved(r, pos, write_offset) : r \in Staged(pos, k)}
      /\ EndsAt(f.recs, active, HeaderSize, durable_lsn, write_offset)
  BY BatchBehind
<1> HIDE DEF B
<1>2. SUFFICES ASSUME NEW r \in f.recs \cup B PROVE r.lsn < MaxLsn
  BY DEF B
<1>3. PICK s \in staging : k < End(s) /\ pos <= k
  BY DEF Boundaries
<1> DEFINE R == {q \in staging : q.start >= pos}
<1>4. s \in Record /\ s.lsn \in Nat /\ s.lsn <= MaxLsn /\ End(s) \in Nat /\ s.start \in Nat
  BY <1>0, EndType DEF TypeOK, Lsns
<1>5. s \in R
  <2>1. s.start < pos => End(s) <= pos
    BY DEF StagingOK
  <2> QED BY <1>0, <1>3, <1>4, <2>1
<1>6. Chained(R, durable_lsn + 1, pos)
  BY DEF StagingOK
<1>7. CASE r \in f.recs
  <2>1. r.lsn <= durable_lsn /\ r.lsn \in Nat
    BY <1>1, <1>7, EndType DEF EndsAt
  <2>2. durable_lsn + 1 <= s.lsn
    BY <1>5, <1>6 DEF Chained
  <2> QED BY <1>0, <1>4, <2>1, <2>2
<1>8. CASE r \in B
  <2>1. PICK q \in Staged(pos, k) : r = Moved(q, pos, write_offset)
    BY <1>1, <1>8
  <2>2. q \in R /\ q \in Record /\ End(q) <= k
    BY <1>0 DEF Staged, TypeOK
  <2>3. r.lsn = q.lsn /\ q.lsn \in Nat /\ End(q) \in Nat /\ q.start \in Nat /\ q.start < End(q)
    BY <2>1, <2>2, EndType DEF Moved, Record
  <2>4. (s.lsn < q.lsn => End(s) <= q.start) /\ (s.lsn = q.lsn => s = q)
    BY <1>5, <1>6, <2>2 DEF Chained
  <2> HIDE DEF R
  <2>5. q.lsn < s.lsn
    BY <1>3, <1>4, <2>2, <2>3, <2>4
  <2> QED BY <1>0, <1>4, <2>3, <2>5
<1> QED BY <1>2, <1>7, <1>8

(* Part or all of the batch reaches the page cache.                         *)
LEMMA WriteStore ==
    ASSUME TypeInv, Inv, Live, pc = "commit", NEW k \in Nat, NEW t \in BOOLEAN,
           UNCHANGED <<dir, ddir, disk, acked, released>>,
           cache' = [cache EXCEPT ![active] =
                        [WriteRecords(@, Batch(pos, k, write_offset)) EXCEPT !.torn = t]],
           t => \E e \in Boundaries : k < e /\ pos <= k
    PROVE  StoreOK' /\ AckedIsDurable'
<1> DEFINE B == Batch(pos, k, write_offset)
           f == disk[active]
           W == WriteRecords(f, B)
<1>0. /\ TypeOK /\ StoreOK /\ released \in Nat /\ active \in dir /\ active \in ddir
      /\ Names = dir /\ \A c \in Names : c <= active
      /\ active \in Lsns /\ f \in File /\ cache \in [Lsns -> File]
      /\ dir \subseteq Lsns /\ durable_lsn \in Nat /\ MaxLsn \in Nat /\ pos \in Nat
      /\ write_offset \in Nat
  BY OthersOnDevice, ConfigAssumption DEF TypeInv, TypeOK, Inv
<1>1. cache[active] = f
  BY DEF Inv, HandleOK, TailOK
<1>2. /\ B \in SUBSET Record /\ Chained(B, durable_lsn + 1, write_offset)
      /\ B = {Moved(r, pos, write_offset) : r \in Staged(pos, k)}
      /\ f.recs \in SUBSET Record
      /\ Chained(f.recs, active, HeaderSize)
      /\ EndsAt(f.recs, active, HeaderSize, durable_lsn, write_offset)
      /\ W.recs = f.recs \cup B
      /\ W.hdr = "ok" /\ ~W.torn
      /\ Chained(f.recs \cup B, active, HeaderSize)
  BY BatchFits
<1>3. W \in File
  BY <1>0, WriteRecordsType
<1>4. /\ cache'[active] = [W EXCEPT !.torn = t]
      /\ \A c \in Names \ {active} : cache'[c] = cache[c]
  BY <1>0, <1>1
<1> HIDE DEF W, B
<1>5. cache'[active].recs = f.recs \cup B /\ cache'[active].hdr = "ok" /\ cache'[active].torn = t
  BY <1>2, <1>3, <1>4 DEF File
<1>6. \A r \in f.recs, s \in B : r.lsn < s.lsn
  <2>1. \A r \in f.recs \cup B : r.lsn \in Nat
    BY <1>2, EndType
  <2>2. (\A r \in f.recs : r.lsn <= durable_lsn) /\ (\A s \in B : durable_lsn + 1 <= s.lsn)
    BY <1>2 DEF EndsAt, Chained
  <2> QED BY <1>0, <2>1, <2>2
<1>7. t => \A r \in f.recs \cup B : r.lsn < MaxLsn
  <2>1. SUFFICES ASSUME t PROVE \A r \in f.recs \cup B : r.lsn < MaxLsn
    OBVIOUS
  <2>2. PICK e \in Boundaries : k < e /\ pos <= k
    BY <2>1
  <2>3. StagingOK /\ RunLast(f, active) = durable_lsn /\ RunEnd(f, active) = write_offset
    BY DEF Inv, HandleOK, TailOK
  <2> HIDE DEF f
  <2> QED BY <1>0, <1>2, <2>2, <2>3, LsnLeft DEF B
<1>8. ASSUME NEW a \in Lsns, a = active PROVE FileOK(a)'
  <2>1. /\ cache'[a].recs = f.recs \cup B /\ cache'[a].hdr = "ok" /\ cache'[a].torn = t
        /\ disk'[a] = f /\ a \in ddir'
    BY <1>0, <1>5, <1>8
  <2>2. f.hdr = "ok" /\ ~f.torn
    BY DEF Inv, HandleOK, TailOK
  <2>3. Chained(f.recs, a, HeaderSize) /\ Chained(f.recs \cup B, a, HeaderSize)
    BY <1>2, <1>8
  <2> HIDE DEF f
  <2> QED BY <1>6, <1>7, <2>1, <2>2, <2>3 DEF FileOK
<1>9. StoreOK'
  BY <1>0, <1>4, <1>8, StoreNewest
<1>10. AckedIsDurable'
  BY <1>0, <1>9, AckedKept DEF Inv
<1> QED BY <1>9, <1>10

(* The batch is in the page cache and waits for its sync.                   *)
LEMMA CommitWriteSafe ==
    ASSUME TypeInv, Inv, CommitWrite
    PROVE  Inv'
<1>0. /\ TypeOK /\ pc = "commit" /\ IsOpen /\ ~poisoned /\ Live
      /\ cache \in [Lsns -> File] /\ active \in Lsns /\ pos \in Nat
  BY OthersOnDevice DEF TypeInv, TypeOK, CommitWrite, Inv, Live, HandleOK, OpenOK
<1>1. /\ UNCHANGED <<dir, ddir, disk, segVars, lsnVars, staging, staging_len, pos, acked,
                     released, err, poisoned>>
      /\ pc' = "sync"
  BY DEF CommitWrite, ghostVars
<1>2. PICK e \in Boundaries :
        /\ e > pos /\ scan' = e
        /\ cache' = [cache EXCEPT ![active] = WriteRecords(@, Batch(pos, e, write_offset))]
  BY DEF CommitWrite
<1>3. e \in Nat
  BY EndType DEF Boundaries, TypeInv, TypeOK
<1> DEFINE W == WriteRecords(disk[active], Batch(pos, e, write_offset))
<1>4. cache[active] = disk[active] /\ disk[active] \in File
  BY <1>0 DEF Inv, HandleOK, TailOK, TypeOK
<1>5. cache'[active] = W
  BY <1>0, <1>2, <1>4
<1>6. StoreOK' /\ AckedIsDurable'
  <2>1. ~W.torn /\ W \in File
    <3>1. ~W.torn
      BY <1>0, <1>3, BatchFits
    <3>2. W \in File
      BY <1>0, <1>3, <1>4, WriteRecordsType DEF TypeOK
    <3> QED BY <3>1, <3>2
  <2>2. W = [W EXCEPT !.torn = FALSE]
    <3> HIDE DEF W
    <3> QED BY <2>1 DEF File
  <2>3. cache' = [cache EXCEPT ![active] =
                        [WriteRecords(@, Batch(pos, e, write_offset)) EXCEPT !.torn = FALSE]]
    BY <1>2, <1>4, <2>2
  <2>4. UNCHANGED <<dir, ddir, disk, acked, released>>
    BY <1>1
  <2> QED BY <1>0, <1>3, <2>3, <2>4, WriteStore
<1>7. /\ IsOpen' /\ Live' /\ segments' = segments /\ active' = active
      /\ dir' = dir /\ ddir' = ddir /\ disk' = disk
  BY <1>0, <1>1 DEF IsOpen, Live, segVars
<1>8. StagingOK'
  <2>1. pos' < scan' /\ scan' \in Boundaries'
    BY <1>0, <1>1, <1>2, <1>3 DEF Boundaries
  <2> QED BY <1>0, <1>1, <1>7, <2>1 DEF Inv, HandleOK, StagingOK, lsnVars
<1>9. DirectoryOK'
  BY <1>0, <1>1, <1>7 DEF Inv, HandleOK, DirectoryOK, CreateSteps, segVars
<1>10. TailOK'
  <2>1. Batch(pos, e, write_offset) = Batch(pos, scan, write_offset)'
    BY <1>1, <1>2 DEF Batch, Staged, segVars
  <2>2. cache'[active'] = WriteRecords(disk[active], Batch(pos, scan, write_offset))'
    BY <1>5, <1>7, <2>1 DEF WriteRecords
  <2> QED BY <1>0, <1>1, <1>7, <2>2 DEF Inv, HandleOK, TailOK, CreateSteps, segVars, lsnVars
<1>11. CreateOK' /\ OpenOK'
  BY <1>0, <1>1, <1>7 DEF CreateOK, OpenOK, CreateSteps
<1> QED BY <1>1, <1>6, <1>8, <1>9, <1>10, <1>11 DEF Inv, NoError, HandleOK

(* A write that stops part-way leaves a shorter chain, perhaps torn.        *)
LEMMA CommitWriteFaultSafe ==
    ASSUME TypeInv, Inv, CommitWriteFault
    PROVE  Inv'
<1>0. /\ TypeOK /\ pc = "commit" /\ IsOpen /\ ~poisoned /\ Live /\ pos \in Nat
  BY DEF TypeInv, TypeOK, CommitWriteFault, Inv, Live, HandleOK, OpenOK
<1>1. UNCHANGED <<dir, ddir, disk, acked, released, err>>
  BY DEF CommitWriteFault, Poison, ghostVars
<1>2. PICK e \in Boundaries, k \in {pos} \cup Boundaries, t \in BOOLEAN :
        /\ pos <= k /\ k < e
        /\ cache' = [cache EXCEPT ![active] =
                        [WriteRecords(@, Batch(pos, k, write_offset)) EXCEPT !.torn = t]]
  BY DEF CommitWriteFault
<1>3. k \in Nat
  BY <1>0, EndType DEF Boundaries, TypeOK
<1>4. StoreOK' /\ AckedIsDurable'
  BY <1>0, <1>1, <1>2, <1>3, WriteStore
<1>5. HandleOK'
  <2>1. CASE Poison
    BY <1>0, <2>1, PoisonedOK
  <2>2. CASE pc' = "closed" /\ NoHandle
    BY <2>2, GoneOK
  <2> QED BY <2>1, <2>2 DEF CommitWriteFault
<1> QED BY <1>1, <1>4, <1>5 DEF Inv, NoError

(* The last record of a batch, and the records behind it.                   *)
LEMMA LastStaged ==
    ASSUME TypeOK, StagingOK, Live, NEW e \in Nat, pos < e, NEW r \in staging, End(r) = e
    PROVE  /\ r \in Staged(pos, e) /\ r.start >= pos
           /\ Chained({s \in staging : s.start >= e}, r.lsn + 1, e)
           /\ \A s \in staging : s.start < e => End(s) <= e
           /\ \A s \in staging : End(s) = e => s = r
<1> DEFINE R == {s \in staging : s.start >= pos}
<1>0. /\ pos \in Nat /\ durable_lsn \in Nat /\ durable_lsn + 1 \in Int
      /\ staging \in SUBSET Record /\ pos < e
      /\ Chained(R, durable_lsn + 1, pos)
      /\ \A s \in staging : s.start < pos => End(s) <= pos
  BY DEF TypeOK, StagingOK
<1>1. \A s \in staging : /\ s \in Record /\ s.start \in Nat /\ End(s) \in Nat
                         /\ s.start < End(s) /\ s.lsn \in Nat
  BY <1>0, EndType
<1>2. r \in R /\ r \in Staged(pos, e)
  BY <1>0, <1>1 DEF Staged
<1>3. R \in SUBSET Record /\ R \subseteq staging
  BY <1>0
<1>4. \A s \in staging : s \notin R => End(s) <= pos
  BY <1>0, <1>1
<1>5. {s \in staging : s.start >= e} = {s \in R : s.start >= End(r)}
  BY <1>0, <1>1
<1>6. /\ Chained({s \in R : s.start >= End(r)}, r.lsn + 1, End(r))
      /\ \A s \in R : s.start < End(r) => End(s) <= End(r)
      /\ \A s \in R : End(s) = End(r) => s = r
  <2>1. durable_lsn + 1 \in Int /\ pos \in Int /\ Chained(R, durable_lsn + 1, pos) /\ r \in R
    BY <1>0, <1>2
  <2> HIDE DEF R
  <2> QED BY ONLY <1>3, <2>1, ChainSuffix
<1>7. /\ \A s \in staging : s.start < e => End(s) <= e
      /\ \A s \in staging : End(s) = e => s = r
  <2> HIDE DEF R
  <2> QED BY <1>0, <1>1, <1>4, <1>6
<1> QED BY <1>2, <1>5, <1>6, <1>7

(* Behind it ends the segment the batch is written to.                      *)
LEMMA LastWritten ==
    ASSUME TypeOK, StagingOK, Live, active \in Lsns, NEW f \in File,
           Chained(f.recs, active, HeaderSize),
           RunLast(f, active) = durable_lsn, RunEnd(f, active) = write_offset,
           NEW e \in Nat, pos < e, NEW r \in staging, End(r) = e
    PROVE  EndsAt(f.recs \cup Batch(pos, e, write_offset), active, HeaderSize, r.lsn,
                  write_offset + (e - pos))
<1> DEFINE R == {s \in staging : s.start >= pos}
           B == Batch(pos, e, write_offset)
<1>0. /\ pos \in Nat /\ e \in Nat /\ write_offset \in Nat /\ durable_lsn \in Nat
      /\ staging \in SUBSET Record /\ pos < e
      /\ Chained(R, durable_lsn + 1, pos)
  BY DEF TypeOK, StagingOK
<1>1. \A s \in staging : /\ s \in Record /\ s.start \in Nat /\ End(s) \in Nat
                         /\ s.start < End(s) /\ s.lsn \in Nat
  BY <1>0, EndType
<1>2. r \in R /\ r \in Staged(pos, e)
  BY LastStaged
<1>8. EndsAt(f.recs \cup B, active, HeaderSize, r.lsn, write_offset + (e - pos))
  <2>1. /\ B = {Moved(s, pos, write_offset) : s \in Staged(pos, e)}
        /\ EndsAt(f.recs, active, HeaderSize, durable_lsn, write_offset)
        /\ f.recs \in SUBSET Record
    BY <1>0, BatchBehind
  <2>2. ASSUME NEW s \in Staged(pos, e)
        PROVE  /\ Moved(s, pos, write_offset).lsn = s.lsn
               /\ End(Moved(s, pos, write_offset)) = write_offset + (End(s) - pos)
               /\ s \in R /\ End(s) <= e
    <3>1. s \in Record /\ s.start >= pos /\ End(s) <= e /\ s \in staging
      BY <1>0 DEF Staged
    <3>2. Framed[s.pay] \in Nat
      BY <3>1, ConfigAssumption DEF Record
    <3> QED BY <1>0, <1>1, <3>1, <3>2 DEF Moved, Record, End
  <2>3. ASSUME NEW m \in B PROVE m.lsn <= r.lsn /\ End(m) <= write_offset + (e - pos)
    <3>1. PICK s \in Staged(pos, e) : m = Moved(s, pos, write_offset)
      BY <2>1
    <3>2. s \in R /\ End(s) <= e /\ m.lsn = s.lsn /\ End(m) = write_offset + (End(s) - pos)
      BY <2>2, <3>1
    <3>3. r.lsn < s.lsn => End(r) <= s.start
      BY <1>0, <1>2, <3>2 DEF Chained
    <3>4. s \in staging
      BY <3>2
    <3> HIDE DEF R
    <3> QED BY <1>0, <1>1, <3>2, <3>3, <3>4
  <2>4. ASSUME NEW m \in f.recs PROVE m.lsn <= r.lsn /\ End(m) <= write_offset + (e - pos)
    <3>1. m.lsn <= durable_lsn /\ End(m) <= write_offset /\ m.lsn \in Nat /\ End(m) \in Nat
      BY <2>1, EndType DEF EndsAt
    <3>2. durable_lsn + 1 <= r.lsn
      BY <1>0, <1>2 DEF Chained
    <3> QED BY <1>0, <1>1, <3>1, <3>2
  <2>5. \E m \in B : m.lsn = r.lsn /\ End(m) = write_offset + (e - pos)
    <3>1. Moved(r, pos, write_offset) \in B
      BY <1>2, <2>1
    <3> HIDE DEF B
    <3> QED BY <1>2, <2>2, <3>1
  <2> HIDE DEF B
  <2> QED BY <2>3, <2>4, <2>5 DEF EndsAt
<1> QED BY <1>8

(* The last record of the synced batch.                                     *)
LEMMA LastSynced ==
    ASSUME TypeInv, Inv, Live, pc = "sync", NEW r \in staging, End(r) = scan
    PROVE  LET R == {s \in staging : s.start >= pos}
               B == Batch(pos, scan, write_offset) IN
           /\ r \in R /\ r \in Staged(pos, scan)
           /\ Chained({s \in staging : s.start >= scan}, r.lsn + 1, scan)
           /\ \A s \in staging : s.start < scan => End(s) <= scan
           /\ \A s \in staging : End(s) = scan => s = r
           /\ EndsAt(disk[active].recs \cup B, active, HeaderSize, r.lsn,
                     write_offset + (scan - pos))
<1>1. TypeOK /\ StagingOK /\ active \in Lsns /\ disk[active] \in File /\ active \in Names
  BY OthersOnDevice DEF TypeInv, Inv, HandleOK
<1>2. Chained(disk[active].recs, active, HeaderSize)
  BY <1>1 DEF Inv, StoreOK, FilesOK, FileOK
<1>3. RunLast(disk[active], active) = durable_lsn /\ RunEnd(disk[active], active) = write_offset
  BY DEF Inv, HandleOK, TailOK
<1>4. scan \in Nat /\ pos < scan
  BY <1>1 DEF TypeOK, StagingOK
<1> QED BY <1>1, <1>2, <1>3, <1>4, LastStaged, LastWritten

(* After a sync the buffer goes on behind the written records, and a roll   *)
(* behind the last of them.                                                 *)
LEMMA SyncStaging ==
    ASSUME TypeOK, StagingOK, Live, Live', CommitSync,
           NEW r \in staging, End(r) = scan, durable_lsn' = r.lsn,
           Chained({s \in staging : s.start >= scan}, r.lsn + 1, scan),
           \A s \in staging : s.start < scan => End(s) <= scan,
           \A s \in staging : End(s) = scan => s = r
    PROVE  /\ pc' \in {"idle", "create"}
           /\ pc' = "create" => target' = durable_lsn' + 1
           /\ StagingOK'
<1>0. scan \in Nat /\ staging \in SUBSET Record
  BY DEF TypeOK
<1>1. last_lsn' = last_lsn
  BY DEF CommitSync
<1>12. /\ pc' \in {"idle", "create"}
       /\ pc' = "idle" => /\ scan = staging_len /\ staging' = {} /\ staging_len' = 0 /\ pos' = 0
       /\ pc' = "create" => /\ UNCHANGED <<staging, staging_len>> /\ pos' = scan
                            /\ \E s \in staging : s.start = scan /\ target' = s.lsn
  BY DEF CommitSync, FirstUnwritten
<1>14. pc' = "create" => target' = durable_lsn' + 1
  <2>1. SUFFICES ASSUME pc' = "create" PROVE target' = r.lsn + 1
    OBVIOUS
  <2>2. PICK s \in staging : s.start = scan /\ target' = s.lsn
    BY <1>12, <2>1
  <2> DEFINE Q == {q \in staging : q.start >= scan}
  <2>3. s \in Q /\ Q \in SUBSET Record /\ Chained(Q, r.lsn + 1, scan)
    BY <1>0, <2>2
  <2> HIDE DEF Q
  <2> QED BY <1>0, <2>2, <2>3, ChainHead
<1>16. StagingOK'
  <2>0. /\ \A s \in staging : Framed[s.pay] <= MaxFramed
        /\ \A s \in staging : End(s) <= staging_len /\ s.lsn <= last_lsn
        /\ staging # {} => \E s \in staging : End(s) = staging_len /\ s.lsn = last_lsn
    BY <1>0 DEF StagingOK
  <2>1. CASE pc' = "idle"
    <3>1. last_lsn' = durable_lsn'
      BY <1>1, <1>12, <2>0, <2>1
    <3> QED BY <1>12, <2>1, <3>1 DEF StagingOK, Chained
  <2>2. CASE pc' = "create"
    <3>1. /\ staging' = staging /\ staging_len' = staging_len /\ pos' = scan /\ last_lsn' = last_lsn
          /\ durable_lsn' = r.lsn /\ staging # {}
      BY <1>1, <1>12, <2>2
    <3>2. /\ \A s \in staging' : Framed[s.pay] <= MaxFramed
          /\ \A s \in staging' : End(s) <= staging_len' /\ s.lsn <= last_lsn'
          /\ Chained({s \in staging' : s.start >= pos'}, durable_lsn' + 1, pos')
          /\ \A s \in staging' : s.start < pos' => End(s) <= pos'
          /\ staging' # {} /\ \E s \in staging' : End(s) = staging_len' /\ s.lsn = last_lsn'
      BY <2>0, <3>1
    <3> QED BY <2>2, <3>2 DEF StagingOK
  <2> QED BY <1>12, <2>1, <2>2
<1> QED BY <1>12, <1>14, <1>16

(* The sync makes the batch durable before it is reported.                  *)
LEMMA CommitSyncSafe ==
    ASSUME TypeInv, TypeInv', Inv, CommitSync
    PROVE  Inv'
<1>0. /\ TypeOK /\ StoreOK /\ pc = "sync" /\ IsOpen /\ ~poisoned /\ Live
      /\ released \in Nat /\ scan \in Nat /\ pos \in Nat /\ pos < scan /\ write_offset \in Nat
      /\ staging \in SUBSET Record
  BY DEF TypeInv, TypeOK, CommitSync, Inv, Live, HandleOK, OpenOK, StagingOK
<1>1. /\ UNCHANGED <<dir, ddir, cache, segments, active, oldest_lsn, last_lsn, poisoned, err,
                     released>>
      /\ disk' = [disk EXCEPT ![active] = cache[active]]
      /\ write_offset' = write_offset + (scan - pos)
      /\ acked' \subseteq acked \cup Contents(Staged(pos, scan)) \cup Stored(dir, cache)
  BY DEF CommitSync, sync_data_fully, Report
<1>2. PICK r \in staging : End(r) = scan /\ durable_lsn' = r.lsn
  BY DEF CommitSync
<1> DEFINE B == Batch(pos, scan, write_offset)
           f == disk[active]
           R == {s \in staging : s.start >= pos}
<1>3. /\ active \in dir /\ dir = ddir /\ Names = dir /\ \A c \in Names : c <= active
      /\ \A b \in dir : b # active => disk[b] = cache[b]
      /\ active \in Lsns /\ cache[active] \in File /\ f \in File
  BY <1>0, OthersOnDevice
<1>4. /\ disk'[active] = cache[active]
      /\ \A b \in dir : disk'[b] = cache[b]
      /\ \A c \in Names \ {active} : disk'[c] = disk[c]
  BY <1>0, <1>1, <1>3 DEF TypeOK
<1>5. /\ cache[active].recs = f.recs \cup B /\ cache[active].hdr = "ok" /\ ~cache[active].torn
      /\ Chained(f.recs \cup B, active, HeaderSize)
      /\ B = {Moved(s, pos, write_offset) : s \in Staged(pos, scan)}
  <2>1. cache[active] = WriteRecords(f, B)
    BY <1>0 DEF Inv, HandleOK, TailOK
  <2> QED BY <1>0, <2>1, BatchFits
<1>6. /\ r \in Staged(pos, scan)
      /\ Chained({s \in staging : s.start >= scan}, r.lsn + 1, scan)
      /\ \A s \in staging : s.start < scan => End(s) <= scan
      /\ \A s \in staging : End(s) = scan => s = r
      /\ EndsAt(f.recs \cup B, active, HeaderSize, r.lsn, write_offset + (scan - pos))
  BY <1>0, <1>2, LastSynced
<1> HIDE DEF B, f
<1>7. RunLast(cache[active], active) = r.lsn
      /\ RunEnd(cache[active], active) = write_offset + (scan - pos)
  <2>1. r.lsn \in Int /\ write_offset + (scan - pos) \in Int
    BY <1>0, EndType
  <2> DEFINE g == cache[active]
             e == write_offset + (scan - pos)
  <2>2. g \in File /\ Chained(g.recs, active, HeaderSize)
        /\ EndsAt(g.recs, active, HeaderSize, r.lsn, e)
    BY <1>3, <1>5, <1>6
  <2> HIDE DEF g, e
  <2>3. RunLast(g, active) = r.lsn /\ RunEnd(g, active) = e
    BY <1>3, <2>1, <2>2, EndUnique DEF e
  <2> QED BY <2>3 DEF g, e
<1>8. ASSUME NEW a \in Lsns, a = active PROVE FileOK(a)'
  <2>1. disk'[a] = cache[a] /\ cache'[a] = cache[a] /\ a \in ddir'
    BY <1>1, <1>3, <1>4, <1>8
  <2>2. Chained(cache[a].recs, a, HeaderSize) /\ cache[a].hdr = "ok" /\ ~cache[a].torn
    BY <1>5, <1>8
  <2> QED BY <2>1, <2>2 DEF FileOK
<1>9. StoreOK'
  BY <1>0, <1>1, <1>3, <1>4, <1>8, StoreNewest
<1>10. AckedIsDurable'
  <2>1. dir' \cap ddir' = dir /\ Stored(dir' \cap ddir', disk') = Stored(dir, cache)
    <3>1. dir' \cap ddir' = dir
      BY <1>1, <1>3
    <3>2. \A b \in dir : disk'[b] = cache[b]
      BY <1>4
    <3>3. Stored(dir, disk') = Stored(dir, cache)
      BY <3>2 DEF Stored
    <3> QED BY <3>1, <3>3
  <2>2. Contents(Staged(pos, scan)) \subseteq Stored(dir, cache)
    <3>1. SUFFICES ASSUME NEW s \in Staged(pos, scan)
                   PROVE  [lsn |-> s.lsn, pay |-> s.pay] \in Stored(dir, cache)
      BY DEF Contents
    <3>2. Moved(s, pos, write_offset) \in cache[active].recs
      BY <1>5
    <3>3. s \in Record
      BY <1>0 DEF Staged
    <3>4. Moved(s, pos, write_offset).lsn = s.lsn /\ Moved(s, pos, write_offset).pay = s.pay
      BY <3>3 DEF Moved, Record
    <3>5. \A b \in dir : Chained(cache[b].recs, b, HeaderSize)
      BY <1>0, <1>3 DEF StoreOK, FilesOK, FileOK
    <3>6. \E m \in cache[active].recs : [lsn |-> s.lsn, pay |-> s.pay] = [lsn |-> m.lsn, pay |-> m.pay]
      BY <3>2, <3>4
    <3> QED BY <1>3, <1>5, <3>5, <3>6, StoredChained
  <2>3. ASSUME NEW x \in acked, x.lsn > released' PROVE x \in Stored(dir' \cap ddir', disk')
    <3>1. ASSUME NEW b \in dir \cap ddir, NEW m \in disk[b].recs
          PROVE  b \in dir' \cap ddir' /\ m \in disk'[b].recs
                 /\ (disk[b].hdr = "ok" => disk'[b].hdr = "ok")
      <4>1. CASE b = active
        BY <1>1, <1>3, <1>4, <1>5, <4>1 DEF f
      <4>2. CASE b # active
        BY <1>1, <1>3, <1>4, <4>2
      <4> QED BY <4>1, <4>2
    <3>2. released' \in Nat /\ released <= released'
      BY <1>0, <1>1
    <3> QED BY <1>0, <1>9, <2>3, <3>1, <3>2, StoredKept DEF Inv
  <2> QED BY <1>1, <2>1, <2>2, <2>3 DEF AckedIsDurable
<1>11. /\ IsOpen' /\ Live' /\ segments' = segments /\ active' = active
  BY <1>0, <1>1 DEF IsOpen, Live
<1>12. /\ pc' \in {"idle", "create"} /\ StagingOK'
       /\ pc' = "create" => target' = durable_lsn' + 1
  BY <1>0, <1>2, <1>6, <1>11, SyncStaging DEF Inv, HandleOK
<1>13. DirectoryOK'
  BY <1>0, <1>1, <1>11, <1>12 DEF Inv, HandleOK, DirectoryOK, CreateSteps
<1>15. TailOK'
  <2>1. disk'[active'] = cache[active] /\ cache'[active'] = cache[active]
    BY <1>1, <1>4
  <2>2. cache[active].recs # {}
    BY <1>5, <1>6
  <2>3. /\ RunLast(disk'[active'], active') = durable_lsn'
        /\ RunEnd(disk'[active'], active') = write_offset'
    BY <1>1, <1>2, <1>7, <2>1
  <2>4. /\ RunLast(disk[active], active)' = durable_lsn'
        /\ RunEnd(disk[active], active)' = write_offset'
    BY <2>3
  <2>5. /\ disk'[active'].hdr = "ok" /\ ~disk'[active'].torn /\ disk'[active'].recs # {}
        /\ disk'[active'] = cache'[active'] /\ pc' # "sync"
        /\ pc' \in CreateSteps => target' = durable_lsn' + 1
    BY <1>5, <1>12, <2>1, <2>2 DEF CreateSteps
  <2> QED BY <2>4, <2>5 DEF TailOK
<1>17. CreateOK' /\ OpenOK'
  BY <1>0, <1>1, <1>11, <1>12 DEF CreateOK, OpenOK, CreateSteps
<1> QED BY <1>1, <1>9, <1>10, <1>12, <1>13, <1>15, <1>17 DEF Inv, NoError, HandleOK

-----------------------------------------------------------------------------
(* The environment.                                                         *)

(* Writeback brings the device up to the page cache.                        *)
LEMMA WritebackSafe ==
    ASSUME TypeInv, Inv, Writeback
    PROVE  Inv'
<1>0. /\ TypeOK /\ StoreOK /\ pc = "closed" /\ ~IsOpen /\ ~poisoned /\ released \in Nat
      /\ dir \subseteq Names /\ dir \subseteq Nat
  BY NamesType DEF TypeInv, TypeOK, Writeback, Inv, HandleOK, OpenOK, Names, Lsns
<1>1. /\ UNCHANGED <<dir, cache, pc, segments, poisoned, err, acked, released>>
      /\ ddir' = dir /\ disk' = cache
  BY DEF Writeback, ghostVars, segVars
<1>2. Names' = dir
  BY <1>1 DEF Names
<1>3. ASSUME NEW b \in dir PROVE FileOK(b)'
  <2>1. FileOK(b)
    BY <1>0 DEF StoreOK, FilesOK
  <2> QED BY <1>1, <2>1 DEF FileOK
<1>4. ASSUME NEW b \in dir, NEW c \in dir, b < c
      PROVE  Sealed(b)' /\ \A r \in cache'[b].recs : r.lsn < c
  <2>1. Sealed(b) /\ \A r \in cache[b].recs : r.lsn < c
    BY <1>0, <1>4 DEF StoreOK, SealedOK
  <2>2. \E r \in cache[b].recs : r.lsn + 1 \in dir
    BY <1>0, <1>4, SealedInDir
  <2> QED BY <1>1, <1>2, <2>1, <2>2 DEF Sealed
<1>5. StoreOK'
  BY <1>1, <1>2, <1>3, <1>4 DEF StoreOK, FilesOK, SealedOK, PendingOK
<1>6. AckedIsDurable'
  <2>1. ASSUME NEW b \in dir \cap ddir, NEW r \in disk[b].recs
        PROVE  b \in dir' \cap ddir' /\ r \in disk'[b].recs /\ disk'[b].hdr = "ok"
    <3>1. FileOK(b)
      BY <1>0 DEF StoreOK, FilesOK
    <3> QED BY <1>1, <3>1 DEF FileOK
  <2> QED BY <1>0, <1>1, <1>5, <2>1, AckedKept DEF Inv
<1>7. ~IsOpen' /\ ~Live' /\ pc' = "closed" /\ ~poisoned'
  BY <1>0, <1>1 DEF IsOpen, Live
<1>8. HandleOK'
  BY <1>7 DEF HandleOK, CreateOK, OpenOK, DirectoryOK, TailOK, StagingOK, CreateSteps
<1> QED BY <1>1, <1>5, <1>6, <1>8 DEF Inv, NoError

(* What a power loss leaves of a file: at least what the device had, and a  *)
(* chain again.  A torn tail is part of a record the cache had.             *)
LEMMA SurvivorOK ==
    ASSUME NEW b \in Lsns, NEW d \in File, NEW c \in File, NEW g \in SurvivingFiles(d, c),
           Chained(c.recs, b, HeaderSize), Chained(d.recs, b, HeaderSize),
           d.recs \subseteq c.recs,
           \A r \in c.recs \ d.recs, s \in d.recs : s.lsn < r.lsn,
           c.recs # {} => c.hdr = "ok" /\ d.hdr = "ok",
           d.torn \/ c.torn => \A r \in c.recs : r.lsn < MaxLsn
    PROVE  /\ d.recs \subseteq g.recs /\ g.recs \subseteq c.recs
           /\ Chained(g.recs, b, HeaderSize)
           /\ c.recs # {} => g.hdr = "ok"
           /\ g.torn => \A r \in g.recs : r.lsn < MaxLsn
<1>1. PICK k \in {HeaderSize} \cup {End(r) : r \in c.recs} : g.recs = Mixed(d, c, k)
  BY DEF SurvivingFiles
<1>2. /\ g.hdr \in (IF d.hdr = c.hdr THEN {c.hdr} ELSE {d.hdr, "zero", c.hdr})
      /\ g.torn => (d.torn \/ c.torn \/ ~(c.recs \subseteq g.recs))
  BY DEF SurvivingFiles
<1>3. /\ c.recs \in SUBSET Record /\ d.recs \in SUBSET Record /\ HeaderSize \in Int
      /\ b \in Int /\ MaxLsn \in Nat
  BY ConfigAssumption DEF File, Lsns
<1>4. \A r \in c.recs : /\ r.start \in Nat /\ End(r) \in Nat /\ r.start < End(r)
                        /\ r.lsn \in Nat /\ r.lsn <= MaxLsn
  BY <1>3, EndType DEF Lsns
<1>5. k \in Int
  BY <1>3, <1>4
<1>6. \A r \in c.recs : r.start < k => End(r) <= k
  <2>1. CASE k = HeaderSize
    BY <1>3, <1>4, <2>1 DEF Chained
  <2>2. CASE k \in {End(r) : r \in c.recs}
    <3>1. PICK t \in c.recs : k = End(t)
      BY <2>2
    <3> QED BY <1>3, <3>1, ChainSuffix
  <2> QED BY <2>1, <2>2
<1> DEFINE P == {r \in c.recs : End(r) <= k}
<1>7. g.recs = P \cup d.recs
  <2>1. \A r \in d.recs : r.start >= k \/ r \in P
    BY <1>4, <1>5, <1>6
  <2> QED BY <1>1, <2>1 DEF Mixed
<1>8. Chained(P, b, HeaderSize)
  BY <1>3, <1>5, ChainPrefix
<1>9. Chained(P \cup d.recs, b, HeaderSize)
  <2>1. P \cup d.recs \subseteq c.recs
    OBVIOUS
  <2>2. ASSUME NEW r \in P \cup d.recs
        PROVE  \/ r.lsn = b /\ r.start = HeaderSize
               \/ \E q \in P \cup d.recs : End(q) = r.start /\ r.lsn = q.lsn + 1
    <3>1. CASE r \in P
      <4> HIDE DEF P
      <4> QED BY <1>8, <3>1 DEF Chained
    <3>2. CASE r \in d.recs
      BY <3>2 DEF Chained
    <3> QED BY <3>1, <3>2
  <2> HIDE DEF P
  <2> QED BY <2>1, <2>2 DEF Chained
<1>10. ASSUME g.torn, NEW r \in g.recs PROVE r.lsn < MaxLsn
  <2>1. CASE d.torn \/ c.torn
    BY <1>7, <2>1
  <2>2. CASE ~(c.recs \subseteq g.recs)
    <3>1. PICK q \in c.recs : q \notin g.recs
      BY <2>2
    <3>2. q \notin d.recs /\ k < End(q)
      BY <1>4, <1>5, <1>7, <3>1
    <3>3. CASE r \in d.recs
      <4>1. r.lsn < q.lsn /\ r \in c.recs
        BY <3>1, <3>2, <3>3
      <4> QED BY <1>3, <1>4, <3>1, <4>1
    <3>4. CASE r \in P
      <4>1. r \in c.recs /\ End(r) <= k
        BY <3>4
      <4>2. (q.lsn < r.lsn => End(q) <= r.start) /\ (q.lsn = r.lsn => q = r)
        BY <3>1, <4>1 DEF Chained
      <4>3. r.lsn < q.lsn
        BY <1>4, <1>5, <3>1, <3>2, <4>1, <4>2
      <4> QED BY <1>3, <1>4, <3>1, <4>1, <4>3
    <3> QED BY <1>7, <3>3, <3>4
  <2> QED BY <1>2, <1>10, <2>1, <2>2
<1> QED BY <1>2, <1>7, <1>9, <1>10

(* Unlinks persist oldest first, so the names that survive have no hole.    *)
LEMMA SurvivingSuccessor ==
    ASSUME TypeOK, StoreOK, OrderedUnlink, NEW S \in SUBSET Names, SurvivingNames(S),
           NEW b \in S, NEW c \in S, b < c
    PROVE  \E r \in cache[b].recs : r.lsn + 1 \in S
<1>0. Names \subseteq Nat /\ Names \subseteq Lsns
  BY NamesType
<1>1. Sealed(b) /\ \A r \in cache[b].recs : r.lsn < c
  BY DEF StoreOK, SealedOK
<1>2. PICK r \in cache[b].recs : r.lsn + 1 \in Names
  BY <1>1 DEF Sealed
<1> DEFINE n == r.lsn + 1
<1>3. r.lsn \in Nat /\ b <= r.lsn /\ r.lsn < c
  BY <1>0, <1>1, NamesType, EndType DEF StoreOK, FilesOK, FileOK, Chained
<1>4. n \in Names /\ b < n /\ n <= c /\ b \in Nat /\ c \in Nat /\ n \in Nat
  <2>1. b \in Nat /\ c \in Nat
    BY <1>0
  <2> QED BY <1>2, <1>3, <2>1
<1> HIDE DEF n
<1>5. SUFFICES ASSUME n \notin S PROVE FALSE
  BY <1>2 DEF n
<1>6. n < c
  BY <1>4, <1>5
<1>7. CASE n \in dir \ ddir
  <2>1. c <= n
    BY <1>7 DEF StoreOK, PendingOK
  <2> QED BY <1>4, <1>6, <2>1
<1>8. CASE n \in ddir \ dir
  <2>1. CASE \A x \in dir : n < x
    <3>1. b \notin dir
      BY <1>4, <2>1
    <3>2. b \in ddir \ dir
      BY <3>1 DEF Names
    <3> QED BY <1>4, <1>5, <1>8, <3>2 DEF SurvivingNames
  <2>2. CASE cache[n].recs = {}
    BY <1>4, <1>6, <2>2 DEF StoreOK, SealedOK, Sealed
  <2> QED BY <1>8, <2>1, <2>2 DEF StoreOK, PendingOK
<1> QED BY <1>4, <1>5, <1>7, <1>8 DEF Names, SurvivingNames

(* What a power loss leaves: some of the names, and of each file at least   *)
(* what the device had and at most what the cache had.                      *)
LEMMA PowerLossLeaves ==
    ASSUME TypeInv, Inv, LosePower
    PROVE  \E S \in SUBSET Names :
               /\ SurvivingNames(S) /\ dir' = S /\ ddir' = S /\ cache' = disk'
               /\ \A b \in S :
                    /\ disk[b] = cache[b] => disk'[b] = disk[b]
                    /\ disk[b].recs \subseteq disk'[b].recs /\ disk'[b].recs \subseteq cache[b].recs
                    /\ disk[b].hdr = "ok" /\ cache[b].hdr = "ok" => disk'[b].hdr = "ok"
                    /\ Chained(disk'[b].recs, b, HeaderSize)
                    /\ cache[b].recs # {} => disk'[b].hdr = "ok"
                    /\ disk'[b].torn => \A r \in disk'[b].recs : r.lsn < MaxLsn
<1>0. /\ TypeOK /\ StoreOK /\ cache \in [Lsns -> File] /\ disk \in [Lsns -> File]
  BY DEF TypeInv, TypeOK, Inv
<1>1. PICK S \in SUBSET (dir \cup ddir) :
        /\ SurvivingNames(S) /\ dir' = S /\ ddir' = S
        /\ LET Dirty == {b \in S : disk[b] # cache[b]} IN
           \E f \in [Dirty -> UNION {SurvivingFiles(disk[b], cache[b]) : b \in Dirty}] :
              /\ \A b \in Dirty : f[b] \in SurvivingFiles(disk[b], cache[b])
              /\ disk' = [b \in Lsns |-> IF b \in Dirty THEN f[b] ELSE disk[b]]
              /\ cache' = disk'
  BY DEF LosePower
<1>2. S \in SUBSET Names /\ S \subseteq Lsns
  BY <1>0, <1>1, NamesType DEF Names
<1>3. cache' = disk'
  BY <1>1
<1> DEFINE Dirty == {b \in S : disk[b] # cache[b]}
<1>4. PICK f : /\ \A b \in Dirty : f[b] \in SurvivingFiles(disk[b], cache[b])
               /\ disk' = [b \in Lsns |-> IF b \in Dirty THEN f[b] ELSE disk[b]]
  BY <1>1
<1>5. ASSUME NEW b \in S
      PROVE  /\ disk[b] # cache[b] => disk'[b] \in SurvivingFiles(disk[b], cache[b])
             /\ disk[b] = cache[b] => disk'[b] = disk[b]
  <2>1. disk'[b] = IF b \in Dirty THEN f[b] ELSE disk[b]
    BY <1>2, <1>4
  <2> QED BY <1>4, <2>1
<1>6. ASSUME NEW b \in S
      PROVE  /\ disk[b].recs \subseteq disk'[b].recs /\ disk'[b].recs \subseteq cache[b].recs
             /\ disk[b].hdr = "ok" /\ cache[b].hdr = "ok" => disk'[b].hdr = "ok"
             /\ Chained(disk'[b].recs, b, HeaderSize)
             /\ cache[b].recs # {} => disk'[b].hdr = "ok"
             /\ disk'[b].torn => \A r \in disk'[b].recs : r.lsn < MaxLsn
  <2>1. FileOK(b) /\ b \in Lsns /\ disk[b] \in File /\ cache[b] \in File
    BY <1>0, <1>2 DEF StoreOK, FilesOK
  <2>2. CASE disk[b] # cache[b]
    <3>1. disk'[b].hdr \in (IF disk[b].hdr = cache[b].hdr THEN {cache[b].hdr}
                            ELSE {disk[b].hdr, "zero", cache[b].hdr})
      BY <1>5, <2>2 DEF SurvivingFiles
    <3> QED BY <1>5, <2>1, <2>2, <3>1, SurvivorOK DEF FileOK
  <2>3. CASE disk[b] = cache[b]
    BY <1>5, <2>1, <2>3 DEF FileOK
  <2> QED BY <2>2, <2>3
<1> QED BY <1>1, <1>2, <1>3, <1>5, <1>6

(* A power loss keeps every acknowledged record.                            *)
LEMMA LosePowerSafe ==
    ASSUME TypeInv, Inv, Settling, LosePower
    PROVE  Inv'
<1>0. TypeOK /\ StoreOK /\ released \in Nat /\ OrderedUnlink
  BY DEF TypeInv, TypeOK, Inv, Settling
<1>1. UNCHANGED <<err, acked, released>> /\ pc' = "closed" /\ NoHandle
  BY DEF LosePower, ghostVars
<1>2. PICK S \in SUBSET Names :
        /\ SurvivingNames(S) /\ dir' = S /\ ddir' = S /\ cache' = disk'
        /\ \A b \in S :
             /\ disk[b] = cache[b] => disk'[b] = disk[b]
             /\ disk[b].recs \subseteq disk'[b].recs /\ disk'[b].recs \subseteq cache[b].recs
             /\ Chained(disk'[b].recs, b, HeaderSize)
             /\ cache[b].recs # {} => disk'[b].hdr = "ok"
             /\ disk'[b].torn => \A r \in disk'[b].recs : r.lsn < MaxLsn
  BY PowerLossLeaves
<1>3. Names' = S
  BY <1>2 DEF Names
<1>4. ASSUME NEW b \in S PROVE FileOK(b)'
  BY <1>2 DEF FileOK
<1>5. ASSUME NEW b \in S, NEW c \in S, b < c
      PROVE  Sealed(b)' /\ \A r \in cache'[b].recs : r.lsn < c
  <2>1. Sealed(b) /\ \A r \in cache[b].recs : r.lsn < c
    BY <1>0, <1>5 DEF StoreOK, SealedOK
  <2>2. disk'[b] = cache[b] /\ cache'[b] = cache[b]
    BY <1>2, <2>1 DEF Sealed
  <2>3. \E r \in cache[b].recs : r.lsn + 1 \in S
    BY <1>0, <1>2, <1>5, SurvivingSuccessor
  <2> QED BY <1>3, <2>1, <2>2, <2>3 DEF Sealed
<1>6. StoreOK'
  BY <1>2, <1>3, <1>4, <1>5 DEF StoreOK, FilesOK, SealedOK, PendingOK
<1>7. AckedIsDurable'
  <2>1. ASSUME NEW b \in dir \cap ddir, NEW r \in disk[b].recs
        PROVE  b \in dir' \cap ddir' /\ r \in disk'[b].recs /\ disk'[b].hdr = "ok"
    <3>1. b \in S
      BY <1>2 DEF SurvivingNames
    <3> QED BY <1>2, <3>1
  <2>2. released' \in Nat /\ released <= released' /\ acked' = acked
    BY <1>0, <1>1
  <2> QED BY <1>0, <1>6, <2>1, <2>2, AckedKept DEF Inv
<1>8. HandleOK'
  BY <1>1, GoneOK
<1> QED BY <1>1, <1>6, <1>7, <1>8 DEF Inv, NoError

(* The device of this environment does not corrupt anything.                *)
LEMMA MediaFaultNever ==
    ASSUME TypeInv, Honest, MediaFault
    PROVE  FALSE
BY DEF TypeInv, TypeOK, Honest, MediaFault

-----------------------------------------------------------------------------
(* The durability contract.                                                 *)

(* The invariant is inductive.                                              *)
LEMMA InvNext ==
    ASSUME Settling
    PROVE  TypeInv /\ TypeInv' /\ Inv /\ [Next]_vars /\ ~MediaFault => Inv'
<1> SUFFICES ASSUME TypeInv, TypeInv', Inv, [Next]_vars, ~MediaFault PROVE Inv'
  OBVIOUS
<1>1. CASE Open
  BY <1>1, OpenStartSafe, DiscoverEmptySafe, KeepHighestSafe, RejectHighestNever,
     DiscardHighestSafe, DiscardSyncSafe, RecoverFatalNever, RecoverCleanSafe,
     RecoverTornSafe, ZeroSyncSafe, FaultsSafe
  DEF Open
<1>2. CASE Create
  BY <1>2, CreateNewSafe, HeaderSafe, ColdStartedSafe, RolledSafe, FaultsSafe DEF Create
<1>3. CASE Commit
  BY <1>3, CommitEmptySafe, CommitStartSafe, CommitWriteSafe, CommitWriteFaultSafe,
     CommitSyncSafe, CommitNoFitSafe, FaultsSafe
  DEF Commit
<1>4. CASE Checkpoint
  BY <1>4, CheckpointStartSafe, CheckpointUnlinkSafe, CheckpointSyncSafe, FaultsSafe
  DEF Checkpoint
<1>5. CASE Environment
  BY <1>5, WritebackSafe, LosePowerSafe, FaultsSafe DEF Environment
<1>6. CASE \E p \in Payloads : Append(p)
  BY <1>6, AppendSafe
<1>7. CASE UNCHANGED vars
  <2>1. UNCHANGED <<dir, ddir, cache, disk, pc, target, doomed, segments, active, write_offset,
                    oldest_lsn, last_lsn, durable_lsn, staging, staging_len, pos, scan, poisoned,
                    err, acked, released>>
    BY <1>7 DEF vars, fsVars, segVars, lsnVars, bufVars, ghostVars
  <2>2. Names' = Names /\ Live' = Live /\ IsOpen' = IsOpen
    BY <2>1 DEF Names, Live, IsOpen
  <2>3. StoreOK' /\ AckedIsDurable' /\ NoError'
    BY <2>1, <2>2 DEF Inv, StoreOK, FilesOK, FileOK, SealedOK, Sealed, PendingOK, AckedIsDurable,
                      NoError
  <2>4. CreateOK' /\ OpenOK' /\ DirectoryOK'
    BY <2>1, <2>2 DEF Inv, HandleOK, CreateOK, OpenOK, DirectoryOK, Settled
  <2>5. TailOK' /\ StagingOK'
    BY <2>1, <2>2 DEF Inv, HandleOK, TailOK, StagingOK, Batch, Staged, WriteRecords, Boundaries
  <2> QED BY <2>3, <2>4, <2>5 DEF Inv, HandleOK
<1> QED BY <1>1, <1>2, <1>3, <1>4, <1>5, <1>6, <1>7 DEF Next

LEMMA FaultsCount ==
    ASSUME TypeInv, Next, faults' = 0 PROVE faults = 0 /\ ~MediaFault
<1>1. faults \in Nat
  BY EnvironmentAssumption DEF TypeInv, TypeOK
<1>2. MediaFault => faults' = faults + 1
  BY DEF MediaFault
<1>3. MediaFault \/ faults' = faults
  BY DEF Next, Open, OpenStart, DiscoverEmpty, KeepHighest, RejectHighest, DiscardHighest,
     DiscardSync, RecoverFatal, RecoverClean, RecoverTorn, ZeroSync, OpenFault, Create, CreateNew,
     Allocate, WriteHeader, SyncHeader, ColdStarted, Rolled, CreateFault, Poison, Commit,
     CommitEmpty, CommitStart, CommitWrite, CommitWriteFault, CommitSync, CommitSyncFault,
     CommitNoFit, Checkpoint, CheckpointStart, CheckpointUnlink, CheckpointSync, CheckpointFault,
     Environment, Kill, Writeback, LosePower, Append, ghostVars, mediaVars
<1> QED BY <1>1, <1>2, <1>3

(* The inductive invariant holds until the device corrupts something, for   *)
(* every configuration, in an environment that settles before the log is    *)
(* reopened and unlinks in order.                                           *)
THEOREM CrashSafeUntilFault == Settling => (Spec => [](faults = 0 => Inv))
<1> SUFFICES ASSUME Settling PROVE Spec => [](faults = 0 => Inv)
  OBVIOUS
<1>1. TypeInv /\ (faults = 0 => Inv) /\ [Next]_vars => TypeInv' /\ (faults = 0 => Inv)'
  <2> SUFFICES ASSUME TypeInv, faults = 0 => Inv, [Next]_vars, faults' = 0 PROVE Inv'
    BY TypeNext
  <2>1. TypeInv'
    BY TypeNext
  <2>2. CASE Next
    BY <2>1, <2>2, FaultsCount, InvNext
  <2>3. CASE UNCHANGED vars
    <3>1. faults = 0 /\ ~MediaFault
      <4>1. faults' = faults
        BY <2>3 DEF vars, ghostVars, mediaVars
      <4>2. MediaFault => faults' = faults + 1 /\ faults \in Nat
        BY EnvironmentAssumption DEF MediaFault, TypeInv, TypeOK
      <4> QED BY <4>1, <4>2
    <3> QED BY <2>1, <3>1, InvNext
  <2> QED BY <2>2, <2>3
<1> QED BY InvInit, TypeInit, <1>1, PTL DEF Spec

(* Crash safety of the writer in an environment that settles before the log *)
(* is reopened, unlinks in order and does not corrupt the device.           *)
THEOREM CrashSafe == Honest => (Spec => []Inv)
<1> SUFFICES ASSUME Honest PROVE Spec => []Inv
  OBVIOUS
<1>1. TypeInv => faults = 0
  BY DEF TypeInv, TypeOK, Honest
<1>2. Settling
  BY DEF Honest
<1> QED BY CrashSafeUntilFault, TypeInit, TypeNext, <1>1, <1>2, PTL DEF Spec

(* D1: no crash loses a record that a commit reported as durable.           *)
THEOREM Durability == Honest => (Spec => []AckedIsDurable)
<1>1. Inv => AckedIsDurable
  BY DEF Inv
<1> QED BY CrashSafe, <1>1, PTL

(* D9: no crash leaves a log that open refuses, as long as the device       *)
(* corrupts nothing.                                                        *)
THEOREM AlwaysOpens == Settling => (Spec => []NeverFatal)
<1>1. (faults = 0 => Inv) => NeverFatal
  BY DEF Inv, NoError, NeverFatal
<1> QED BY CrashSafeUntilFault, <1>1, PTL

(* create_new never meets a left-over file.                                 *)
THEOREM CreateIsExclusive == Honest => (Spec => []NoCollision)
<1>1. TypeInv /\ Inv => NoCollision
  <2> SUFFICES ASSUME TypeInv, Inv, pc = "create" PROVE target \notin dir
    BY DEF NoCollision
  <2>1. CASE IsOpen
    <3>1. pc \in CreateSteps
      BY DEF CreateSteps
    <3>2. Live /\ (\A b \in segments : b < target) /\ segments \subseteq Nat
      BY <2>1, <3>1, TargetTop
    <3>3. dir = segments
      BY <3>2 DEF Inv, HandleOK, DirectoryOK
    <3>4. \A n \in Nat : ~(n < n)
      OBVIOUS
    <3> QED BY <3>2, <3>3, <3>4
  <2>2. CASE ~IsOpen
    BY <2>2 DEF Inv, HandleOK, CreateOK, CreateSteps
  <2> QED BY <2>1, <2>2
<1> QED BY CrashSafe, TypeInit, TypeNext, <1>1, PTL DEF Spec

(* Between calls the handle is what a recovery of the files would build.    *)
THEOREM HandleIsCurrent == Honest => (Spec => []HandleMatchesFiles)
<1>1. Inv => HandleMatchesFiles
  BY DEF Inv, HandleOK, DirectoryOK, TailOK, HandleMatchesFiles, Ready, Live
<1> QED BY CrashSafe, <1>1, PTL

(* D12: a segment with a newer one behind it is never written again.        *)
THEOREM SealedNeverChanges == Honest => (Spec => SealedImmutable)
<1> SUFFICES ASSUME Honest PROVE Spec => SealedImmutable
  OBVIOUS
<1>1. ASSUME TypeInv, Inv, Next, NEW b \in dir \cap dir', NEW h \in dir, h > b
      PROVE  cache'[b] = cache[b] /\ disk'[b] = cache[b]
  <2>0. /\ TypeOK /\ disk[b] = cache[b] /\ b \in Lsns /\ b \in Nat /\ h \in Nat
        /\ cache \in [Lsns -> File] /\ disk \in [Lsns -> File]
    <3>1. dir \subseteq Lsns /\ dir \subseteq Nat
      BY <1>1 DEF TypeInv, TypeOK, Lsns
    <3>2. b < h
      BY <1>1, <3>1
    <3> QED BY <1>1, <3>1, <3>2 DEF TypeInv, TypeOK, Inv, StoreOK, SealedOK, Sealed, Names
  <2>1. ASSUME NEW a, Highest(a, dir) PROVE b # a
    BY <1>1, <2>0, <2>1 DEF Highest
  <2>2. CASE UNCHANGED <<cache, disk>>
    BY <2>0, <2>2
  <2>3. CASE RecoverTorn
    <3>1. PICK a \in dir :
            /\ Highest(a, dir) /\ disk' = disk
            /\ cache' = [cache EXCEPT ![a].recs = Run(cache[a], a), ![a].torn = FALSE]
      BY <2>3 DEF RecoverTorn
    <3> QED BY <2>0, <2>1, <3>1
  <2>4. CASE ZeroSync
    BY <2>0, <2>1, <2>4 DEF ZeroSync, sync_data_fully
  <2>5. CASE CreateNew
    BY <2>0, <2>5 DEF CreateNew
  <2>6. CASE Allocate \/ WriteHeader \/ SyncHeader
    <3>1. pc \in CreateSteps \ {"create"} /\ pc \in CreateSteps /\ pc # "create"
      BY <2>6 DEF Allocate, WriteHeader, SyncHeader, CreateSteps
    <3>2. b # target
      <4>1. CASE IsOpen
        <5>1. Live /\ (\A c \in segments : c < target) /\ segments \subseteq Nat
          BY <1>1, <3>1, <4>1, TargetTop
        <5>2. dir = segments \cup {target}
          BY <1>1, <3>1, <5>1 DEF Inv, HandleOK, DirectoryOK
        <5> QED BY <1>1, <2>0, <5>1, <5>2
      <4>2. CASE ~IsOpen
        <5>1. dir = {target}
          BY <1>1, <3>1, <4>2 DEF Inv, HandleOK, CreateOK
        <5> QED BY <1>1, <2>0, <5>1
      <4> QED BY <4>1, <4>2
    <3> QED BY <2>0, <2>6, <3>2 DEF Allocate, WriteHeader, SyncHeader, sync_data_fully
  <2>7. CASE CommitWrite \/ CommitWriteFault \/ CommitSync
    <3>1. Live /\ pc \in {"commit", "sync"}
      BY <1>1, <2>7 DEF CommitWrite, CommitWriteFault, CommitSync, Inv, HandleOK, OpenOK, Live
    <3>2. Highest(active, dir)
      BY <1>1, <3>1, OthersOnDevice DEF Highest
    <3>3. b # active
      BY <2>1, <3>2
    <3> QED BY <2>0, <2>7, <3>3 DEF CommitWrite, CommitWriteFault, CommitSync, sync_data_fully
  <2>8. CASE Writeback
    BY <2>8 DEF Writeback
  <2>9. CASE LosePower
    <3>1. PICK S \in SUBSET (dir \cup ddir) :
            \E f : /\ disk' = [x \in Lsns |-> IF x \in {y \in S : disk[y] # cache[y]}
                                              THEN f[x] ELSE disk[x]]
                   /\ cache' = disk'
      BY <2>9 DEF LosePower
    <3> QED BY <2>0, <3>1
  <2>10. CASE MediaFault
    BY <1>1, <2>10, MediaFaultNever
  <2>11. \/ UNCHANGED <<cache, disk>>
         \/ RecoverTorn \/ ZeroSync \/ CreateNew \/ Allocate \/ WriteHeader \/ SyncHeader
         \/ CommitWrite \/ CommitWriteFault \/ CommitSync
         \/ Writeback \/ LosePower \/ MediaFault
    <3>1. CASE Open
      BY <3>1 DEF Open, OpenStart, DiscoverEmpty, KeepHighest, RejectHighest, DiscardHighest,
                  DiscardSync, RecoverFatal, RecoverClean, OpenFault, fsVars
    <3>2. CASE Create
      BY <3>2 DEF Create, ColdStarted, Rolled, CreateFault, fsVars
    <3>3. CASE Commit
      BY <3>3 DEF Commit, CommitEmpty, CommitStart, CommitSyncFault, CommitNoFit, fsVars
    <3>4. CASE Checkpoint
      BY <3>4 DEF Checkpoint, CheckpointStart, CheckpointUnlink, CheckpointSync,
                  CheckpointFault, fsVars
    <3>5. CASE Environment
      BY <3>5 DEF Environment, Kill, fsVars
    <3>6. CASE \E p \in Payloads : Append(p)
      BY <3>6 DEF Append, fsVars
    <3> QED BY <1>1, <3>1, <3>2, <3>3, <3>4, <3>5, <3>6 DEF Next
  <2> QED BY <2>2, <2>3, <2>4, <2>5, <2>6, <2>7, <2>8, <2>9, <2>10, <2>11
<1>2. TypeInv /\ Inv /\ [Next]_vars =>
        [\A b \in dir \cap dir' :
            (\E h \in dir : h > b) => cache'[b] = cache[b] /\ disk'[b] = cache[b]]_vars
  BY <1>1
<1> QED BY CrashSafe, TypeInit, TypeNext, <1>2, PTL DEF Spec, SealedImmutable

-----------------------------------------------------------------------------
(* What the invariant says of the log as a whole.                           *)

(* What the segments of S show is exactly their records.                    *)
LEMMA ShownRecords ==
    ASSUME TypeOK, StoreOK, NEW S \in SUBSET Names, NEW x
    PROVE  /\ x \in Stored(S, cache) <=>
                \E b \in S : \E r \in cache[b].recs : x = [lsn |-> r.lsn, pay |-> r.pay]
           /\ x \in Stored(S, disk) <=>
                \E b \in S : \E r \in disk[b].recs : x = [lsn |-> r.lsn, pay |-> r.pay]
<1>1. \A b \in S : /\ Chained(cache[b].recs, b, HeaderSize)
                   /\ Chained(disk[b].recs, b, HeaderSize)
                   /\ cache[b].recs # {} => cache[b].hdr = "ok"
                   /\ disk[b].recs # {} => disk[b].hdr = "ok"
  BY DEF StoreOK, FilesOK, FileOK
<1>2. x \in Stored(S, cache) <=>
        \E b \in S : /\ cache[b].hdr = "ok"
                     /\ \E r \in cache[b].recs : x = [lsn |-> r.lsn, pay |-> r.pay]
  BY <1>1, StoredChained
<1>3. x \in Stored(S, disk) <=>
        \E b \in S : /\ disk[b].hdr = "ok"
                     /\ \E r \in disk[b].recs : x = [lsn |-> r.lsn, pay |-> r.pay]
  BY <1>1, StoredChained
<1> QED BY <1>1, <1>2, <1>3

(* What the device holds under a name both know, the page cache shows.      *)
LEMMA DeviceIsCached ==
    TypeOK /\ StoreOK => Stored(dir \cap ddir, disk) \subseteq Stored(dir, cache)
<1> SUFFICES ASSUME TypeOK, StoreOK, NEW y \in Stored(dir \cap ddir, disk)
             PROVE  y \in Stored(dir, cache)
  OBVIOUS
<1>1. dir \cap ddir \in SUBSET Names /\ dir \in SUBSET Names
  BY DEF Names
<1>2. PICK b \in dir \cap ddir : \E r \in disk[b].recs : y = [lsn |-> r.lsn, pay |-> r.pay]
  BY <1>1, ShownRecords
<1>3. disk[b].recs \subseteq cache[b].recs
  BY <1>1 DEF StoreOK, FilesOK, FileOK
<1> QED BY <1>1, <1>2, <1>3, ShownRecords

(* The page cache alone has the shape that the files have.                  *)
LEMMA StoreCached == TypeOK /\ StoreOK => CachedStore
<1> SUFFICES ASSUME TypeOK, StoreOK PROVE CachedStore
  OBVIOUS
<1>1. dir \subseteq Names
  BY DEF Names
<1>2. \A b \in dir : CachedFile(b)
  BY <1>1 DEF StoreOK, FilesOK, FileOK, CachedFile
<1>3. ASSUME NEW b \in dir, NEW c \in dir, b < c
      PROVE  CachedSealed(b) /\ \A r \in cache[b].recs : r.lsn < c
  <2>1. Sealed(b) /\ \A r \in cache[b].recs : r.lsn < c
    BY <1>1, <1>3 DEF StoreOK, SealedOK
  <2>2. \E r \in cache[b].recs : r.lsn + 1 \in dir
    BY <1>3, SealedInDir
  <2> QED BY <2>1, <2>2 DEF Sealed, CachedSealed
<1> QED BY <1>2, <1>3 DEF CachedStore

(* An LSN is used once, in one segment.                                     *)
LEMMA OneRecord ==
    ASSUME TypeOK, CachedStore, NEW b \in dir, NEW c \in dir,
           NEW r \in cache[b].recs, NEW s \in cache[c].recs, r.lsn = s.lsn
    PROVE  b = c /\ r = s
<1>0. /\ b \in Nat /\ c \in Nat /\ r.lsn \in Nat /\ b <= r.lsn /\ c <= s.lsn
      /\ b = c => r = s
  BY NamesType, EndType DEF TypeOK, CachedStore, CachedFile, Chained, Lsns
<1>1. CASE b < c
  BY <1>0, <1>1 DEF CachedStore
<1>2. CASE c < b
  BY <1>0, <1>2 DEF CachedStore
<1> QED BY <1>0, <1>1, <1>2

(* Between the oldest base of the directory and the newest LSN no LSN is    *)
(* missing, whatever segments they are in.                                  *)
LEMMA NoGap ==
    ASSUME TypeOK, CachedStore, NEW o \in dir, NEW n \in Nat, o <= n,
           \E h \in dir : n < h \/ \E r \in cache[h].recs : n <= r.lsn
    PROVE  \E b \in dir : b <= n /\ \E r \in cache[b].recs : r.lsn = n
<1> DEFINE D == {n - c : c \in {x \in dir : x <= n}}
<1>0. dir \subseteq Nat /\ dir \subseteq Lsns
  BY DEF TypeOK, Lsns
<1>1. D \in SUBSET Nat /\ D # {}
  BY <1>0
<1>2. PICK m \in D : \A k \in D : m <= k
  <2> HIDE DEF D
  <2> QED BY <1>1, NatMin
<1>3. PICK b \in dir : b <= n /\ m = n - b
  OBVIOUS
<1>4. \A x \in dir : x <= n => x <= b
  <2>1. \A x \in dir : x <= n => n - b <= n - x
    BY <1>2, <1>3
  <2> QED BY <1>0, <2>1
<1>5. /\ cache[b].recs \in SUBSET Record /\ Chained(cache[b].recs, b, HeaderSize)
      /\ \A r \in cache[b].recs : r.lsn \in Nat
  BY <1>0, NamesType, EndType DEF CachedStore, CachedFile
<1>6. \E r \in cache[b].recs : n <= r.lsn
  <2>1. CASE \E c \in dir : b < c
    <3>1. PICK r \in cache[b].recs : r.lsn + 1 \in dir
      BY <2>1 DEF CachedStore, CachedSealed
    <3>2. b <= r.lsn
      BY <1>5 DEF Chained
    <3>3. ~(r.lsn + 1 <= n)
      BY <1>0, <1>4, <1>5, <3>1, <3>2
    <3> QED BY <1>5, <3>3
  <2>2. CASE ~\E c \in dir : b < c
    <3>1. PICK h \in dir : n < h \/ \E r \in cache[h].recs : n <= r.lsn
      OBVIOUS
    <3>2. h <= b /\ ~(n < h)
      BY <1>0, <1>3, <2>2, <3>1
    <3>3. CASE h = b
      BY <3>1, <3>2, <3>3
    <3>4. CASE h < b
      <4>1. \A r \in cache[h].recs : r.lsn < b /\ r.lsn \in Nat
        BY <1>0, <3>4, NamesType, EndType DEF CachedStore
      <4> QED BY <1>0, <1>3, <3>1, <3>2, <4>1
    <3> QED BY <1>0, <3>2, <3>3, <3>4
  <2> QED BY <2>1, <2>2
<1>7. PICK r \in cache[b].recs : n <= r.lsn
  BY <1>6
<1>8. b \in Int /\ n \in Int
  BY <1>0
<1>9. \E s \in cache[b].recs : s.lsn = n
  BY <1>3, <1>5, <1>7, <1>8, ChainDense
<1> QED BY <1>3, <1>9

(* On the device the log of a live handle ends at durable_lsn, in the       *)
(* active segment.                                                          *)
LEMMA TopRecord ==
    TypeInv /\ Inv /\ Live =>
        /\ active \in dir \cap ddir /\ cache[active].hdr = "ok" /\ disk[active].hdr = "ok"
        /\ \A b \in ddir : b <= active /\ \A r \in disk[b].recs : r.lsn <= durable_lsn
        /\ active <= durable_lsn + 1
        /\ active <= durable_lsn => \E r \in disk[active].recs : r.lsn = durable_lsn
<1> SUFFICES ASSUME TypeInv, Inv, Live
             PROVE  /\ active \in dir \cap ddir
                    /\ cache[active].hdr = "ok" /\ disk[active].hdr = "ok"
                    /\ \A b \in ddir : b <= active /\ \A r \in disk[b].recs : r.lsn <= durable_lsn
                    /\ active <= durable_lsn + 1
                    /\ active <= durable_lsn => \E r \in disk[active].recs : r.lsn = durable_lsn
  OBVIOUS
<1>0. /\ ddir = segments /\ active \in ddir /\ \A c \in ddir : c <= active
      /\ ddir \subseteq Names /\ ddir \subseteq Nat /\ active \in Lsns /\ active \in Nat
      /\ TypeOK /\ StoreOK /\ durable_lsn \in Nat /\ disk[active] \in File
  BY NamesType DEF Inv, HandleOK, DirectoryOK, Highest, Names, TypeInv, TypeOK, Lsns
<1>1. active \in dir
  <2>1. pc \in {"idle", "commit", "sync", "create", "unlink"} \cup (CreateSteps \ {"create"})
    BY DEF Live, Inv, HandleOK, OpenOK, TypeInv, TypeOK, Pcs, CreateSteps
  <2>2. CASE pc \in {"idle", "commit", "sync", "create"}
    BY <1>0, <2>2 DEF Inv, HandleOK, DirectoryOK
  <2>3. CASE pc \in CreateSteps \ {"create"}
    BY <1>0, <2>3 DEF Inv, HandleOK, DirectoryOK
  <2>4. CASE pc = "unlink"
    BY <1>0, <2>4 DEF Inv, HandleOK, DirectoryOK
  <2> QED BY <2>1, <2>2, <2>3, <2>4
<1>2. /\ RunLast(disk[active], active) = durable_lsn /\ disk[active].hdr = "ok"
      /\ Chained(disk[active].recs, active, HeaderSize)
  BY <1>0 DEF Inv, HandleOK, TailOK, StoreOK, FilesOK, FileOK
<1>3. cache[active].hdr = "ok"
  <2>1. CASE pc = "sync"
    <3>1. cache[active] = WriteRecords(disk[active], Batch(pos, scan, write_offset))
      BY <2>1 DEF Inv, HandleOK, TailOK
    <3> QED BY <1>0, <1>2, <3>1 DEF WriteRecords, File
  <2>2. CASE pc # "sync"
    BY <1>2, <2>2 DEF Inv, HandleOK, TailOK
  <2> QED BY <2>1, <2>2
<1>4. EndsAt(disk[active].recs, active, HeaderSize, durable_lsn, RunEnd(disk[active], active))
  BY <1>0, <1>2, ResumeAtEnd
<1>5. \A r \in disk[active].recs : r.lsn \in Nat /\ active <= r.lsn /\ r.lsn <= durable_lsn
  BY <1>0, <1>2, <1>4, NamesType, EndType DEF EndsAt, Chained
<1>6. /\ active <= durable_lsn + 1
      /\ active <= durable_lsn => \E r \in disk[active].recs : r.lsn = durable_lsn
  <2>1. CASE disk[active].recs = {}
    <3>1. durable_lsn = active - 1
      BY <1>4, <2>1 DEF EndsAt
    <3> QED BY <1>0, <3>1
  <2>2. CASE disk[active].recs # {}
    <3>1. PICK r \in disk[active].recs : r.lsn = durable_lsn
      BY <1>4, <2>2 DEF EndsAt
    <3> QED BY <1>0, <1>5, <3>1
  <2> QED BY <2>1, <2>2
<1>7. ASSUME NEW b \in ddir, b # active, NEW r \in disk[b].recs PROVE r.lsn <= durable_lsn
  <2>1. b < active
    BY <1>0, <1>7
  <2>2. disk[b] = cache[b] /\ \A s \in cache[b].recs : s.lsn < active
    BY <1>0, <2>1 DEF StoreOK, SealedOK, Sealed
  <2>3. r.lsn < active /\ r.lsn \in Nat
    BY <1>0, <2>2, NamesType, EndType
  <2> QED BY <1>0, <1>6, <2>3
<1> QED BY <1>0, <1>1, <1>2, <1>3, <1>5, <1>6, <1>7

(* A handle that agrees with the page cache shows a dense log: nothing is   *)
(* missing, and nothing is there twice.                                     *)
LEMMA CachedDense ==
    ASSUME TypeOK, CachedStore, dir = segments, Highest(active, dir), Lowest(oldest_lsn, dir),
           RunLast(cache[active], active) = durable_lsn
    PROVE  DenseLog
<1> SUFFICES LET R == Stored(segments, cache) IN
             /\ {r.lsn : r \in R} = oldest_lsn..durable_lsn
             /\ \A r, s \in R : r.lsn = s.lsn => r = s
  BY DEF DenseLog
<1> DEFINE R == Stored(segments, cache)
<1>0. /\ dir \subseteq Nat /\ dir \subseteq Lsns /\ durable_lsn \in Nat /\ active \in dir
      /\ active \in Nat /\ active \in Lsns /\ cache[active] \in File
      /\ \A c \in dir : c <= active
      /\ \A b \in dir : Chained(cache[b].recs, b, HeaderSize)
  BY DEF TypeOK, Lsns, Highest, CachedStore, CachedFile
<1>1. \A x : x \in R <=>
          \E b \in dir : \E r \in cache[b].recs : x = [lsn |-> r.lsn, pay |-> r.pay]
  <2>1. \A b \in dir : cache[b].recs # {} => cache[b].hdr = "ok"
    BY DEF CachedStore, CachedFile
  <2>2. \A b \in dir : Chained(cache[b].recs, b, HeaderSize)
    BY <1>0
  <2>3. ASSUME NEW x
        PROVE  x \in Stored(dir, cache) <=>
                 \E b \in dir : /\ cache[b].hdr = "ok"
                                /\ \E r \in cache[b].recs : x = [lsn |-> r.lsn, pay |-> r.pay]
    BY ONLY <2>2, StoredChained
  <2> QED BY <2>1, <2>3
<1>2. \A b \in dir : \A r \in cache[b].recs : r.lsn \in Nat /\ b <= r.lsn
  BY <1>0, NamesType, EndType DEF Chained
<1>3. /\ \A b \in dir : \A r \in cache[b].recs : r.lsn <= durable_lsn
      /\ active <= durable_lsn + 1
      /\ active <= durable_lsn => \E r \in cache[active].recs : r.lsn = durable_lsn
  <2>1. /\ \A r \in cache[active].recs : r.lsn <= durable_lsn
        /\ cache[active].recs # {} => \E r \in cache[active].recs : r.lsn = durable_lsn
        /\ cache[active].recs = {} => durable_lsn = active - 1
    BY <1>0, ChainScan
  <2>2. active <= durable_lsn + 1
    BY <1>0, <1>2, <2>1
  <2>3. ASSUME NEW b \in dir, b # active, NEW r \in cache[b].recs PROVE r.lsn <= durable_lsn
    <3>1. b < active
      BY <1>0, <2>3
    <3>2. r.lsn < active /\ r.lsn \in Nat
      BY <1>0, <1>2, <3>1 DEF CachedStore
    <3> QED BY <1>0, <2>2, <3>2
  <2> QED BY <1>0, <2>1, <2>2, <2>3
<1>4. ASSUME NEW x \in R PROVE x.lsn \in oldest_lsn..durable_lsn
  <2>1. PICK b \in dir : \E r \in cache[b].recs : x = [lsn |-> r.lsn, pay |-> r.pay]
    BY <1>1
  <2>2. PICK r \in cache[b].recs : x = [lsn |-> r.lsn, pay |-> r.pay]
    BY <2>1
  <2>3. oldest_lsn \in Nat /\ b \in Nat /\ oldest_lsn <= b
    BY <1>0 DEF Lowest
  <2>4. r.lsn \in Nat /\ b <= r.lsn /\ r.lsn <= durable_lsn /\ x.lsn = r.lsn
    BY <1>3, <1>2, <2>2
  <2> HIDE DEF R
  <2> QED BY <1>0, <2>3, <2>4
<1>5. ASSUME NEW n \in oldest_lsn..durable_lsn PROVE \E x \in R : x.lsn = n
  <2> HIDE DEF R
  <2>0. oldest_lsn \in dir /\ oldest_lsn \in Nat /\ durable_lsn \in Nat
    BY <1>0 DEF Lowest
  <2>1. oldest_lsn \in dir /\ n \in Nat /\ oldest_lsn <= n /\ n <= durable_lsn
    BY <1>5, <2>0
  <2>2. \E h \in dir : n < h \/ \E r \in cache[h].recs : n <= r.lsn
    BY <1>0, <1>3, <2>1
  <2>3. PICK b \in dir : \E r \in cache[b].recs : r.lsn = n
    BY <2>1, <2>2, NoGap
  <2>4. PICK r \in cache[b].recs : r.lsn = n
    BY <2>3
  <2>5. [lsn |-> r.lsn, pay |-> r.pay] \in R
    BY <1>1
  <2> QED BY <2>4, <2>5
<1>6. ASSUME NEW x \in R, NEW y \in R, x.lsn = y.lsn PROVE x = y
  <2>1. PICK b \in dir : \E r \in cache[b].recs : x = [lsn |-> r.lsn, pay |-> r.pay]
    BY <1>1
  <2>2. PICK r \in cache[b].recs : x = [lsn |-> r.lsn, pay |-> r.pay]
    BY <2>1
  <2>3. PICK c \in dir : \E s \in cache[c].recs : y = [lsn |-> s.lsn, pay |-> s.pay]
    BY <1>1
  <2>4. PICK s \in cache[c].recs : y = [lsn |-> s.lsn, pay |-> s.pay]
    BY <2>3
  <2>5. r = s
    BY <1>6, <2>2, <2>4, OneRecord
  <2> QED BY <2>2, <2>4, <2>5
<1> HIDE DEF R
<1>7. {r.lsn : r \in R} = oldest_lsn..durable_lsn
  BY <1>4, <1>5
<1> QED BY <1>6, <1>7 DEF R

(* So it does between calls.                                                *)
LEMMA LogDense == TypeInv /\ Inv => DenseLog
<1> SUFFICES ASSUME TypeInv, Inv, pc = "idle", IsOpen, ~poisoned PROVE DenseLog
  BY DEF DenseLog
<1>1. /\ Live /\ dir = segments /\ Highest(active, dir) /\ Lowest(oldest_lsn, dir)
      /\ RunLast(cache[active], active) = durable_lsn
  BY DEF Live, Inv, HandleOK, DirectoryOK, TailOK
<1>2. TypeOK /\ CachedStore
  BY StoreCached DEF TypeInv, Inv
<1> QED BY <1>1, <1>2, CachedDense

(* D2, D6: between calls there is exactly one record for every LSN from     *)
(* oldest_lsn to durable_lsn, after any number of rolls, checkpoints and    *)
(* recoveries.                                                              *)
THEOREM LogIsDense == Honest => (Spec => []DenseLog)
BY CrashSafe, TypeInit, TypeNext, LogDense, PTL DEF Spec

(* D1, D3: what a commit reported and no checkpoint released is there for   *)
(* the next open to read, after any crash: the page cache shows all that    *)
(* the device has.                                                          *)
THEOREM Readability == Settling => (Spec => []AckedIsReadable)
<1>1. TypeInv /\ (faults = 0 => Inv) => AckedIsReadable
  BY DeviceIsCached DEF TypeInv, Inv, AckedIsDurable, AckedIsReadable
<1> QED BY CrashSafeUntilFault, TypeInit, TypeNext, <1>1, PTL DEF Spec

-----------------------------------------------------------------------------
(* The history: what was reported, and what the buffer still holds of it.   *)

(* A live handle knows every LSN that was reported, and conversely.         *)
LEMMA KnownToHandle ==
    TypeInv /\ Inv /\ Live => (AckedBelow <=> \A a \in acked : a.lsn <= durable_lsn)
<1> SUFFICES ASSUME TypeInv, Inv, Live, NEW a \in acked
             PROVE  a.lsn <= durable_lsn <=>
                        \E b \in dir \cap ddir :
                            /\ cache[b].hdr = "ok" /\ disk[b].hdr = "ok"
                            /\ a.lsn < b \/ \E r \in disk[b].recs : a.lsn <= r.lsn
  BY DEF AckedBelow
<1>0. /\ a.lsn \in Nat /\ durable_lsn \in Nat /\ ddir \subseteq Nat /\ ddir \subseteq Lsns
  BY DEF TypeInv, TypeOK, Ack, Lsns
<1>1. /\ active \in dir \cap ddir /\ cache[active].hdr = "ok" /\ disk[active].hdr = "ok"
      /\ \A b \in ddir : b <= active /\ \A r \in disk[b].recs : r.lsn <= durable_lsn
      /\ active <= durable_lsn + 1
      /\ active <= durable_lsn => \E r \in disk[active].recs : r.lsn = durable_lsn
      /\ active \in Nat
  BY <1>0, TopRecord
<1>2. ASSUME NEW b \in dir \cap ddir, a.lsn < b \/ \E r \in disk[b].recs : a.lsn <= r.lsn
      PROVE  a.lsn <= durable_lsn
  <2>1. CASE a.lsn < b
    BY <1>0, <1>1, <2>1
  <2>2. CASE \E r \in disk[b].recs : a.lsn <= r.lsn
    <3>1. PICK r \in disk[b].recs : a.lsn <= r.lsn
      BY <2>2
    <3>2. r.lsn \in Nat /\ r.lsn <= durable_lsn
      BY <1>0, <1>1, NamesType, EndType DEF TypeInv
    <3> QED BY <1>0, <3>1, <3>2
  <2> QED BY <1>2, <2>1, <2>2
<1>3. ASSUME a.lsn <= durable_lsn
      PROVE  a.lsn < active \/ \E r \in disk[active].recs : a.lsn <= r.lsn
  <2>1. CASE active <= durable_lsn
    BY <1>1, <1>3, <2>1
  <2>2. CASE ~(active <= durable_lsn)
    BY <1>0, <1>1, <1>3, <2>2
  <2> QED BY <2>1, <2>2
<1> QED BY <1>1, <1>2, <1>3

(* The segments that vouch for the reported LSNs are all kept.              *)
LEMMA BelowKept ==
    ASSUME AckedBelow, acked' = acked,
           \A b \in dir \cap ddir : cache[b].hdr = "ok" /\ disk[b].hdr = "ok" =>
               /\ b \in dir' \cap ddir' /\ cache'[b].hdr = "ok" /\ disk'[b].hdr = "ok"
               /\ disk[b].recs \subseteq disk'[b].recs
    PROVE  AckedBelow'
BY DEF AckedBelow

(* No step of open, of a crash or of a failing call loses one of them.      *)
LEMMA AckedBelowOffline ==
    ASSUME TypeInv, Inv, Honest, AckedBelow, Next, ~Live \/ ~Live'
    PROVE  AckedBelow' /\ acked' = acked
<1> USE DEF fsVars, segVars, lsnVars, bufVars, ghostVars
<1>0. /\ TypeOK /\ StoreOK /\ cache \in [Lsns -> File] /\ disk \in [Lsns -> File]
      /\ dir \subseteq Lsns /\ ddir \subseteq Lsns /\ dir \subseteq Names
  BY DEF TypeInv, TypeOK, Inv, Names
<1>1. CASE UNCHANGED <<fsVars, acked>>
  BY <1>1, BelowKept
<1>2. CASE DiscardHighest
  <2>1. PICK a \in dir : cache[a].hdr # "ok" /\ dir' = dir \ {a}
    BY <1>2 DEF DiscardHighest
  <2> QED BY <1>2, <2>1, BelowKept DEF DiscardHighest
<1>3. CASE DiscardSync
  BY <1>3, BelowKept DEF DiscardSync, fsync_dir
<1>4. CASE RecoverTorn
  <2>1. PICK a \in dir :
            cache' = [cache EXCEPT ![a].recs = Run(cache[a], a), ![a].torn = FALSE]
    BY <1>4 DEF RecoverTorn
  <2>2. \A b \in dir : cache'[b].hdr = cache[b].hdr
    BY <1>0, <2>1 DEF File
  <2> QED BY <1>4, <2>2, BelowKept DEF RecoverTorn
<1>5. CASE ZeroSync
  <2>1. PICK a \in dir : disk' = [disk EXCEPT ![a] = cache[a]]
    BY <1>5 DEF ZeroSync, sync_data_fully
  <2>2. disk[a].recs \subseteq cache[a].recs
    BY <1>0 DEF StoreOK, FilesOK, FileOK
  <2>3. \A b \in dir : cache[b].hdr = "ok" /\ disk[b].hdr = "ok" =>
            disk'[b].hdr = "ok" /\ disk[b].recs \subseteq disk'[b].recs
    BY <1>0, <2>1, <2>2
  <2> QED BY <1>5, <2>3, BelowKept DEF ZeroSync
<1>6. CASE pc \in CreateSteps /\ ~IsOpen /\ acked' = acked
  <2>1. dir \cap ddir = {}
    BY <1>6 DEF Inv, HandleOK, CreateOK
  <2> QED BY <1>6, <2>1, BelowKept
<1>7. CASE CommitWriteFault
  <2>1. acked' = acked /\ UNCHANGED <<dir, ddir, disk>>
    BY <1>7 DEF CommitWriteFault, Poison
  <2>2. PICK k \in {pos} \cup Boundaries, t \in BOOLEAN :
            cache' = [cache EXCEPT ![active] =
                         [WriteRecords(@, Batch(pos, k, write_offset)) EXCEPT !.torn = t]]
    BY <1>7 DEF CommitWriteFault
  <2>3. \A b \in dir : cache'[b].hdr = cache[b].hdr
    BY <1>0, <2>2 DEF WriteRecords, File
  <2> QED BY <2>1, <2>3, BelowKept
<1>8. CASE Writeback
  <2>1. \A b \in dir : disk[b].recs \subseteq cache[b].recs
    BY <1>0 DEF StoreOK, FilesOK, FileOK
  <2> QED BY <1>8, <2>1, BelowKept DEF Writeback
<1>9. CASE LosePower
  <2>1. PICK S \in SUBSET Names :
            /\ SurvivingNames(S) /\ dir' = S /\ ddir' = S /\ cache' = disk'
            /\ \A b \in S :
                /\ disk[b].recs \subseteq disk'[b].recs
                /\ disk[b].hdr = "ok" /\ cache[b].hdr = "ok" => disk'[b].hdr = "ok"
    BY <1>9, PowerLossLeaves
  <2>2. \A b \in dir \cap ddir : b \in S
    BY <2>1 DEF SurvivingNames
  <2> QED BY <1>9, <2>1, <2>2, BelowKept DEF LosePower
<1>10. CASE Open
  <2>1. CASE UNCHANGED fsVars
    BY <1>1, <1>10, <2>1
    DEF Open, OpenStart, DiscoverEmpty, KeepHighest, RejectHighest, DiscardHighest, DiscardSync,
        RecoverFatal, RecoverClean, RecoverTorn, ZeroSync, OpenFault
  <2> QED BY <1>2, <1>3, <1>4, <1>5, <1>10, <2>1
      DEF Open, OpenStart, DiscoverEmpty, KeepHighest, RejectHighest, RecoverFatal, RecoverClean,
          OpenFault
<1>11. CASE Create
  <2>1. pc \in CreateSteps /\ acked' = acked
    BY <1>11 DEF Create, CreateNew, Allocate, WriteHeader, SyncHeader, ColdStarted, Rolled,
                 CreateFault, CreateSteps, Poison
  <2>2. CASE IsOpen
    <3>1. Live
      BY <2>1, <2>2 DEF Live, Inv, HandleOK, OpenOK, CreateSteps
    <3>2. ~CreateFault => Live'
      BY <1>11, <3>1 DEF Create, CreateNew, Allocate, WriteHeader, SyncHeader, ColdStarted, Rolled,
                         Activate, Live, IsOpen
    <3> QED BY <1>1, <2>1, <3>1, <3>2 DEF CreateFault
  <2> QED BY <1>6, <2>1, <2>2
<1>12. CASE Commit \/ Checkpoint \/ \E p \in Payloads : Append(p)
  <2>1. pc \in {"idle", "commit", "sync", "unlink"} /\ IsOpen
    BY <1>12 DEF Commit, Checkpoint, CommitEmpty, CommitStart, CommitWrite, CommitWriteFault,
                 CommitSync, CommitSyncFault, CommitNoFit, CheckpointStart, CheckpointUnlink,
                 CheckpointSync, CheckpointFault, Append, Ready, Inv, HandleOK, OpenOK
  <2>2. Live
    BY <1>12, <2>1
    DEF Commit, Checkpoint, CommitEmpty, CommitStart, CommitWrite, CommitWriteFault,
        CommitSync, CommitSyncFault, CommitNoFit, CheckpointStart, CheckpointUnlink,
        CheckpointSync, CheckpointFault, Append, Ready, Inv, HandleOK, OpenOK, Live
  <2>3. CASE CommitSyncFault \/ CheckpointFault
    BY <1>1, <2>3 DEF CommitSyncFault, CheckpointFault, Poison
  <2>4. CASE CheckpointSync
    <3>1. \E o \in segments : Lowest(o, segments \ doomed)
      BY <2>4 DEF CheckpointSync
    <3>2. segments' # {} /\ poisoned' = poisoned
      BY <2>4, <3>1 DEF CheckpointSync, Lowest
    <3> QED BY <2>2, <3>2 DEF Live, IsOpen
  <2>5. CASE ~(CommitWriteFault \/ CommitSyncFault \/ CheckpointFault \/ CheckpointSync)
    <3>1. segments' = segments /\ poisoned' = poisoned
      BY <1>12, <2>5 DEF Commit, Checkpoint, CommitEmpty, CommitStart, CommitWrite, CommitSync,
                         CommitNoFit, CheckpointStart, CheckpointUnlink, Append
    <3> QED BY <2>2, <3>1 DEF Live, IsOpen
  <2> QED BY <1>7, <2>3, <2>4, <2>5
<1>13. CASE Environment
  BY <1>1, <1>8, <1>9, <1>13, MediaFaultNever DEF Environment, Kill
<1> QED BY <1>10, <1>11, <1>12, <1>13 DEF Next

(* Commit reports nothing above the new durable_lsn, and nothing else       *)
(* reports.                                                                 *)
LEMMA ReportedIsDurable ==
    ASSUME TypeInv, TypeInv', Inv, Honest, Next, Live, Live',
           \A a \in acked : a.lsn <= durable_lsn
    PROVE  \A a \in acked' : a.lsn <= durable_lsn'
<1> USE DEF fsVars, segVars, lsnVars, bufVars, ghostVars
<1>1. CASE CommitEmpty
  BY <1>1 DEF CommitEmpty, Report
<1>2. CASE CommitSync
  <2>0. /\ pc = "sync" /\ staging \in SUBSET Record /\ pos \in Nat /\ scan \in Nat
        /\ durable_lsn \in Nat /\ acked \subseteq Ack /\ \A a \in Ack : a.lsn \in Nat
    BY <1>2 DEF CommitSync, TypeInv, TypeOK, Ack, Lsns
  <2>1. PICK r \in staging : End(r) = scan /\ durable_lsn' = r.lsn
    BY <1>2 DEF CommitSync
  <2>2. acked' = acked \cup Contents(Staged(pos, scan))
                 \cup {x \in Stored(dir, cache) : x.lsn <= r.lsn}
    BY <1>2, <2>1 DEF CommitSync, Report
  <2> DEFINE R == {s \in staging : s.start >= pos}
  <2>3. r \in R /\ Chained(R, durable_lsn + 1, pos) /\ r.lsn \in Nat
    BY <2>0, <2>1, LastSynced, EndType DEF Inv, HandleOK, StagingOK
  <2>4. durable_lsn < r.lsn
    BY <2>0, <2>3 DEF Chained
  <2>5. ASSUME NEW s \in Staged(pos, scan) PROVE s.lsn <= r.lsn
    <3>1. s \in R /\ End(s) <= End(r) /\ s \in Record
      BY <2>0, <2>1 DEF Staged
    <3>2. s.lsn \in Nat /\ s.start < End(s) /\ s.start \in Nat /\ End(s) \in Nat /\ End(r) \in Nat
      BY <2>0, <3>1, EndType
    <3>3. r.lsn < s.lsn => End(r) <= s.start
      BY <2>3, <3>1 DEF Chained
    <3> HIDE DEF R
    <3> QED BY <2>3, <3>1, <3>2, <3>3
  <2>6. \A a \in Contents(Staged(pos, scan)) : a.lsn <= r.lsn
    BY <2>5 DEF Contents
  <2>7. \A a \in acked : a.lsn <= r.lsn
    BY <2>0, <2>3, <2>4
  <2> QED BY <2>1, <2>2, <2>6, <2>7
<1>3. CASE ~CommitEmpty /\ ~CommitSync
  <2>1. acked' = acked /\ durable_lsn' = durable_lsn
    <3>1. ~Open /\ ~ColdStarted
      BY DEF Open, OpenStart, DiscoverEmpty, KeepHighest, RejectHighest, DiscardHighest,
             DiscardSync, RecoverFatal, RecoverClean, RecoverTorn, ZeroSync, OpenFault,
             ColdStarted, Live, Inv, HandleOK, OpenOK
    <3>2. ~Environment
      BY MediaFaultNever DEF Environment, Kill, Writeback, LosePower, NoHandle, Live, IsOpen, Inv,
                             HandleOK, OpenOK
    <3>3. CASE Create
      BY <3>1, <3>3 DEF Create, CreateNew, Allocate, WriteHeader, SyncHeader, Rolled, CreateFault,
                        NoHandle, Poison, Live, IsOpen
    <3>4. CASE Commit
      BY <1>3, <3>4 DEF Commit, CommitStart, CommitWrite, CommitWriteFault, CommitSyncFault,
                        CommitNoFit, NoHandle, Poison, Live, IsOpen
    <3>5. CASE Checkpoint
      BY <3>5 DEF Checkpoint, CheckpointStart, CheckpointUnlink, CheckpointSync, CheckpointFault,
                  Poison
    <3>6. CASE \E p \in Payloads : Append(p)
      BY <3>6 DEF Append
    <3> QED BY <3>1, <3>2, <3>3, <3>4, <3>5, <3>6 DEF Next
  <2> QED BY <2>1
<1> QED BY <1>1, <1>2, <1>3

(* A handle is poisoned by a failing call, which changes nothing else in    *)
(* it, and stays so until it is gone.                                       *)
LEMMA PoisonedKeepsHandle ==
    ASSUME TypeInv, Inv, Honest, Next, poisoned'
    PROVE  IsOpen' = IsOpen /\ acked' = acked /\ durable_lsn' = durable_lsn
<1> USE DEF fsVars, segVars, lsnVars, bufVars, ghostVars
<1>0. poisoned => pc = "idle"
  BY DEF Inv, HandleOK, OpenOK
<1>1. CASE CreateFault \/ CommitWriteFault \/ CommitSyncFault \/ CheckpointFault
  BY <1>0, <1>1
  DEF CreateFault, CreateSteps, CommitWriteFault, CommitSyncFault, CheckpointFault, NoHandle,
      Poison, Live, IsOpen, Inv, HandleOK, OpenOK
<1>2. CASE ~(CreateFault \/ CommitWriteFault \/ CommitSyncFault \/ CheckpointFault)
  <2>1. ~Open
    BY <1>0 DEF Open, OpenStart, DiscoverEmpty, KeepHighest, RejectHighest, DiscardHighest,
                DiscardSync, RecoverFatal, RecoverClean, RecoverTorn, ZeroSync, OpenFault, NoHandle,
                Handle
  <2>2. ~Environment
    BY <1>0, MediaFaultNever DEF Environment, Kill, Writeback, LosePower, NoHandle
  <2>3. ~Create
    BY <1>0, <1>2 DEF Create, CreateNew, Allocate, WriteHeader, SyncHeader, ColdStarted, Rolled,
                      CreateSteps, Handle
  <2>4. ~Commit
    BY <1>0, <1>2 DEF Commit, CommitEmpty, CommitStart, CommitWrite, CommitSync, CommitNoFit, Ready
  <2>5. ~Checkpoint /\ ~\E p \in Payloads : Append(p)
    BY <1>0, <1>2 DEF Checkpoint, CheckpointStart, CheckpointUnlink, CheckpointSync, Append, Ready
  <2> QED BY <2>1, <2>2, <2>3, <2>4, <2>5 DEF Next
<1> QED BY <1>1, <1>2

(* What commit has passed over stays in the segments.                       *)
LEMMA WrittenKept ==
    ASSUME TypeInv, TypeInv', Inv, Honest, WrittenOK, Next
    PROVE  WrittenOK'
<1> USE DEF fsVars, segVars, lsnVars, bufVars, ghostVars
<1> SUFFICES ASSUME Live', NEW s \in staging', s.start < pos'
             PROVE  \E b \in segments' : \E r \in cache'[b].recs : r.lsn = s.lsn /\ r.pay = s.pay
  BY DEF WrittenOK
<1>0. /\ s \in Record /\ s.start \in Nat /\ pos' # 0
  BY EndType DEF TypeInv, TypeOK
<1>1. Live
  <2>1. ~Open
    BY <1>0 DEF Open, OpenStart, DiscoverEmpty, KeepHighest, RejectHighest, DiscardHighest,
                DiscardSync, RecoverFatal, RecoverClean, RecoverTorn, ZeroSync, OpenFault, NoHandle,
                Handle, Live, IsOpen, Inv, HandleOK, OpenOK
  <2>2. ~Environment
    BY MediaFaultNever DEF Environment, Kill, Writeback, LosePower, NoHandle, Live, IsOpen, Inv,
                           HandleOK, OpenOK
  <2>3. CASE Create
    BY <1>0, <2>3
    DEF Create, CreateNew, Allocate, WriteHeader, SyncHeader, ColdStarted, Rolled, CreateFault,
        Poison, NoHandle, Handle, Live, IsOpen
  <2>4. CASE Commit \/ Checkpoint \/ \E p \in Payloads : Append(p)
    <3>1. pc \in {"idle", "commit", "sync", "unlink"} /\ ~poisoned
      BY <2>4 DEF Commit, CommitEmpty, CommitStart, CommitWrite, CommitWriteFault, CommitSync,
                  CommitSyncFault, CommitNoFit, Checkpoint, CheckpointStart, CheckpointUnlink,
                  CheckpointSync, CheckpointFault, Append, Ready, Inv, HandleOK, OpenOK
    <3> QED BY <3>1 DEF Live, Inv, HandleOK, OpenOK
  <2> QED BY <2>1, <2>2, <2>3, <2>4 DEF Next
<1>2. CASE s \in staging /\ s.start < pos
  <2>1. PICK b \in segments : \E r \in cache[b].recs : r.lsn = s.lsn /\ r.pay = s.pay
    BY <1>1, <1>2 DEF WrittenOK
  <2>2. segments \subseteq segments' /\ cache[b].recs \subseteq cache'[b].recs
    <3>0. /\ b \in Lsns /\ cache \in [Lsns -> File] /\ pos # 0 /\ active \in Lsns
          /\ pc \notin {"idle", "unlink"}
      BY <1>0, <1>1, <1>2
      DEF TypeInv, TypeOK, Inv, HandleOK, StagingOK, DirectoryOK, Highest
    <3>1. CASE Create
      <4>1. pc \in CreateSteps /\ IsOpen
        BY <1>1, <3>1 DEF Create, CreateNew, Allocate, WriteHeader, SyncHeader, ColdStarted,
                          Rolled, CreateFault, CreateSteps, Live
      <4>2. b # target
        BY <4>1, TargetTop
      <4> QED BY <3>0, <3>1, <4>1, <4>2
          DEF Create, CreateNew, Allocate, WriteHeader, SyncHeader, ColdStarted, Rolled, Activate,
              CreateFault, Poison
    <3>2. CASE CommitWrite
      <4>1. pc = "commit" /\ segments' = segments
        BY <3>2 DEF CommitWrite
      <4>2. PICK e \in Boundaries :
                cache' = [cache EXCEPT ![active] = WriteRecords(@, Batch(pos, e, write_offset))]
        BY <3>2 DEF CommitWrite
      <4>3. e \in Nat
        BY EndType DEF Boundaries, TypeInv, TypeOK
      <4>4. cache[active] = disk[active]
        BY <1>1, <4>1 DEF Inv, HandleOK, TailOK
      <4>5. WriteRecords(cache[active], Batch(pos, e, write_offset)).recs
                = cache[active].recs \cup Batch(pos, e, write_offset)
        BY <1>1, <4>1, <4>3, <4>4, BatchFits
      <4> QED BY <3>0, <4>1, <4>2, <4>5
    <3>3. CASE CommitSync \/ CommitNoFit
      BY <3>3 DEF CommitSync, CommitNoFit
    <3>4. ~Open /\ ~Environment /\ ~Checkpoint /\ ~\E p \in Payloads : Append(p)
      <4>1. ~Open
        BY <1>1 DEF Open, OpenStart, DiscoverEmpty, KeepHighest, RejectHighest, DiscardHighest,
                DiscardSync, RecoverFatal, RecoverClean, RecoverTorn, ZeroSync, OpenFault,
                Live, Inv, HandleOK, OpenOK
      <4>2. ~Environment
        BY MediaFaultNever DEF Environment, Kill, Writeback, LosePower, NoHandle, Live, IsOpen,
                               Inv, HandleOK, OpenOK
      <4>3. ~Checkpoint /\ ~\E p \in Payloads : Append(p)
        BY <3>0 DEF Checkpoint, CheckpointStart, CheckpointUnlink, CheckpointSync,
                    CheckpointFault, Append, Ready
      <4> QED BY <4>1, <4>2, <4>3
    <3>5. CASE Commit
      BY <3>0, <3>2, <3>3, <3>5
      DEF Commit, CommitEmpty, CommitStart, CommitWriteFault, CommitSyncFault, Ready, NoHandle,
          Poison, Live, IsOpen
    <3> QED BY <3>1, <3>4, <3>5 DEF Next
  <2> QED BY <2>1, <2>2
<1>3. CASE ~(s \in staging /\ s.start < pos)
  <2>1. CASE CommitSync
    <3>0. /\ pc = "sync" /\ staging' = staging /\ pos' = scan /\ s.start >= pos
          /\ UNCHANGED <<segments, active, cache>> /\ pos \in Nat /\ scan \in Nat
          /\ write_offset \in Nat
      BY <1>0, <1>3, <2>1 DEF CommitSync, TypeInv, TypeOK
    <3>1. PICK r \in staging : End(r) = scan
      BY <2>1 DEF CommitSync
    <3>2. End(s) <= scan
      BY <1>1, <3>0, <3>1, LastSynced
    <3>3. s \in Staged(pos, scan)
      BY <3>0, <3>2 DEF Staged
    <3>4. cache[active] = WriteRecords(disk[active], Batch(pos, scan, write_offset))
      BY <1>1, <3>0 DEF Inv, HandleOK, TailOK
    <3>5. Moved(s, pos, write_offset) \in cache[active].recs
      BY <1>1, <3>0, <3>3, <3>4, BatchFits
    <3>6. Moved(s, pos, write_offset).lsn = s.lsn /\ Moved(s, pos, write_offset).pay = s.pay
      BY <1>0 DEF Moved, Record
    <3>7. active \in segments
      BY <1>1 DEF Inv, HandleOK, DirectoryOK, Highest
    <3> QED BY <3>0, <3>5, <3>6, <3>7
  <2>2. CASE ~CommitSync
    <3>1. pc \in {"idle", "unlink"} => pos = 0
      BY <1>1 DEF Inv, HandleOK, StagingOK
    <3>2. CASE Open \/ Environment
      BY <1>1, <3>2, MediaFaultNever
      DEF Open, OpenStart, DiscoverEmpty, KeepHighest, RejectHighest, DiscardHighest,
          DiscardSync, RecoverFatal, RecoverClean, RecoverTorn, ZeroSync, OpenFault,
          Environment, Kill, Writeback, LosePower, NoHandle, Live, IsOpen, Inv, HandleOK, OpenOK
    <3>3. CASE Create
      BY <1>0, <1>3, <3>3
      DEF Create, CreateNew, Allocate, WriteHeader, SyncHeader, ColdStarted, Rolled, CreateFault,
          Poison, NoHandle, Handle
    <3>4. CASE Commit
      BY <1>0, <1>3, <2>2, <3>4
      DEF Commit, CommitEmpty, CommitStart, CommitWrite, CommitWriteFault, CommitSyncFault,
          CommitNoFit, Poison, NoHandle
    <3>5. CASE Checkpoint \/ \E p \in Payloads : Append(p)
      BY <1>0, <1>3, <3>1, <3>5
      DEF Checkpoint, CheckpointStart, CheckpointUnlink, CheckpointSync, CheckpointFault, Poison,
          Append, Ready
    <3> QED BY <3>2, <3>3, <3>4, <3>5 DEF Next
  <2> QED BY <2>1, <2>2
<1> QED BY <1>2, <1>3

(* The history invariant, on top of Inv.                                    *)
LEMMA HistoryNext ==
    ASSUME Honest
    PROVE  TypeInv /\ TypeInv' /\ Inv /\ Inv' /\ History /\ [Next]_vars => History'
<1> SUFFICES ASSUME TypeInv, TypeInv', Inv, Inv', History, [Next]_vars PROVE History'
  OBVIOUS
<1>1. CASE UNCHANGED vars
  BY <1>1 DEF vars, fsVars, segVars, lsnVars, bufVars, ghostVars, History, AckedBelow,
              AckedLsnNotReused, WrittenOK, Live, IsOpen
<1>2. CASE Next
  <2>1. WrittenOK'
    BY <1>2, WrittenKept DEF History
  <2>2. (TypeInv /\ Inv /\ Live => (AckedBelow <=> \A a \in acked : a.lsn <= durable_lsn))'
    BY KnownToHandle, PTL
  <2>3. CASE Live /\ Live'
    <3>1. \A a \in acked : a.lsn <= durable_lsn
      BY <2>3 DEF History, AckedLsnNotReused, Live
    <3>2. \A a \in acked' : a.lsn <= durable_lsn'
      BY <1>2, <2>3, <3>1, ReportedIsDurable
    <3> QED BY <2>1, <2>2, <2>3, <3>2 DEF History, AckedLsnNotReused
  <2>4. CASE ~Live \/ ~Live'
    <3>1. AckedBelow' /\ acked' = acked
      BY <1>2, <2>4, AckedBelowOffline DEF History
    <3>2. AckedLsnNotReused'
      <4>1. CASE Live'
        BY <2>2, <3>1, <4>1 DEF AckedLsnNotReused
      <4>2. CASE ~Live' /\ IsOpen'
        <5>1. poisoned'
          BY <4>2 DEF Live
        <5>2. IsOpen' = IsOpen /\ durable_lsn' = durable_lsn
          BY <1>2, <5>1, PoisonedKeepsHandle
        <5> QED BY <3>1, <4>2, <5>2 DEF History, AckedLsnNotReused
      <4> QED BY <4>1, <4>2 DEF AckedLsnNotReused
    <3> QED BY <2>1, <3>1, <3>2 DEF History
  <2> QED BY <2>3, <2>4
<1> QED BY <1>1, <1>2

(* The history invariant holds for every configuration.                     *)
THEOREM HistoryCorrect == Honest => (Spec => []History)
<1> SUFFICES ASSUME Honest PROVE Spec => []History
  OBVIOUS
<1>1. Init => History
  BY DEF Init, History, AckedBelow, AckedLsnNotReused, WrittenOK, IsOpen, Live
<1> QED BY CrashSafe, TypeInit, TypeNext, <1>1, HistoryNext, PTL DEF Spec

(* D2, D8: after any crash, recovery and checkpoint, an open handle         *)
(* continues above every LSN that was ever reported, so no LSN is given to  *)
(* two records a caller knows of.                                           *)
THEOREM LsnsAreNotReused == Honest => (Spec => []AckedLsnNotReused)
<1>1. History => AckedLsnNotReused
  BY DEF History
<1> QED BY HistoryCorrect, <1>1, PTL


-----------------------------------------------------------------------------
(* Process crashes alone.  The power stays on, but the next process may     *)
(* open the log before anything has settled, so nothing can be said of the  *)
(* device.  The page cache keeps the invariant by itself: no call reads the *)
(* device.                                                                  *)

(* Nothing happens to the cached files.                                     *)
LEMMA CachedSame ==
    ASSUME TypeOK, CachedStore, AckedCached, UNCHANGED <<dir, cache, acked>>,
           released' \in Nat, released <= released'
    PROVE  CachedStore' /\ AckedCached'
<1>1. released \in Nat /\ acked \subseteq Ack /\ \A a \in Ack : a.lsn \in Nat
  BY DEF TypeOK, Ack, Lsns
<1>2. CachedStore'
  BY DEF CachedStore, CachedFile, CachedSealed
<1>3. \A x \in acked : x.lsn > released' => x.lsn > released
  BY <1>1
<1>4. Stored(dir', cache') = Stored(dir, cache)
  OBVIOUS
<1> QED BY <1>2, <1>3, <1>4 DEF AckedCached

(* Only the newest file changes.                                            *)
LEMMA CachedNewest ==
    ASSUME TypeOK, CachedStore, dir' = dir, NEW a \in Lsns, \A c \in dir : c <= a,
           \A c \in dir \ {a} : cache'[c] = cache[c], CachedFile(a)'
    PROVE  CachedStore'
<1>0. dir \subseteq Nat /\ a \in Nat
  BY DEF TypeOK, Lsns
<1>1. \A b \in dir : CachedFile(b)'
  BY DEF CachedStore, CachedFile
<1>2. \A b, c \in dir : b < c => b # a
  BY <1>0
<1> QED BY <1>1, <1>2 DEF CachedStore, CachedSealed

(* What was acked is still shown, if the cached files keep their records.   *)
LEMMA CachedShown ==
    ASSUME TypeOK, CachedStore, AckedCached, CachedStore',
           released' \in Nat, released <= released',
           \A b \in dir :
               \A r \in cache[b].recs : r.lsn > released' /\ cache[b].hdr = "ok" =>
                       b \in dir' /\ r \in cache'[b].recs /\ cache'[b].hdr = "ok",
           NEW x \in acked, x.lsn > released'
    PROVE  x \in Stored(dir', cache')
<1>1. released \in Nat /\ acked \subseteq Ack /\ \A y \in Ack : y.lsn \in Nat
  BY DEF TypeOK, Ack, Lsns
<1>2. \A b \in dir : Chained(cache[b].recs, b, HeaderSize)
  BY DEF CachedStore, CachedFile
<1>3. \A b \in dir' : Chained(cache'[b].recs, b, HeaderSize)
  BY DEF CachedStore, CachedFile
<1>4. x \in Stored(dir, cache)
  <2>1. x.lsn > released
    BY <1>1
  <2> QED BY <2>1 DEF AckedCached
<1>5. PICK b \in dir : /\ cache[b].hdr = "ok"
                       /\ \E r \in cache[b].recs : x = [lsn |-> r.lsn, pay |-> r.pay]
  BY <1>2, <1>4, StoredChained
<1>6. PICK r \in cache[b].recs : x = [lsn |-> r.lsn, pay |-> r.pay]
  BY <1>5
<1>7. b \in dir' /\ r \in cache'[b].recs /\ cache'[b].hdr = "ok"
  BY <1>5, <1>6
<1> QED BY <1>3, <1>6, <1>7, StoredChained

(* The same, when nothing new is acknowledged.                              *)
LEMMA CachedKept ==
    ASSUME TypeOK, CachedStore, AckedCached, CachedStore',
           released' \in Nat, released <= released', acked' = acked,
           \A b \in dir :
               \A r \in cache[b].recs : r.lsn > released' /\ cache[b].hdr = "ok" =>
                       b \in dir' /\ r \in cache'[b].recs /\ cache'[b].hdr = "ok"
    PROVE  AckedCached'
BY CachedShown DEF AckedCached

(* The page cache starts empty.                                             *)
LEMMA CachedInit == Init => CacheInv
<1> SUFFICES ASSUME Init PROVE CacheInv
  OBVIOUS
<1>1. dir = {} /\ acked = {} /\ err = "none"
  BY DEF Init
<1>2. CachedStore /\ AckedCached /\ NoError
  BY <1>1 DEF CachedStore, AckedCached, NoError
<1>3. ~Live /\ ~IsOpen /\ pc = "closed" /\ ~poisoned
  BY DEF Init, Live, IsOpen
<1>4. CachedHandle
  BY <1>3 DEF CachedHandle, CachedCreate, CachedOpen, CachedDirectory, CachedTail, StagingOK,
              CreateSteps
<1> QED BY <1>2, <1>4 DEF CacheInv

(* Without a handle there is nothing to keep in step with the page cache.   *)
LEMMA CachedGone ==
    ASSUME NoHandle, pc' = "closed"
    PROVE  CachedHandle'
<1>1. ~Live' /\ ~IsOpen' /\ ~poisoned'
  BY DEF NoHandle, Live, IsOpen
<1> QED BY <1>1 DEF CachedHandle, CachedCreate, CachedOpen, CachedDirectory, CachedTail,
                    StagingOK, CreateSteps

(* Nor with a poisoned one.                                                 *)
LEMMA CachedPoisoned ==
    ASSUME IsOpen, Poison
    PROVE  CachedHandle'
<1>1. ~Live' /\ IsOpen' /\ pc' = "idle"
  BY DEF Poison, Live, IsOpen, segVars
<1> QED BY <1>1 DEF CachedHandle, CachedCreate, CachedOpen, CachedDirectory, CachedTail,
                    StagingOK, CreateSteps

(* The process dies, or a call fails, and the page cache stays as it is.    *)
LEMMA FaultsCached ==
    ASSUME TypeInv, CacheInv,
           \/ OpenFault \/ Kill \/ CreateFault \/ CommitSyncFault \/ CheckpointFault
    PROVE  CacheInv'
<1>0. TypeOK /\ released \in Nat
  BY DEF TypeInv, TypeOK
<1>1. UNCHANGED <<dir, cache, acked, released, err>>
  BY DEF OpenFault, Kill, CreateFault, CommitSyncFault, CheckpointFault, Poison, ghostVars, fsVars
<1>2. CachedStore' /\ AckedCached'
  BY <1>0, <1>1, CachedSame DEF CacheInv
<1>3. CachedHandle'
  <2>1. CASE OpenFault \/ Kill
    BY <2>1, CachedGone DEF OpenFault, Kill
  <2>2. CASE CreateFault
    BY <2>2, CachedGone, CachedPoisoned DEF CreateFault
  <2>3. CASE CommitSyncFault \/ CheckpointFault
    <3>1. IsOpen
      BY <2>3 DEF CommitSyncFault, CheckpointFault, CacheInv, CachedHandle, CachedOpen
    <3> QED BY <2>3, <3>1, CachedPoisoned DEF CommitSyncFault, CheckpointFault
  <2> QED BY <2>1, <2>2, <2>3
<1> QED BY <1>1, <1>2, <1>3 DEF CacheInv, NoError

(* Whenever the kernel writes the cache back, the process sees nothing.     *)
LEMMA WritebackCached ==
    ASSUME TypeInv, CacheInv, Writeback
    PROVE  CacheInv'
<1>0. TypeOK /\ released \in Nat /\ ~IsOpen /\ ~poisoned
  BY DEF TypeInv, TypeOK, Writeback, CacheInv, CachedHandle, CachedOpen
<1>1. UNCHANGED <<dir, cache, acked, released, err, segments, poisoned>> /\ pc' = "closed"
  BY DEF Writeback, ghostVars, segVars
<1>2. CachedStore' /\ AckedCached'
  BY <1>0, <1>1, CachedSame DEF CacheInv
<1>3. ~IsOpen' /\ ~Live' /\ ~poisoned'
  BY <1>0, <1>1 DEF IsOpen, Live
<1>4. CachedHandle'
  BY <1>1, <1>3 DEF CachedHandle, CachedCreate, CachedOpen, CachedDirectory, CachedTail,
                    StagingOK, CreateSteps
<1> QED BY <1>1, <1>2, <1>4 DEF CacheInv, NoError

(* open looks at the cached directory.                                      *)
LEMMA OpenStartCached ==
    ASSUME TypeInv, CacheInv, (\E seed \in Seeds : OpenStart(seed)) \/ DiscoverEmpty
    PROVE  CacheInv'
<1>0. TypeOK /\ released \in Nat /\ ~IsOpen /\ ~poisoned
  BY DEF TypeInv, TypeOK, OpenStart, DiscoverEmpty, CacheInv, CachedHandle, CachedOpen
<1>1. /\ UNCHANGED <<dir, cache, acked, released, segments, poisoned>> /\ err' = "none"
      /\ pc' = "discover" \/ (pc' = "create" /\ dir = {})
  BY DEF OpenStart, DiscoverEmpty, ghostVars, segVars, fsVars, CacheInv, NoError
<1>2. CachedStore' /\ AckedCached'
  BY <1>0, <1>1, CachedSame DEF CacheInv
<1>3. ~IsOpen' /\ ~Live' /\ ~poisoned'
  BY <1>0, <1>1 DEF IsOpen, Live
<1>4. CachedHandle'
  BY <1>1, <1>3 DEF CachedHandle, CachedCreate, CachedOpen, CachedDirectory, CachedTail,
                    StagingOK, CreateSteps
<1> QED BY <1>1, <1>2, <1>4 DEF CacheInv, NoError

(* Every file but the newest has its header.                                *)
LEMMA KeepHighestCached ==
    ASSUME TypeInv, CacheInv, KeepHighest
    PROVE  CacheInv'
<1>0. TypeOK /\ released \in Nat /\ ~IsOpen /\ ~poisoned /\ dir \subseteq Nat
  BY DEF TypeInv, TypeOK, KeepHighest, CacheInv, CachedHandle, CachedOpen, Lsns
<1>1. UNCHANGED <<dir, cache, acked, released, segments, poisoned, err>> /\ pc' = "recover"
  BY DEF KeepHighest, ghostVars, segVars, fsVars
<1>2. CachedStore' /\ AckedCached'
  BY <1>0, <1>1, CachedSame DEF CacheInv
<1>3. ~IsOpen' /\ ~Live' /\ ~poisoned'
  BY <1>0, <1>1 DEF IsOpen, Live
<1>4. ASSUME NEW b \in dir PROVE cache[b].hdr = "ok"
  <2>1. PICK a \in dir : Highest(a, dir) /\ cache[a].hdr = "ok"
    BY DEF KeepHighest
  <2>2. b = a \/ b < a
    BY <1>0, <2>1 DEF Highest
  <2> QED BY <2>1, <2>2 DEF CacheInv, CachedStore, CachedSealed
<1>5. CachedHandle'
  BY <1>1, <1>3, <1>4 DEF CachedHandle, CachedCreate, CachedOpen, CachedDirectory, CachedTail,
                          StagingOK, CreateSteps
<1> QED BY <1>1, <1>2, <1>5 DEF CacheInv, NoError

(* A file with a record has its header.                                     *)
LEMMA RejectHighestNeverCached ==
    ASSUME CacheInv, RejectHighest
    PROVE  FALSE
BY DEF RejectHighest, CacheInv, CachedStore, CachedFile, FirstRecord

(* A sealed segment ends right before the next one.                         *)
LEMMA CachedSealedEnd ==
    ASSUME TypeOK, CachedStore, NEW p \in dir, NEW b \in dir, Next_(p, b, dir)
    PROVE  RunLast(cache[p], p) + 1 = b
<1>0. p \in Lsns /\ b \in Lsns /\ p \in Nat /\ b \in Nat /\ p < b /\ cache[p] \in File
  BY DEF TypeOK, Lsns, Next_
<1>1. CachedSealed(p) /\ \A r \in cache[p].recs : r.lsn < b
  BY <1>0 DEF CachedStore
<1>2. Chained(cache[p].recs, p, HeaderSize)
  BY DEF CachedStore, CachedFile
<1>3. \A r \in cache[p].recs : r.lsn \in Nat /\ p <= r.lsn
  BY <1>0, <1>2, NamesType, EndType DEF Chained
<1>4. PICK r \in cache[p].recs : r.lsn + 1 \in dir
  BY <1>1 DEF CachedSealed
<1>5. b <= r.lsn + 1
  BY <1>0, <1>3, <1>4 DEF Next_
<1>6. PICK t \in cache[p].recs : t.lsn = RunLast(cache[p], p)
  BY <1>0, <1>2, <1>4, ChainScan
<1>7. r.lsn <= RunLast(cache[p], p)
  BY <1>0, <1>2, ChainScan
<1> QED BY <1>0, <1>1, <1>3, <1>5, <1>6, <1>7

(* Recovery accepts every segment it finds in the page cache.               *)
LEMMA NoSegmentErrorCached ==
    ASSUME TypeInv, CacheInv, pc = "recover", NEW a \in dir, Highest(a, dir), NEW b \in dir
    PROVE  SegmentError(b, a) = "none"
<1>0. /\ TypeOK /\ CachedStore /\ cache[b] \in File /\ b \in Lsns
      /\ a \in Nat /\ b \in Nat /\ b <= a /\ MaxLsn \in Nat /\ b <= MaxLsn
  <2>1. TypeOK /\ CachedStore
    BY DEF TypeInv, CacheInv
  <2>2. dir \subseteq Lsns /\ cache[b] \in File
    BY <2>1 DEF TypeOK
  <2> QED BY <2>1, <2>2, ConfigAssumption DEF Highest, Lsns
<1>1. cache[b].hdr = "ok"
  BY DEF CacheInv, CachedHandle, CachedOpen
<1>2. \A p \in dir : Next_(p, b, dir) => RunLast(cache[p], p) + 1 = b
  BY <1>0, CachedSealedEnd
<1>3. Chained(cache[b].recs, b, HeaderSize)
  BY <1>0 DEF CachedStore, CachedFile
<1>4. /\ Run(cache[b], b) = cache[b].recs
      /\ Invalid(cache[b], b) <=> cache[b].torn
      /\ ~ForwardScanFindsValid(cache[b], b)
  BY <1>0, <1>3, ChainScan
<1>5. b # a => ~cache[b].torn /\ cache[b].recs # {}
  <2>1. SUFFICES ASSUME b < a PROVE ~cache[b].torn /\ cache[b].recs # {}
    BY <1>0
  <2> QED BY <1>0, <2>1 DEF CachedStore, CachedSealed
<1>6. cache[b].torn => RunLast(cache[b], b) # MaxLsn
  <2>1. SUFFICES ASSUME cache[b].torn PROVE RunLast(cache[b], b) # MaxLsn
    OBVIOUS
  <2>2. \A r \in cache[b].recs : r.lsn < MaxLsn /\ r.lsn \in Nat
    BY <1>0, <2>1, NamesType, EndType DEF CachedStore, CachedFile
  <2>3. CASE cache[b].recs = {}
    <3>1. RunLast(cache[b], b) = b - 1
      BY <1>0, <1>3, <2>3, ChainScan
    <3> QED BY <1>0, <3>1
  <2>4. CASE cache[b].recs # {}
    <3>1. PICK r \in cache[b].recs : r.lsn = RunLast(cache[b], b)
      BY <1>0, <1>3, <2>4, ChainScan
    <3> QED BY <1>0, <2>2, <3>1
  <2> QED BY <2>3, <2>4
<1> QED BY <1>1, <1>2, <1>4, <1>5, <1>6 DEF SegmentError

(* So recover_all returns no error.                                         *)
LEMMA RecoverFatalNeverCached ==
    ASSUME TypeInv, CacheInv, RecoverFatal
    PROVE  FALSE
<1>1. PICK a \in dir, b \in dir : Highest(a, dir) /\ SegmentError(b, a) # "none"
  BY DEF RecoverFatal
<1>2. pc = "recover"
  BY DEF RecoverFatal
<1> QED BY <1>1, <1>2, NoSegmentErrorCached

(* A handle fresh from open agrees with the files it was built from.        *)
LEMMA HandleFreshCached ==
    ASSUME NEW a, NEW off, NEW last, NEW o, Handle(a, off, last, o),
           Highest(a, dir), Lowest(o, dir), dir' = dir,
           cache'[a].hdr = "ok", ~cache'[a].torn,
           RunLast(cache'[a], a) = last, RunEnd(cache'[a], a) = off
    PROVE  CachedHandle'
<1>1. /\ pc' = "idle" /\ segments' = dir /\ active' = a /\ write_offset' = off
      /\ oldest_lsn' = o /\ last_lsn' = last /\ durable_lsn' = last
      /\ staging' = {} /\ staging_len' = 0 /\ pos' = 0 /\ ~poisoned'
  BY DEF Handle
<1>2. IsOpen' /\ Live'
  BY <1>1 DEF IsOpen, Live, Highest
<1>3. CachedCreate' /\ CachedOpen'
  BY <1>1, <1>2 DEF CachedCreate, CachedOpen, CreateSteps
<1>4. CachedDirectory'
  BY <1>1 DEF CachedDirectory, CreateSteps, Highest, Lowest
<1>5. CachedTail'
  BY <1>1 DEF CachedTail, CreateSteps
<1>6. StagingOK'
  BY <1>1 DEF StagingOK, Chained
<1> QED BY <1>3, <1>4, <1>5, <1>6 DEF CachedHandle

(* open returns the handle: after recovery, or after zeroing and its sync.  *)
LEMMA RecoveredCached ==
    ASSUME TypeInv, CacheInv, RecoverClean \/ ZeroSync
    PROVE  CacheInv'
<1>0. TypeOK /\ released \in Nat
  BY DEF TypeInv, TypeOK
<1>1. UNCHANGED <<dir, cache, acked, released, err>>
  BY DEF RecoverClean, ZeroSync, ghostVars, fsVars
<1>2. CachedStore' /\ AckedCached'
  BY <1>0, <1>1, CachedSame DEF CacheInv
<1>3. PICK a \in dir, o \in dir :
        /\ Highest(a, dir) /\ Lowest(o, dir)
        /\ pc = "zero" \/ (pc = "recover" /\ ~Invalid(cache[a], a))
        /\ Handle(a, RunEnd(cache[a], a), RunLast(cache[a], a), o)
  BY DEF RecoverClean, ZeroSync
<1>4. cache[a].hdr = "ok" /\ ~cache[a].torn
  BY <1>3 DEF CacheInv, CachedHandle, CachedOpen, Invalid
<1>5. CachedHandle'
  BY <1>1, <1>3, <1>4, HandleFreshCached
<1> QED BY <1>1, <1>2, <1>5 DEF CacheInv, NoError

(* Zeroing a torn tail takes no record away.                                *)
LEMMA RecoverTornCached ==
    ASSUME TypeInv, CacheInv, RecoverTorn
    PROVE  CacheInv'
<1>0. /\ TypeOK /\ released \in Nat /\ dir \subseteq Lsns
      /\ CachedStore /\ ~IsOpen /\ ~poisoned /\ Lsns \subseteq Nat
  BY DEF TypeInv, TypeOK, RecoverTorn, CacheInv, CachedHandle, CachedOpen, Lsns
<1>1. /\ UNCHANGED <<dir, acked, released, err, segments, poisoned>>
      /\ pc' = "zero" /\ pc = "recover"
  BY DEF RecoverTorn, ghostVars, segVars
<1>2. PICK a \in dir :
        /\ Highest(a, dir)
        /\ cache' = [cache EXCEPT ![a].recs = Run(cache[a], a), ![a].torn = FALSE]
  BY DEF RecoverTorn
<1>3. CachedFile(a) /\ cache[a] \in File /\ a \in Lsns
  BY <1>0 DEF CachedStore, TypeOK
<1>4. Run(cache[a], a) = cache[a].recs
  BY <1>3, ChainedRun DEF CachedFile
<1>5. /\ cache'[a].recs = cache[a].recs /\ cache'[a].hdr = cache[a].hdr /\ ~cache'[a].torn
      /\ \A c \in dir \ {a} : cache'[c] = cache[c]
  <2>1. cache \in [Lsns -> File] /\ cache'[a] = [cache[a] EXCEPT !.recs = Run(cache[a], a), !.torn = FALSE]
    BY <1>0, <1>2, <1>3 DEF TypeOK
  <2>2. \A c \in dir \ {a} : cache'[c] = cache[c]
    BY <1>0, <1>2, <2>1
  <2> QED BY <1>3, <1>4, <2>1, <2>2 DEF File
<1>6. CachedFile(a)'
  BY <1>3, <1>5 DEF CachedFile
<1>7. CachedStore'
  BY <1>0, <1>1, <1>2, <1>3, <1>5, <1>6, CachedNewest DEF Highest
<1>8. AckedCached'
  BY <1>0, <1>1, <1>5, <1>7, CachedKept DEF CacheInv
<1>9. \A b \in dir : cache[b].hdr = "ok"
  BY <1>1 DEF CacheInv, CachedHandle, CachedOpen
<1>10. ASSUME NEW b \in dir PROVE ~cache'[b].torn /\ cache'[b].hdr = "ok"
  <2>1. CASE b = a
    BY <1>5, <1>9, <2>1
  <2>2. CASE b # a
    <3>1. b < a
      BY <1>0, <1>2, <2>2 DEF Highest
    <3>2. ~cache[b].torn
      BY <1>0, <1>2, <3>1 DEF CachedStore, CachedSealed
    <3> QED BY <1>5, <1>9, <2>2, <3>2
  <2> QED BY <2>1, <2>2
<1>11. ~IsOpen' /\ ~Live' /\ ~poisoned' /\ dir' = dir
  BY <1>0, <1>1 DEF IsOpen, Live
<1>12. CachedHandle'
  BY <1>1, <1>10, <1>11 DEF CachedHandle, CachedCreate, CachedOpen, CachedDirectory, CachedTail,
                            StagingOK, CreateSteps
<1> QED BY <1>1, <1>7, <1>8, <1>12 DEF CacheInv, NoError

(* Only an empty file is discarded.                                         *)
LEMMA DiscardHighestCached ==
    ASSUME TypeInv, CacheInv, DiscardHighest
    PROVE  CacheInv'
<1>0. /\ TypeOK /\ released \in Nat /\ dir \subseteq Nat
      /\ CachedStore /\ ~IsOpen /\ ~poisoned
  BY DEF TypeInv, TypeOK, DiscardHighest, CacheInv, CachedHandle, CachedOpen, Lsns
<1>1. /\ UNCHANGED <<cache, acked, released, err, segments, poisoned>> /\ pc' = "discard"
  BY DEF DiscardHighest, ghostVars, segVars
<1>2. PICK a \in dir : Highest(a, dir) /\ cache[a].hdr # "ok" /\ dir' = dir \ {a}
  BY DEF DiscardHighest
<1>3. cache[a].recs = {}
  BY <1>0, <1>2 DEF CachedStore, CachedFile
<1>4. \A b \in dir' : b < a
  BY <1>0, <1>2 DEF Highest
<1>5. ASSUME NEW b \in dir', NEW c \in dir', b < c
      PROVE  CachedSealed(b)' /\ \A r \in cache[b].recs : r.lsn < c
  <2>1. CachedSealed(b) /\ \A r \in cache[b].recs : r.lsn < c
    BY <1>0, <1>2, <1>5 DEF CachedStore
  <2>2. PICK r \in cache[b].recs : r.lsn + 1 \in dir
    BY <2>1 DEF CachedSealed
  <2>3. b \in Lsns /\ b \in Nat /\ c \in Nat /\ a \in Nat /\ c < a /\ r.lsn < c
    BY <1>0, <1>2, <1>4, <2>1 DEF TypeOK
  <2>4. r.lsn \in Nat
    BY <1>0, <2>3, NamesType, EndType
  <2>5. r.lsn + 1 # a
    BY <2>3, <2>4
  <2> QED BY <1>1, <1>2, <2>1, <2>2, <2>5 DEF CachedSealed
<1>6. CachedStore'
  <2>1. \A b \in dir' : CachedFile(b)'
    BY <1>0, <1>1, <1>2 DEF CachedStore, CachedFile
  <2> QED BY <1>1, <1>5, <2>1 DEF CachedStore
<1>7. AckedCached'
  BY <1>0, <1>1, <1>2, <1>3, <1>6, CachedKept DEF CacheInv
<1>8. \A b \in dir' : cache'[b].hdr = "ok"
  <2>1. \A b \in dir : b < a => cache[b].hdr = "ok"
    BY <1>0, <1>2 DEF CachedStore, CachedSealed
  <2> QED BY <1>1, <1>2, <1>4, <2>1
<1>9. ~IsOpen' /\ ~Live' /\ ~poisoned'
  BY <1>0, <1>1 DEF IsOpen, Live
<1>10. CachedHandle'
  BY <1>1, <1>8, <1>9 DEF CachedHandle, CachedCreate, CachedOpen, CachedDirectory, CachedTail,
                           StagingOK, CreateSteps
<1> QED BY <1>1, <1>6, <1>7, <1>10 DEF CacheInv, NoError

(* The directory fsync changes nothing a process sees.                      *)
LEMMA DiscardSyncCached ==
    ASSUME TypeInv, CacheInv, DiscardSync
    PROVE  CacheInv'
<1>0. /\ TypeOK /\ released \in Nat /\ ~IsOpen /\ ~poisoned /\ \A b \in dir : cache[b].hdr = "ok"
  BY DEF TypeInv, TypeOK, DiscardSync, CacheInv, CachedHandle, CachedOpen
<1>1. /\ UNCHANGED <<dir, cache, acked, released, err, segments, poisoned>>
      /\ pc' = "recover" \/ (pc' = "create" /\ dir = {})
  BY DEF DiscardSync, ghostVars, segVars
<1>2. CachedStore' /\ AckedCached'
  BY <1>0, <1>1, CachedSame DEF CacheInv
<1>3. ~IsOpen' /\ ~Live' /\ ~poisoned' /\ \A b \in dir' : cache'[b].hdr = "ok"
  BY <1>0, <1>1 DEF IsOpen, Live
<1>4. CachedHandle'
  BY <1>1, <1>3 DEF CachedHandle, CachedCreate, CachedOpen, CachedDirectory, CachedTail,
                    StagingOK, CreateSteps
<1> QED BY <1>1, <1>2, <1>4 DEF CacheInv, NoError

(* roll creates its segment above every other, right behind the last record *)
(* of the active one.                                                       *)
LEMMA CachedTargetTop ==
    ASSUME TypeInv, CacheInv, IsOpen, pc \in CreateSteps
    PROVE  /\ Live /\ \A b \in segments : b < target
           /\ active \in segments /\ \A b \in segments : b <= active
           /\ target = durable_lsn + 1
           /\ \E r \in cache[active].recs : r.lsn = durable_lsn
           /\ \A r \in cache[active].recs : r.lsn <= durable_lsn
           /\ cache[active].hdr = "ok" /\ ~cache[active].torn
           /\ active <= durable_lsn /\ durable_lsn \in Nat /\ segments \subseteq Nat
<1>1. TypeOK /\ segments \subseteq Lsns /\ segments \subseteq Nat /\ durable_lsn \in Nat
  BY DEF TypeInv, TypeOK, Lsns
<1>2. Live
  BY DEF Live, CacheInv, CachedHandle, CachedOpen, CreateSteps
<1>3. Highest(active, segments) /\ segments \subseteq dir
  BY <1>2 DEF CacheInv, CachedHandle, CachedDirectory, CreateSteps
<1>4. /\ cache[active].hdr = "ok" /\ ~cache[active].torn
      /\ RunLast(cache[active], active) = durable_lsn
      /\ target = durable_lsn + 1 /\ cache[active].recs # {}
  BY <1>2 DEF CacheInv, CachedHandle, CachedTail, CreateSteps
<1>5. active \in dir /\ active \in Lsns /\ cache[active] \in File /\ active \in Nat
  BY <1>1, <1>3 DEF Highest, TypeOK
<1>6. Chained(cache[active].recs, active, HeaderSize)
  BY <1>5 DEF CacheInv, CachedStore, CachedFile
<1>7. /\ \A r \in cache[active].recs : r.lsn <= durable_lsn
      /\ \E r \in cache[active].recs : r.lsn = durable_lsn
  BY <1>4, <1>5, <1>6, ChainScan
<1>8. active <= durable_lsn
  BY <1>6, <1>7 DEF Chained
<1>9. \A b \in segments : b < target
  BY <1>1, <1>3, <1>4, <1>5, <1>8 DEF Highest
<1> QED BY <1>1, <1>2, <1>3, <1>4, <1>7, <1>8, <1>9 DEF Highest

(* A new file is the newest, and its predecessor is complete by then.       *)
LEMMA CreateNewCached ==
    ASSUME TypeInv, CacheInv, CreateNew
    PROVE  CacheInv'
<1>0. /\ TypeOK /\ released \in Nat /\ dir \subseteq Lsns
      /\ CachedStore /\ Lsns \subseteq Nat /\ target \in Lsns
  BY DEF TypeInv, TypeOK, CreateNew, CacheInv, CreateSteps, Lsns
<1>1. /\ UNCHANGED <<target, acked, released, err, poisoned, segVars, lsnVars,
                     staging, staging_len, pos>>
      /\ pc = "create" /\ pc' = "allocate"
      /\ target \notin dir /\ dir' = dir \cup {target}
      /\ pc \in CreateSteps /\ ~poisoned
  BY DEF CreateNew, ghostVars, bufVars, CreateSteps, CacheInv, CachedHandle, CachedOpen
<1>2. /\ cache'[target] = NewFile
      /\ \A b \in dir : cache'[b] = cache[b]
  BY <1>0, <1>1 DEF CreateNew, TypeOK
<1>3. (IsOpen => dir = segments) /\ (~IsOpen => dir = {})
  <2>1. CASE IsOpen
    BY <1>1, <2>1 DEF Live, CacheInv, CachedHandle, CachedDirectory
  <2>2. CASE ~IsOpen
    BY <1>1, <2>2 DEF CacheInv, CachedHandle, CachedCreate
  <2> QED BY <2>1, <2>2
<1>4. \A b \in dir : b < target
  BY <1>1, <1>3, CachedTargetTop
<1>5. ASSUME NEW b \in dir' PROVE CachedFile(b)'
  <2>1. CASE b = target
    BY <1>2, <2>1 DEF CachedFile, Chained, NewFile
  <2>2. CASE b \in dir
    <3>1. CachedFile(b)
      BY <1>0, <2>2 DEF CachedStore
    <3> QED BY <1>2, <2>2, <3>1 DEF CachedFile
  <2> QED BY <1>1, <2>1, <2>2
<1>6. ASSUME NEW b \in dir', NEW c \in dir', b < c
      PROVE  CachedSealed(b)' /\ \A r \in cache'[b].recs : r.lsn < c
  <2>0. b \in dir /\ b \in Nat
    <3>1. \A n \in Nat : ~(n < n)
      OBVIOUS
    <3>2. dir' \subseteq Nat /\ target \in Nat
      BY <1>0, <1>1
    <3>3. c = target \/ c < target
      BY <1>1, <1>4
    <3>4. b # target
      BY <1>6, <3>2, <3>3
    <3> QED BY <1>1, <3>2, <3>4
  <2>1. CASE c \in dir
    <3>1. CachedSealed(b) /\ \A r \in cache[b].recs : r.lsn < c
      BY <1>0, <1>6, <2>0, <2>1 DEF CachedStore
    <3> QED BY <1>1, <1>2, <2>0, <3>1 DEF CachedSealed
  <2>2. CASE c = target
    <3>0. IsOpen /\ dir = segments
      BY <1>3, <2>0
    <3>1. CASE b = active
      <4>1. /\ \E r \in cache[active].recs : r.lsn = durable_lsn
            /\ \A r \in cache[active].recs : r.lsn <= durable_lsn /\ r.lsn \in Nat
            /\ cache[active].hdr = "ok" /\ ~cache[active].torn
            /\ durable_lsn \in Nat /\ target = durable_lsn + 1
        <5>1. active \in Lsns
          BY <1>0, <2>0, <3>1
        <5>2. \A r \in cache[active].recs : r.lsn \in Nat
          BY <1>0, <5>1, NamesType, EndType
        <5> QED BY <1>1, <3>0, <5>2, CachedTargetTop
      <4> QED BY <1>1, <1>2, <2>0, <2>2, <3>1, <4>1 DEF CachedSealed
    <3>2. CASE b # active
      <4>1. active \in dir /\ b < active /\ active <= durable_lsn /\ target = durable_lsn + 1
            /\ durable_lsn \in Nat /\ active \in Nat
        <5>1. active \in dir /\ b <= active /\ active <= durable_lsn /\ target = durable_lsn + 1
              /\ durable_lsn \in Nat /\ active \in Nat
          BY <1>1, <2>0, <3>0, CachedTargetTop
        <5> QED BY <2>0, <3>2, <5>1
      <4>2. CachedSealed(b) /\ \A r \in cache[b].recs : r.lsn < active
        BY <1>0, <2>0, <4>1 DEF CachedStore
      <4>3. \A r \in cache[b].recs : r.lsn \in Nat
        BY <1>0, <2>0, NamesType, EndType
      <4>4. \A r \in cache[b].recs : r.lsn < c
        BY <2>2, <4>1, <4>2, <4>3
      <4> QED BY <1>1, <1>2, <2>0, <4>2, <4>4 DEF CachedSealed
    <3> QED BY <3>1, <3>2
  <2> QED BY <1>1, <2>1, <2>2
<1>7. CachedStore'
  BY <1>5, <1>6 DEF CachedStore
<1>8. AckedCached'
  BY <1>0, <1>1, <1>2, <1>7, CachedKept DEF CacheInv
<1>9. CachedCreate' /\ CachedOpen'
  <2>1. ~IsOpen' => dir' = {target'}
    BY <1>1, <1>3 DEF IsOpen, segVars
  <2>2. cache'[target'].recs = {} /\ ~cache'[target'].torn
    BY <1>1, <1>2 DEF NewFile
  <2> QED BY <1>1, <2>1, <2>2 DEF CachedCreate, CachedOpen, CreateSteps
<1>10. ASSUME Live' PROVE CachedDirectory' /\ CachedTail'
  <2>1. Live /\ IsOpen
    BY <1>1, <1>10 DEF Live, IsOpen, segVars
  <2>2. active \in dir /\ dir = segments
    BY <1>1, <1>3, <2>1, CachedTargetTop
  <2>3. CachedDirectory'
    BY <1>1, <2>1, <2>2 DEF CacheInv, CachedHandle, CachedDirectory, CreateSteps, segVars
  <2>4. cache'[active'] = cache[active]
    BY <1>1, <1>2, <2>2 DEF segVars
  <2>5. CachedTail'
    BY <1>1, <2>1, <2>4 DEF CacheInv, CachedHandle, CachedTail, CreateSteps, segVars, lsnVars
  <2> QED BY <2>3, <2>5
<1>11. StagingOK'
  BY <1>1, StagingSame DEF CacheInv, CachedHandle, segVars
<1>12. CachedHandle'
  BY <1>9, <1>10, <1>11 DEF CachedHandle, CachedDirectory, CachedTail
<1> QED BY <1>1, <1>7, <1>8, <1>12 DEF CacheInv, NoError

(* The steps that give the new segment its header.                          *)
LEMMA HeaderCached ==
    ASSUME TypeInv, CacheInv, Allocate \/ WriteHeader \/ SyncHeader
    PROVE  CacheInv'
<1>0. /\ TypeOK /\ released \in Nat /\ dir \subseteq Lsns /\ cache \in [Lsns -> File]
      /\ CachedStore /\ target \in Lsns /\ ~poisoned /\ target \in Nat /\ dir \subseteq Nat
      /\ pc \in CreateSteps \ {"create"} /\ pc \in CreateSteps
  BY DEF TypeInv, TypeOK, CacheInv, CreateSteps, Lsns, CachedHandle, CachedOpen, Allocate,
         WriteHeader, SyncHeader
<1>1. /\ UNCHANGED <<dir, target, acked, released, err, poisoned, segVars, lsnVars,
                     staging, staging_len, pos, segments, active>>
      /\ pc' \in {"header", "headersync", "dirsync"}
      /\ IsOpen' = IsOpen /\ Live' = Live
  BY DEF Allocate, WriteHeader, SyncHeader, ghostVars, bufVars, segVars, IsOpen, Live
<1>2. /\ cache[target].recs = {} /\ ~cache[target].torn /\ cache[target] \in File
      /\ pc = "headersync" => cache[target].hdr = "ok"
  BY <1>0 DEF CacheInv, CachedHandle, CachedCreate
<1>3. /\ cache'[target].recs = {} /\ ~cache'[target].torn
      /\ pc' \in {"headersync", "dirsync"} => cache'[target].hdr = "ok"
      /\ \A b \in Lsns \ {target} : cache'[b] = cache[b]
  <2>1. CASE Allocate
    <3>1. cache'[target] = [cache[target] EXCEPT !.hdr = "zero"] /\ pc' = "header"
          /\ \A b \in Lsns \ {target} : cache'[b] = cache[b]
      BY <1>0, <2>1 DEF Allocate
    <3> QED BY <1>2, <3>1 DEF File
  <2>2. CASE WriteHeader
    <3>1. cache'[target] = [cache[target] EXCEPT !.hdr = "ok"]
          /\ \A b \in Lsns \ {target} : cache'[b] = cache[b]
      BY <1>0, <2>2 DEF WriteHeader
    <3> QED BY <1>2, <3>1 DEF File
  <2>3. CASE SyncHeader
    BY <1>2, <2>3 DEF SyncHeader
  <2> QED BY <2>1, <2>2, <2>3
<1>4. /\ IsOpen => dir = segments \cup {target}
      /\ ~IsOpen => dir = {target}
  <2>1. CASE IsOpen
    BY <1>0, <2>1 DEF Live, CacheInv, CachedHandle, CachedDirectory, CreateSteps
  <2>2. CASE ~IsOpen
    BY <1>0, <2>2 DEF CacheInv, CachedHandle, CachedCreate, CreateSteps
  <2> QED BY <2>1, <2>2
<1>5. \A c \in dir : c <= target
  <2>1. IsOpen => \A c \in segments : c < target
    BY <1>0, CachedTargetTop
  <2>2. \A c \in dir : c = target \/ c < target
    BY <1>4, <2>1
  <2> QED BY <1>0, <2>2
<1>6. CachedStore'
  <2>1. ASSUME NEW a \in Lsns, a = target PROVE CachedFile(a)'
    BY <1>3, <2>1 DEF CachedFile, Chained
  <2>2. \A c \in dir \ {target} : cache'[c] = cache[c]
    BY <1>0, <1>3
  <2> QED BY <1>0, <1>1, <1>5, <2>1, <2>2, CachedNewest
<1>7. AckedCached'
  <2>1. ASSUME NEW b \in dir, NEW r \in cache[b].recs
        PROVE  b \in dir' /\ cache'[b] = cache[b]
    BY <1>0, <1>1, <1>2, <1>3
  <2> QED BY <1>0, <1>1, <1>6, <2>1, CachedKept DEF CacheInv
<1>8. CachedCreate' /\ CachedOpen'
  BY <1>0, <1>1, <1>3, <1>4 DEF CachedCreate, CachedOpen, CreateSteps
<1>9. ASSUME Live PROVE CachedDirectory' /\ CachedTail'
  <2>1. active # target /\ active \in Lsns
    BY <1>0, <1>9, CachedTargetTop DEF Live, TypeOK
  <2>2. cache'[active'] = cache[active]
    BY <1>1, <1>3, <2>1
  <2>3. CachedDirectory'
    BY <1>0, <1>1, <1>9 DEF CacheInv, CachedHandle, CachedDirectory, CreateSteps, segVars
  <2>4. CachedTail'
    BY <1>0, <1>1, <1>9, <2>2 DEF CacheInv, CachedHandle, CachedTail, CreateSteps, segVars, lsnVars
  <2> QED BY <2>3, <2>4
<1>10. StagingOK'
  BY <1>1, StagingSame DEF CacheInv, CachedHandle
<1>11. CachedHandle'
  BY <1>1, <1>8, <1>9, <1>10 DEF CachedHandle, CachedDirectory, CachedTail
<1> QED BY <1>1, <1>6, <1>7, <1>11 DEF CacheInv, NoError

(* cold_start returns a handle on one empty segment.                        *)
LEMMA ColdStartedCached ==
    ASSUME TypeInv, CacheInv, ColdStarted
    PROVE  CacheInv'
<1>0. TypeOK /\ released \in Nat /\ pc = "dirsync" /\ ~IsOpen /\ target \in Nat
  BY DEF TypeInv, TypeOK, ColdStarted, CacheInv, CreateSteps, Lsns
<1>1. /\ UNCHANGED <<dir, cache, acked, released, err>>
      /\ Handle(target, HeaderSize, target - 1, target)
  BY DEF ColdStarted, ghostVars
<1>2. CachedStore' /\ AckedCached'
  BY <1>0, <1>1, CachedSame DEF CacheInv
<1>3. /\ dir = {target} /\ cache[target].recs = {} /\ ~cache[target].torn
      /\ cache[target].hdr = "ok"
  BY <1>0 DEF CacheInv, CachedHandle, CachedCreate, CreateSteps
<1>4. RunLast(cache[target], target) = target - 1 /\ RunEnd(cache[target], target) = HeaderSize
  BY <1>3, EmptyRun
<1>5. Highest(target, dir) /\ Lowest(target, dir)
  BY <1>0, <1>3 DEF Highest, Lowest
<1>6. CachedHandle'
  <2>1. ASSUME NEW a, a = target PROVE CachedHandle'
    BY <1>1, <1>3, <1>4, <1>5, <2>1, HandleFreshCached
  <2> QED BY <2>1
<1> QED BY <1>1, <1>2, <1>6 DEF CacheInv, NoError

(* roll makes the new file active.                                          *)
LEMMA RolledCached ==
    ASSUME TypeInv, CacheInv, Rolled
    PROVE  CacheInv'
<1>0. TypeOK /\ released \in Nat /\ pc = "dirsync" /\ IsOpen /\ target \in Nat /\ ~poisoned
      /\ pc \in CreateSteps
  BY DEF TypeInv, TypeOK, Rolled, CacheInv, CreateSteps, Lsns, CachedHandle, CachedOpen
<1>1. /\ UNCHANGED <<dir, cache, acked, released, err, oldest_lsn, lsnVars, staging,
                     staging_len, pos, poisoned>>
      /\ pc' = "commit"
      /\ active' = target /\ write_offset' = HeaderSize /\ segments' = segments \cup {target}
  BY DEF Rolled, ghostVars, bufVars, Activate
<1>2. CachedStore' /\ AckedCached'
  BY <1>0, <1>1, CachedSame DEF CacheInv
<1>3. /\ cache[target].recs = {} /\ ~cache[target].torn /\ cache[target].hdr = "ok"
  BY <1>0 DEF CacheInv, CachedHandle, CachedCreate, CreateSteps
<1>4. RunLast(cache[target], target) = target - 1 /\ RunEnd(cache[target], target) = HeaderSize
  BY <1>3, EmptyRun
<1>5. /\ Live /\ \A b \in segments : b < target
      /\ target = durable_lsn + 1 /\ durable_lsn \in Nat /\ segments \subseteq Nat
  BY <1>0, CachedTargetTop
<1>6. dir = segments \cup {target} /\ Lowest(oldest_lsn, segments)
  BY <1>0, <1>5 DEF CacheInv, CachedHandle, CachedDirectory, CreateSteps
<1>7. dir' = dir /\ cache' = cache /\ segments' = dir
  BY <1>1, <1>6
<1>8. Live' /\ IsOpen'
  BY <1>0, <1>1 DEF Live, IsOpen
<1>9. CachedDirectory'
  <2>1. Highest(target, dir)
    BY <1>0, <1>5, <1>6 DEF Highest
  <2>2. Lowest(oldest_lsn, dir)
    BY <1>0, <1>5, <1>6 DEF Lowest
  <2> QED BY <1>1, <1>7, <2>1, <2>2 DEF CachedDirectory, CreateSteps
<1>10. CachedTail'
  <2>1. durable_lsn' = target - 1
    BY <1>1, <1>5 DEF lsnVars
  <2> QED BY <1>1, <1>3, <1>4, <1>7, <2>1 DEF CachedTail, CreateSteps
<1>11. StagingOK'
  BY <1>0, <1>1, <1>8 DEF CacheInv, CachedHandle, StagingOK, lsnVars, Live, IsOpen
<1>12. CachedCreate' /\ CachedOpen'
  BY <1>0, <1>1, <1>8 DEF CachedCreate, CachedOpen, CreateSteps
<1> QED BY <1>1, <1>2, <1>9, <1>10, <1>11, <1>12 DEF CacheInv, NoError, CachedHandle

(* The segments a checkpoint picks hold released records only.              *)
LEMMA CheckpointStartCached ==
    ASSUME TypeInv, CacheInv, NEW u \in 0..MaxLsn, CheckpointStart(u)
    PROVE  CacheInv'
<1>0. /\ TypeOK /\ CachedStore /\ pc = "idle" /\ IsOpen /\ ~poisoned /\ Live
      /\ released \in Nat /\ u \in Nat /\ segments \subseteq Nat /\ segments \subseteq Lsns
  BY DEF TypeInv, TypeOK, CheckpointStart, Ready, CacheInv, Live, Lsns
<1>1. /\ UNCHANGED <<fsVars, segVars, lsnVars, bufVars, acked, err, poisoned>>
      /\ pc' \in {"idle", "unlink"} /\ doomed' = Deletable(u)
      /\ released' \in Nat /\ released <= released' /\ u <= released'
  BY <1>0 DEF CheckpointStart
<1>2. IsOpen' /\ Live' /\ dir' = dir /\ cache' = cache
      /\ segments' = segments /\ active' = active /\ oldest_lsn' = oldest_lsn
  BY <1>0, <1>1 DEF IsOpen, Live, segVars, fsVars
<1>3. CachedStore' /\ AckedCached'
  BY <1>0, <1>1, <1>2, CachedSame DEF CacheInv
<1>4. Highest(active, segments) /\ Lowest(oldest_lsn, segments) /\ dir = segments
  BY <1>0 DEF CacheInv, CachedHandle, CachedDirectory
<1>5. active \notin Deletable(u)
  BY <1>0, <1>4 DEF Deletable, Highest
<1>6. \A d \in Deletable(u), b \in segments : b < d => b \in Deletable(u)
  BY <1>0 DEF Deletable
<1>7. ASSUME NEW d \in Deletable(u), NEW r \in cache[d].recs PROVE r.lsn <= released'
  <2>1. PICK n \in segments : d \in segments /\ d < n /\ n - 1 <= u
    BY DEF Deletable
  <2>2. r.lsn < n
    BY <1>0, <1>4, <2>1 DEF CachedStore
  <2>3. r.lsn \in Nat /\ n \in Nat
    BY <1>0, <2>1, NamesType, EndType
  <2> QED BY <1>0, <1>1, <2>1, <2>2, <2>3
<1>8. CachedDirectory'
  BY <1>1, <1>2, <1>4, <1>5, <1>6, <1>7 DEF CachedDirectory, CreateSteps
<1>9. CachedTail'
  BY <1>0, <1>1, <1>2 DEF CacheInv, CachedHandle, CachedTail, CreateSteps, segVars, lsnVars
<1>10. StagingOK'
  BY <1>0, <1>1, <1>2 DEF CacheInv, CachedHandle, StagingOK, bufVars, lsnVars
<1>11. CachedCreate' /\ CachedOpen'
  BY <1>0, <1>1, <1>2 DEF CachedCreate, CachedOpen, CreateSteps
<1> QED BY <1>1, <1>3, <1>8, <1>9, <1>10, <1>11 DEF CacheInv, NoError, CachedHandle

(* Segments go oldest first, so what is left is a suffix of the log.        *)
LEMMA CheckpointUnlinkCached ==
    ASSUME TypeInv, CacheInv, CheckpointUnlink
    PROVE  CacheInv'
<1>0. /\ TypeOK /\ CachedStore /\ pc = "unlink" /\ IsOpen /\ ~poisoned /\ Live
      /\ released \in Nat /\ segments \subseteq Nat /\ segments \subseteq Lsns
  BY DEF TypeInv, TypeOK, CheckpointUnlink, CacheInv, Live, Lsns, CachedHandle, CachedOpen
<1>1. UNCHANGED <<cache, pc, doomed, segVars, lsnVars, bufVars, poisoned, err,
                  acked, released, segments, active, oldest_lsn>>
  BY DEF CheckpointUnlink, ghostVars, segVars
<1>2. PICK b \in doomed : Lowest(b, doomed \cap dir) /\ dir' = dir \ {b}
  BY DEF CheckpointUnlink
<1>3. /\ Highest(active, segments) /\ Lowest(oldest_lsn, segments)
      /\ dir \subseteq segments /\ segments \ dir \subseteq doomed
      /\ active \notin doomed
      /\ \A x \in segments \ dir, c \in dir : x < c
      /\ \A d \in doomed, x \in segments : x < d => x \in doomed
      /\ \A d \in doomed : \A r \in cache[d].recs : r.lsn <= released
  BY <1>0 DEF CacheInv, CachedHandle, CachedDirectory
<1>4. b \in dir /\ b \in Nat /\ b \in Lsns
  BY <1>0, <1>2, <1>3 DEF Lowest
<1>5. \A c \in dir' : b < c
  <2>1. ASSUME NEW c \in dir' PROVE b < c
    <3>1. c \in dir /\ c # b /\ c \in segments /\ c \in Nat
      BY <1>0, <1>2, <1>3
    <3>2. c \in doomed => b <= c
      BY <1>2, <3>1 DEF Lowest
    <3>3. c < b => c \in doomed
      BY <1>3, <3>1
    <3> QED BY <1>4, <3>1, <3>2, <3>3
  <2> QED BY <2>1
<1>6. \A x \in segments \ dir', c \in dir' : x < c
  BY <1>2, <1>3, <1>5
<1>7. segments \ dir' \subseteq doomed /\ dir' \subseteq segments
  BY <1>2, <1>3
<1>8. CachedStore'
  <2>1. \A x \in dir' : CachedFile(x)'
    BY <1>0, <1>1, <1>2 DEF CachedStore, CachedFile
  <2>2. ASSUME NEW x \in dir', NEW c \in dir', x < c
        PROVE  CachedSealed(x)' /\ \A r \in cache[x].recs : r.lsn < c
    <3>1. CachedSealed(x) /\ \A r \in cache[x].recs : r.lsn < c
      BY <1>0, <1>2, <2>2 DEF CachedStore
    <3>2. PICK r \in cache[x].recs : r.lsn + 1 \in dir
      BY <3>1 DEF CachedSealed
    <3>3. x \in Lsns /\ x \in Nat /\ b < x /\ x <= r.lsn
      BY <1>0, <1>2, <1>3, <1>5 DEF CachedStore, CachedFile, Chained
    <3>4. r.lsn \in Nat
      BY <1>0, <3>3, NamesType, EndType
    <3>5. r.lsn + 1 # b
      BY <1>4, <3>3, <3>4
    <3> QED BY <1>1, <1>2, <3>1, <3>2, <3>5 DEF CachedSealed
  <2> QED BY <1>1, <2>1, <2>2 DEF CachedStore
<1>9. AckedCached'
  <2>1. \A r \in cache[b].recs : ~(r.lsn > released)
    <3>1. \A r \in cache[b].recs : r.lsn \in Nat
      BY <1>0, <1>4, NamesType, EndType
    <3> QED BY <1>0, <1>3, <3>1
  <2>2. ASSUME NEW x \in dir, NEW r \in cache[x].recs, r.lsn > released'
        PROVE  x \in dir' /\ cache'[x] = cache[x]
    BY <1>1, <1>2, <2>1, <2>2
  <2> QED BY <1>0, <1>1, <1>8, <2>2, CachedKept DEF CacheInv
<1>10. IsOpen' /\ Live'
  BY <1>0, <1>1 DEF IsOpen, Live
<1>11. CachedDirectory'
  BY <1>0, <1>1, <1>3, <1>6, <1>7 DEF CachedDirectory, CreateSteps
<1>12. CachedTail'
  BY <1>0, <1>1, <1>10 DEF CacheInv, CachedHandle, CachedTail, CreateSteps, segVars, lsnVars
<1>13. StagingOK'
  BY <1>0, <1>1, <1>10 DEF CacheInv, CachedHandle, StagingOK, bufVars, lsnVars
<1>14. CachedCreate' /\ CachedOpen'
  BY <1>0, <1>1, <1>10 DEF CachedCreate, CachedOpen, CreateSteps
<1> QED BY <1>1, <1>8, <1>9, <1>11, <1>12, <1>13, <1>14 DEF CacheInv, NoError, CachedHandle

(* Then the handle forgets the deleted segments.                            *)
LEMMA CheckpointSyncCached ==
    ASSUME TypeInv, CacheInv, CheckpointSync
    PROVE  CacheInv'
<1>0. /\ TypeOK /\ released \in Nat /\ pc = "unlink" /\ IsOpen /\ ~poisoned /\ Live
  BY DEF TypeInv, TypeOK, CheckpointSync, CacheInv, Live, CachedHandle, CachedOpen
<1>1. /\ UNCHANGED <<dir, cache, active, write_offset, lsnVars, bufVars, poisoned, err,
                     acked, released>>
      /\ pc' = "idle" /\ segments' = segments \ doomed
      /\ doomed \cap dir = {} /\ Lowest(oldest_lsn', segments \ doomed)
  BY DEF CheckpointSync, ghostVars
<1>2. CachedStore' /\ AckedCached'
  BY <1>0, <1>1, CachedSame DEF CacheInv
<1>3. /\ Highest(active, segments) /\ active \notin doomed
      /\ dir \subseteq segments /\ segments \ dir \subseteq doomed
  BY <1>0 DEF CacheInv, CachedHandle, CachedDirectory
<1>4. dir' = segments' /\ Highest(active', segments') /\ Lowest(oldest_lsn', segments')
  BY <1>1, <1>3 DEF Highest
<1>5. IsOpen' /\ Live'
  BY <1>0, <1>1, <1>4 DEF IsOpen, Live, Highest
<1>6. CachedDirectory'
  BY <1>1, <1>4 DEF CachedDirectory, CreateSteps
<1>7. CachedTail'
  BY <1>0, <1>1, <1>5 DEF CacheInv, CachedHandle, CachedTail, CreateSteps, lsnVars
<1>8. StagingOK'
  BY <1>0, <1>1, <1>5 DEF CacheInv, CachedHandle, StagingOK, bufVars, lsnVars
<1>9. CachedCreate' /\ CachedOpen'
  BY <1>0, <1>1, <1>5 DEF CachedCreate, CachedOpen, CreateSteps
<1> QED BY <1>1, <1>2, <1>6, <1>7, <1>8, <1>9 DEF CacheInv, NoError, CachedHandle

(* append stages a record and changes nothing else.                         *)
LEMMA AppendCached ==
    ASSUME TypeInv, CacheInv, NEW p \in Payloads, Append(p)
    PROVE  CacheInv'
<1>0. /\ TypeOK /\ pc = "idle" /\ IsOpen /\ ~poisoned /\ Live /\ released \in Nat
  BY DEF TypeInv, TypeOK, Append, Ready, Live
<1>1. UNCHANGED <<dir, cache, pc, segVars, durable_lsn, pos, acked, released, err, poisoned>>
  BY DEF Append, ghostVars, fsVars
<1>2. CachedStore' /\ AckedCached'
  BY <1>0, <1>1, CachedSame DEF CacheInv
<1>3. IsOpen' /\ Live' /\ segments' = segments
  BY <1>0, <1>1 DEF IsOpen, Live, segVars
<1>4. StagingOK'
  BY <1>0, AppendStaging DEF CacheInv, CachedHandle
<1>5. CachedDirectory'
  BY <1>0, <1>1, <1>3 DEF CacheInv, CachedHandle, CachedDirectory, CreateSteps, segVars
<1>6. CachedTail'
  BY <1>0, <1>1, <1>3 DEF CacheInv, CachedHandle, CachedTail, CreateSteps, segVars
<1>7. CachedCreate' /\ CachedOpen'
  BY <1>0, <1>1, <1>3 DEF CachedCreate, CachedOpen, CreateSteps
<1> QED BY <1>1, <1>2, <1>4, <1>5, <1>6, <1>7 DEF CacheInv, NoError, CachedHandle

(* commit starts at the front of the staging buffer, or rolls because the   *)
(* next record does not fit.                                                *)
LEMMA CommitTurnCached ==
    ASSUME TypeInv, CacheInv, CommitStart \/ CommitNoFit
    PROVE  CacheInv'
<1>0. /\ TypeOK /\ pc \in {"idle", "commit"} /\ IsOpen /\ ~poisoned /\ Live /\ released \in Nat
  BY DEF TypeInv, TypeOK, CommitStart, CommitNoFit, Ready, CacheInv, Live, CachedHandle,
         CachedOpen
<1>1. UNCHANGED <<dir, cache, segVars, lsnVars, staging, staging_len, acked, released, err,
                  poisoned>>
  BY DEF CommitStart, CommitNoFit, ghostVars, fsVars, bufVars
<1>2. CachedStore' /\ AckedCached'
  BY <1>0, <1>1, CachedSame DEF CacheInv
<1>3. IsOpen' /\ Live' /\ segments' = segments
  BY <1>0, <1>1 DEF IsOpen, Live, segVars
<1>4. pos' = pos /\ pc' \in {"commit", "create"}
  BY <1>0 DEF CommitStart, CommitNoFit, Ready, bufVars, CacheInv, CachedHandle, StagingOK
<1>5. pc' = "create" => target' = durable_lsn + 1 /\ cache[active].recs # {}
  <2>1. SUFFICES ASSUME CommitNoFit PROVE target' = durable_lsn + 1 /\ cache[active].recs # {}
    BY DEF CommitStart
  <2>2. RunEnd(cache[active], active) = write_offset /\ StagingOK
    BY <1>0, <2>1 DEF CacheInv, CachedHandle, CachedTail, CommitNoFit
  <2> QED BY <1>0, <2>1, <2>2, NoFitTarget
<1>6. StagingOK'
  BY <1>1, <1>3, <1>4, StagingSame DEF CacheInv, CachedHandle
<1>7. CachedDirectory'
  BY <1>0, <1>1, <1>3, <1>4 DEF CacheInv, CachedHandle, CachedDirectory, CreateSteps, segVars
<1>8. CachedTail'
  BY <1>0, <1>1, <1>3, <1>4, <1>5
  DEF CacheInv, CachedHandle, CachedTail, CreateSteps, segVars, lsnVars
<1>9. CachedCreate' /\ CachedOpen'
  BY <1>0, <1>1, <1>3, <1>4 DEF CachedCreate, CachedOpen, CreateSteps
<1> QED BY <1>1, <1>2, <1>6, <1>7, <1>8, <1>9 DEF CacheInv, NoError, CachedHandle

(* An empty commit only repeats what the page cache shows.                  *)
LEMMA CommitEmptyCached ==
    ASSUME TypeInv, CacheInv, CommitEmpty
    PROVE  CacheInv'
<1>0. /\ TypeOK /\ pc = "idle" /\ IsOpen /\ ~poisoned /\ Live
  BY DEF TypeInv, CommitEmpty, Ready, Live
<1>1. /\ UNCHANGED <<dir, cache, pc, segVars, lsnVars, bufVars, released, err, poisoned>>
      /\ acked' \subseteq acked \cup Stored(dir, cache)
  BY DEF CommitEmpty, Report, fsVars
<1>2. IsOpen' /\ Live' /\ segments' = segments
  BY <1>0, <1>1 DEF IsOpen, Live, segVars
<1>3. CachedStore'
  BY <1>1 DEF CacheInv, CachedStore, CachedFile, CachedSealed
<1>4. AckedCached'
  <2>1. Stored(dir', cache') = Stored(dir, cache)
    BY <1>1
  <2> QED BY <1>1, <2>1 DEF CacheInv, AckedCached
<1>5. StagingOK'
  BY <1>0, <1>1, <1>2 DEF CacheInv, CachedHandle, StagingOK, bufVars, lsnVars
<1>6. CachedDirectory'
  BY <1>0, <1>1, <1>2 DEF CacheInv, CachedHandle, CachedDirectory, CreateSteps, segVars
<1>7. CachedTail'
  BY <1>0, <1>1, <1>2 DEF CacheInv, CachedHandle, CachedTail, CreateSteps, segVars, lsnVars
<1>8. CachedCreate' /\ CachedOpen'
  BY <1>0, <1>1, <1>2 DEF CachedCreate, CachedOpen, CreateSteps
<1> QED BY <1>1, <1>3, <1>4, <1>5, <1>6, <1>7, <1>8 DEF CacheInv, NoError, CachedHandle

(* The active segment in the page cache while commit runs.                  *)
LEMMA CachedActive ==
    ASSUME TypeInv, CacheInv, Live, pc \in {"idle", "commit", "sync"}
    PROVE  /\ active \in dir /\ \A c \in dir : c <= active
           /\ active \in Lsns /\ cache[active] \in File /\ cache \in [Lsns -> File]
           /\ Chained(cache[active].recs, active, HeaderSize)
           /\ cache[active].hdr = "ok" /\ ~cache[active].torn
           /\ pc # "sync" => /\ RunLast(cache[active], active) = durable_lsn
                             /\ RunEnd(cache[active], active) = write_offset
<1>1. TypeOK /\ dir \subseteq Lsns
  BY DEF TypeInv, TypeOK
<1>2. Highest(active, segments) /\ dir = segments
  BY DEF CacheInv, CachedHandle, CachedDirectory
<1>3. active \in dir /\ \A c \in dir : c <= active
  BY <1>2 DEF Highest
<1>4. active \in Lsns /\ cache[active] \in File /\ cache \in [Lsns -> File]
  BY <1>1, <1>3 DEF TypeOK
<1>5. Chained(cache[active].recs, active, HeaderSize)
  BY <1>3 DEF CacheInv, CachedStore, CachedFile
<1>6. /\ cache[active].hdr = "ok" /\ ~cache[active].torn
      /\ pc # "sync" => /\ RunLast(cache[active], active) = durable_lsn
                        /\ RunEnd(cache[active], active) = write_offset
  BY DEF CacheInv, CachedHandle, CachedTail
<1> QED BY <1>3, <1>4, <1>5, <1>6

(* Part or all of the batch reaches the page cache.                         *)
LEMMA WriteCached ==
    ASSUME TypeInv, CacheInv, Live, pc = "commit", NEW k \in Nat, NEW t \in BOOLEAN,
           UNCHANGED <<dir, acked, released>>,
           cache' = [cache EXCEPT ![active] =
                        [WriteRecords(@, Batch(pos, k, write_offset)) EXCEPT !.torn = t]],
           t => \E e \in Boundaries : k < e /\ pos <= k
    PROVE  /\ CachedStore' /\ AckedCached'
           /\ cache'[active].recs = cache[active].recs \cup Batch(pos, k, write_offset)
           /\ cache'[active].hdr = "ok" /\ cache'[active].torn = t
<1> DEFINE B == Batch(pos, k, write_offset)
           f == cache[active]
           W == WriteRecords(f, B)
<1>0. /\ TypeOK /\ CachedStore /\ AckedCached /\ StagingOK /\ released \in Nat
      /\ dir \subseteq Lsns /\ pos \in Nat /\ write_offset \in Nat
  BY DEF TypeInv, TypeOK, CacheInv, CachedHandle
<1>1. /\ active \in dir /\ \A c \in dir : c <= active
      /\ active \in Lsns /\ f \in File /\ cache \in [Lsns -> File]
      /\ Chained(f.recs, active, HeaderSize) /\ f.hdr = "ok" /\ ~f.torn
      /\ RunLast(f, active) = durable_lsn /\ RunEnd(f, active) = write_offset
  BY CachedActive
<1>2. W \in File
  BY <1>0, <1>1, WriteRecordsType
<1>3. /\ cache'[active] = [W EXCEPT !.torn = t]
      /\ \A c \in dir \ {active} : cache'[c] = cache[c]
  BY <1>0, <1>1
<1> HIDE DEF f
<1>4. /\ W.recs = f.recs \cup B /\ W.hdr = f.hdr /\ Chained(f.recs \cup B, active, HeaderSize)
  BY <1>0, <1>1, BatchBehind
<1>5. t => \A r \in f.recs \cup B : r.lsn < MaxLsn
  <2>1. SUFFICES ASSUME t PROVE \A r \in f.recs \cup B : r.lsn < MaxLsn
    OBVIOUS
  <2>2. PICK e \in Boundaries : k < e /\ pos <= k
    BY <2>1
  <2> QED BY <1>0, <1>1, <2>2, LsnLeft DEF B
<1> HIDE DEF W, B
<1>6. cache'[active].recs = f.recs \cup B /\ cache'[active].hdr = "ok" /\ cache'[active].torn = t
  BY <1>1, <1>2, <1>3, <1>4 DEF File
<1>7. ASSUME NEW a \in Lsns, a = active PROVE CachedFile(a)'
  <2>1. cache'[a].recs = f.recs \cup B /\ cache'[a].hdr = "ok" /\ cache'[a].torn = t
        /\ Chained(f.recs \cup B, a, HeaderSize)
    BY <1>4, <1>6, <1>7
  <2> QED BY <1>5, <2>1 DEF CachedFile
<1>8. CachedStore'
  BY <1>0, <1>1, <1>3, <1>7, CachedNewest
<1>9. AckedCached'
  <2>1. ASSUME NEW b \in dir, NEW r \in cache[b].recs, cache[b].hdr = "ok"
        PROVE  b \in dir' /\ r \in cache'[b].recs /\ cache'[b].hdr = "ok"
    BY <1>3, <1>6, <2>1 DEF f
  <2> QED BY <1>0, <1>8, <2>1, CachedKept
<1> QED BY <1>6, <1>8, <1>9 DEF f, B

(* A write that stops part-way leaves a shorter chain, perhaps torn.        *)
LEMMA CommitWriteFaultCached ==
    ASSUME TypeInv, CacheInv, CommitWriteFault
    PROVE  CacheInv'
<1>0. /\ TypeOK /\ pc = "commit" /\ IsOpen /\ ~poisoned /\ Live /\ pos \in Nat
  BY DEF TypeInv, TypeOK, CommitWriteFault, CacheInv, Live, CachedHandle, CachedOpen
<1>1. UNCHANGED <<dir, acked, released, err>>
  BY DEF CommitWriteFault, Poison, ghostVars
<1>2. PICK e \in Boundaries, k \in {pos} \cup Boundaries, t \in BOOLEAN :
        /\ pos <= k /\ k < e
        /\ cache' = [cache EXCEPT ![active] =
                        [WriteRecords(@, Batch(pos, k, write_offset)) EXCEPT !.torn = t]]
  BY DEF CommitWriteFault
<1>3. k \in Nat
  BY <1>0, EndType DEF Boundaries, TypeOK
<1>4. CachedStore' /\ AckedCached'
  BY <1>0, <1>1, <1>2, <1>3, WriteCached
<1>5. CachedHandle'
  <2>1. CASE Poison
    BY <1>0, <2>1, CachedPoisoned
  <2>2. CASE pc' = "closed" /\ NoHandle
    BY <2>2, CachedGone
  <2> QED BY <2>1, <2>2 DEF CommitWriteFault
<1> QED BY <1>1, <1>4, <1>5 DEF CacheInv, NoError

(* The batch is in the page cache and waits for its sync.                   *)
LEMMA CommitWriteCached ==
    ASSUME TypeInv, CacheInv, CommitWrite
    PROVE  CacheInv'
<1>0. /\ TypeOK /\ StagingOK /\ pc = "commit" /\ IsOpen /\ ~poisoned /\ Live
      /\ pos \in Nat /\ write_offset \in Nat /\ staging \in SUBSET Record
  BY DEF TypeInv, TypeOK, CommitWrite, CacheInv, Live, CachedHandle, CachedOpen
<1>1. /\ UNCHANGED <<dir, segVars, lsnVars, staging, staging_len, pos, acked, released, err,
                     poisoned>>
      /\ pc' = "sync"
  BY DEF CommitWrite, ghostVars
<1>2. PICK e \in Boundaries :
        /\ e > pos /\ scan' = e
        /\ cache' = [cache EXCEPT ![active] = WriteRecords(@, Batch(pos, e, write_offset))]
  BY DEF CommitWrite
<1>3. PICK r \in staging : End(r) = e
  BY DEF Boundaries
<1>4. e \in Nat /\ r.lsn \in Nat /\ pos < e
  BY <1>0, <1>2, <1>3, EndType
<1> DEFINE f == cache[active]
           B == Batch(pos, e, write_offset)
           W == WriteRecords(f, B)
<1>5. /\ active \in Lsns /\ f \in File /\ cache \in [Lsns -> File]
      /\ Chained(f.recs, active, HeaderSize) /\ f.hdr = "ok" /\ ~f.torn
      /\ RunLast(f, active) = durable_lsn /\ RunEnd(f, active) = write_offset
  BY <1>0, CachedActive
<1>6. cache' = [cache EXCEPT ![active] = W]
  BY <1>2
<1> HIDE DEF f
<1>7. /\ B = {Moved(s, pos, write_offset) : s \in Staged(pos, e)}
      /\ W.torn = f.torn /\ Chained(f.recs \cup B, active, HeaderSize)
  BY <1>0, <1>4, <1>5, BatchBehind
<1>8. W \in File
  BY <1>0, <1>4, <1>5, WriteRecordsType
<1>9. EndsAt(f.recs \cup B, active, HeaderSize, r.lsn, write_offset + (e - pos))
  BY <1>0, <1>3, <1>4, <1>5, LastWritten
<1>10. /\ CachedStore' /\ AckedCached'
       /\ cache'[active].recs = f.recs \cup B
       /\ cache'[active].hdr = "ok" /\ ~cache'[active].torn
  <2>1. W = [W EXCEPT !.torn = FALSE]
    <3> HIDE DEF W
    <3> QED BY <1>5, <1>7, <1>8 DEF File
  <2>2. cache' = [cache EXCEPT ![active] =
                        [WriteRecords(@, Batch(pos, e, write_offset)) EXCEPT !.torn = FALSE]]
    BY <1>6, <2>1 DEF f
  <2>3. UNCHANGED <<dir, acked, released>>
    BY <1>1
  <2> QED BY <1>0, <1>4, <2>2, <2>3, WriteCached DEF f
<1>11. cache'[active] \in File
  BY <1>5, <1>6, <1>8
<1> HIDE DEF B, W
<1>12. /\ RunLast(cache'[active], active) = r.lsn
       /\ RunEnd(cache'[active], active) = write_offset + (e - pos)
  <2> DEFINE g == cache'[active]
             z == write_offset + (e - pos)
  <2>1. z \in Int /\ r.lsn \in Int
    BY <1>0, <1>4
  <2>2. g \in File /\ Chained(g.recs, active, HeaderSize)
        /\ EndsAt(g.recs, active, HeaderSize, r.lsn, z)
    BY <1>7, <1>9, <1>10, <1>11
  <2> HIDE DEF g, z
  <2>3. RunLast(g, active) = r.lsn /\ RunEnd(g, active) = z
    BY <1>5, <2>1, <2>2, EndUnique
  <2> QED BY <2>3 DEF g, z
<1>13. \A s \in Staged(pos, e) : \E m \in cache'[active].recs : m.lsn = s.lsn /\ m.pay = s.pay
  <2>1. ASSUME NEW s \in Staged(pos, e)
        PROVE  \E m \in cache'[active].recs : m.lsn = s.lsn /\ m.pay = s.pay
    <3>1. Moved(s, pos, write_offset) \in cache'[active].recs
      BY <1>7, <1>10
    <3>2. s \in Record
      BY <1>0 DEF Staged
    <3>3. Moved(s, pos, write_offset).lsn = s.lsn /\ Moved(s, pos, write_offset).pay = s.pay
      BY <3>2 DEF Moved, Record
    <3> QED BY <3>1, <3>3
  <2> QED BY <2>1
<1>14. /\ IsOpen' /\ Live' /\ segments' = segments /\ active' = active
       /\ write_offset' = write_offset
  BY <1>0, <1>1 DEF IsOpen, Live, segVars
<1>15. StagingOK'
  <2>1. pos' < scan' /\ scan' \in Boundaries'
    BY <1>1, <1>2, <1>4 DEF Boundaries
  <2> QED BY <1>0, <1>1, <1>14, <2>1 DEF StagingOK, lsnVars
<1>16. CachedDirectory'
  BY <1>0, <1>1, <1>14 DEF CacheInv, CachedHandle, CachedDirectory, CreateSteps, segVars
<1>17. CachedTail'
  <2>1. Staged(pos, scan)' = Staged(pos, e)
    BY <1>1, <1>2 DEF Staged
  <2>2. \A s \in staging : End(s) = e => s = r
    BY <1>0, <1>3, <1>4, LastStaged
  <2>3. /\ RunEnd(cache[active], active)' = (write_offset + (scan - pos))'
        /\ \A s \in staging' : End(s) = scan' => RunLast(cache[active], active)' = s.lsn
    BY <1>1, <1>2, <1>12, <1>14, <2>2
  <2>4. \A s \in Staged(pos, scan)' :
            \E m \in cache'[active'].recs : m.lsn = s.lsn /\ m.pay = s.pay
    BY <1>13, <1>14, <2>1
  <2>5. cache'[active'].hdr = "ok" /\ ~cache'[active'].torn
    BY <1>10, <1>14
  <2> QED BY <1>1, <2>3, <2>4, <2>5 DEF CachedTail, CreateSteps
<1>18. CachedCreate' /\ CachedOpen'
  BY <1>0, <1>1, <1>14 DEF CachedCreate, CachedOpen, CreateSteps
<1> QED BY <1>1, <1>10, <1>15, <1>16, <1>17, <1>18 DEF CacheInv, NoError, CachedHandle

(* What a sync reports is in the page cache.                                *)
LEMMA CommitSyncCached ==
    ASSUME TypeInv, CacheInv, CommitSync
    PROVE  CacheInv'
<1>0. /\ TypeOK /\ CachedStore /\ StagingOK /\ pc = "sync" /\ IsOpen /\ ~poisoned /\ Live
      /\ scan \in Nat /\ pos \in Nat /\ pos < scan
  BY DEF TypeInv, TypeOK, CommitSync, CacheInv, Live, CachedHandle, CachedOpen, StagingOK
<1>1. /\ UNCHANGED <<dir, cache, segments, active, oldest_lsn, last_lsn, poisoned, err, released>>
      /\ write_offset' = write_offset + (scan - pos)
      /\ acked' \subseteq acked \cup Contents(Staged(pos, scan)) \cup Stored(dir, cache)
  BY DEF CommitSync, Report
<1>2. PICK r \in staging : End(r) = scan /\ durable_lsn' = r.lsn
  BY DEF CommitSync
<1>3. /\ active \in dir /\ cache[active].hdr = "ok" /\ ~cache[active].torn
  BY <1>0, CachedActive
<1>4. /\ RunEnd(cache[active], active) = write_offset + (scan - pos)
      /\ RunLast(cache[active], active) = r.lsn
      /\ \A s \in Staged(pos, scan) :
             \E m \in cache[active].recs : m.lsn = s.lsn /\ m.pay = s.pay
  BY <1>0, <1>2 DEF CacheInv, CachedHandle, CachedTail
<1>5. /\ r \in Staged(pos, scan)
      /\ Chained({s \in staging : s.start >= scan}, r.lsn + 1, scan)
      /\ \A s \in staging : s.start < scan => End(s) <= scan
      /\ \A s \in staging : End(s) = scan => s = r
  BY <1>0, <1>2, LastStaged
<1>6. CachedStore'
  BY <1>0, <1>1 DEF CachedStore, CachedFile, CachedSealed
<1>7. AckedCached'
  <2>1. Contents(Staged(pos, scan)) \subseteq Stored(dir, cache)
    <3>1. SUFFICES ASSUME NEW s \in Staged(pos, scan)
                   PROVE  [lsn |-> s.lsn, pay |-> s.pay] \in Stored(dir, cache)
      BY DEF Contents
    <3>2. \A b \in dir : Chained(cache[b].recs, b, HeaderSize)
      BY <1>0 DEF CachedStore, CachedFile
    <3>3. \E m \in cache[active].recs : [lsn |-> s.lsn, pay |-> s.pay] = [lsn |-> m.lsn, pay |-> m.pay]
      BY <1>4
    <3> QED BY <1>3, <3>2, <3>3, StoredChained
  <2>2. Stored(dir', cache') = Stored(dir, cache)
    BY <1>1
  <2>3. \A x \in acked : x.lsn > released => x \in Stored(dir, cache)
    BY DEF CacheInv, AckedCached
  <2> QED BY <1>1, <2>1, <2>2, <2>3 DEF AckedCached
<1>8. IsOpen' /\ Live'
  BY <1>0, <1>1 DEF IsOpen, Live
<1>9. /\ pc' \in {"idle", "create"} /\ StagingOK'
      /\ pc' = "create" => target' = durable_lsn' + 1
  BY <1>0, <1>2, <1>5, <1>8, SyncStaging
<1>10. CachedDirectory'
  BY <1>0, <1>1, <1>8, <1>9 DEF CacheInv, CachedHandle, CachedDirectory, CreateSteps
<1>11. CachedTail'
  <2>1. /\ RunLast(cache[active], active)' = durable_lsn'
        /\ RunEnd(cache[active], active)' = write_offset'
    BY <1>1, <1>2, <1>4
  <2>2. cache[active].recs # {}
    BY <1>4, <1>5
  <2> QED BY <1>1, <1>3, <1>9, <2>1, <2>2 DEF CachedTail, CreateSteps
<1>12. CachedCreate' /\ CachedOpen'
  BY <1>0, <1>1, <1>8, <1>9 DEF CachedCreate, CachedOpen, CreateSteps
<1> QED BY <1>1, <1>6, <1>7, <1>9, <1>10, <1>11, <1>12 DEF CacheInv, NoError, CachedHandle

(* The invariant of the page cache is inductive.                            *)
LEMMA CacheInvNext ==
    ASSUME ~PowerLoss
    PROVE  TypeInv /\ CacheInv /\ [Next]_vars /\ ~MediaFault => CacheInv'
<1> SUFFICES ASSUME TypeInv, CacheInv, [Next]_vars, ~MediaFault PROVE CacheInv'
  OBVIOUS
<1>1. CASE Open
  BY <1>1, OpenStartCached, KeepHighestCached, RejectHighestNeverCached, DiscardHighestCached,
     DiscardSyncCached, RecoverFatalNeverCached, RecoveredCached, RecoverTornCached, FaultsCached
  DEF Open
<1>2. CASE Create
  BY <1>2, CreateNewCached, HeaderCached, ColdStartedCached, RolledCached, FaultsCached DEF Create
<1>3. CASE Commit
  BY <1>3, CommitEmptyCached, CommitTurnCached, CommitWriteCached, CommitWriteFaultCached,
     CommitSyncCached, FaultsCached
  DEF Commit
<1>4. CASE Checkpoint
  BY <1>4, CheckpointStartCached, CheckpointUnlinkCached, CheckpointSyncCached, FaultsCached
  DEF Checkpoint
<1>5. CASE Environment
  BY <1>5, WritebackCached, FaultsCached DEF Environment, LosePower
<1>6. CASE \E p \in Payloads : Append(p)
  BY <1>6, AppendCached
<1>7. CASE UNCHANGED vars
  <2>1. UNCHANGED <<dir, cache, pc, target, doomed, segments, active, write_offset,
                    oldest_lsn, last_lsn, durable_lsn, staging, staging_len, pos, scan, poisoned,
                    err, acked, released>>
    BY <1>7 DEF vars, fsVars, segVars, lsnVars, bufVars, ghostVars
  <2>2. Live' = Live /\ IsOpen' = IsOpen
    BY <2>1 DEF Live, IsOpen
  <2>3. CachedStore' /\ AckedCached' /\ NoError'
    BY <2>1, <2>2 DEF CacheInv, CachedStore, CachedFile, CachedSealed, AckedCached, NoError
  <2>4. CachedCreate' /\ CachedOpen' /\ CachedDirectory'
    BY <2>1, <2>2 DEF CacheInv, CachedHandle, CachedCreate, CachedOpen, CachedDirectory
  <2>5. CachedTail' /\ StagingOK'
    BY <2>1, <2>2 DEF CacheInv, CachedHandle, CachedTail, StagingOK, Staged, Boundaries
  <2> QED BY <2>3, <2>4, <2>5 DEF CacheInv, CachedHandle
<1> QED BY <1>1, <1>2, <1>3, <1>4, <1>5, <1>6, <1>7 DEF Next

(* A process may die between any two system calls and the next one start    *)
(* at once: as long as the power stays on and the device corrupts nothing,  *)
(* the page cache keeps its invariant, whatever has reached the device and  *)
(* in which order.                                                          *)
THEOREM KillSafe == ~PowerLoss => (Spec => [](faults = 0 => CacheInv))
<1> SUFFICES ASSUME ~PowerLoss PROVE Spec => [](faults = 0 => CacheInv)
  OBVIOUS
<1>1. TypeInv /\ (faults = 0 => CacheInv) /\ [Next]_vars => TypeInv' /\ (faults = 0 => CacheInv)'
  <2> SUFFICES ASSUME TypeInv, faults = 0 => CacheInv, [Next]_vars, faults' = 0 PROVE CacheInv'
    BY TypeNext
  <2>1. CASE Next
    BY <2>1, FaultsCount, CacheInvNext
  <2>2. CASE UNCHANGED vars
    <3>1. faults = 0 /\ ~MediaFault
      <4>1. faults' = faults
        BY <2>2 DEF vars, ghostVars, mediaVars
      <4>2. MediaFault => faults' = faults + 1 /\ faults \in Nat
        BY EnvironmentAssumption DEF MediaFault, TypeInv, TypeOK
      <4> QED BY <4>1, <4>2
    <3> QED BY <3>1, CacheInvNext
  <2> QED BY <2>1, <2>2
<1> QED BY CachedInit, TypeInit, <1>1, PTL DEF Spec

(* D1, D3 for process crashes: what a commit has reported, and no           *)
(* checkpoint released, is what the next open reads.                        *)
THEOREM KillLosesNothing == ~PowerLoss => (Spec => []AckedIsReadable)
<1>1. (faults = 0 => CacheInv) => AckedIsReadable
  BY DEF CacheInv, AckedCached, AckedIsReadable
<1> QED BY KillSafe, <1>1, PTL

(* D9 for process crashes: open never refuses the log.                      *)
THEOREM KilledLogOpens == ~PowerLoss => (Spec => []NeverFatal)
<1>1. (faults = 0 => CacheInv) => NeverFatal
  BY DEF CacheInv, NoError, NeverFatal
<1> QED BY KillSafe, <1>1, PTL

(* Without media faults there are none to count.                            *)
LEMMA KillSafeThroughout ==
    ~PowerLoss /\ MediaFaults = 0 => (Spec => [](TypeInv /\ CacheInv))
<1> SUFFICES ASSUME ~PowerLoss, MediaFaults = 0 PROVE Spec => [](TypeInv /\ CacheInv)
  OBVIOUS
<1>1. TypeInv => faults = 0
  BY DEF TypeInv, TypeOK
<1> QED BY KillSafe, TypeInit, TypeNext, <1>1, PTL DEF Spec

(* D2, D6 for process crashes: recovery over an unsettled page cache leaves *)
(* one record for every LSN from oldest_lsn to durable_lsn.                 *)
THEOREM KilledLogIsDense == ~PowerLoss /\ MediaFaults = 0 => (Spec => []DenseLog)
<1>1. TypeInv /\ CacheInv => DenseLog
  <2> SUFFICES ASSUME TypeInv, CacheInv, pc = "idle", IsOpen, ~poisoned PROVE DenseLog
    BY DEF DenseLog
  <2>1. /\ Live /\ dir = segments /\ Highest(active, dir) /\ Lowest(oldest_lsn, dir)
        /\ RunLast(cache[active], active) = durable_lsn
    BY DEF Live, CacheInv, CachedHandle, CachedDirectory, CachedTail
  <2>2. TypeOK /\ CachedStore
    BY DEF TypeInv, CacheInv
  <2> QED BY <2>1, <2>2, CachedDense
<1> QED BY KillSafeThroughout, <1>1, PTL

(* A handle built from an unsettled page cache agrees with it.              *)
THEOREM KilledHandleIsCurrent ==
    ~PowerLoss /\ MediaFaults = 0 => (Spec => []HandleMatchesFiles)
<1>1. CacheInv => HandleMatchesFiles
  BY DEF HandleMatchesFiles, Ready, Live, CacheInv, CachedHandle, CachedDirectory, CachedTail
<1> QED BY KillSafeThroughout, <1>1, PTL

(* Nor does create_new meet a file that a killed process has left.          *)
THEOREM KilledCreateIsExclusive == ~PowerLoss /\ MediaFaults = 0 => (Spec => []NoCollision)
<1>1. TypeInv /\ CacheInv => NoCollision
  <2> SUFFICES ASSUME TypeInv, CacheInv, pc = "create" PROVE target \notin dir
    BY DEF NoCollision
  <2>1. CASE IsOpen
    <3>1. pc \in CreateSteps
      BY DEF CreateSteps
    <3>2. Live /\ (\A b \in segments : b < target) /\ segments \subseteq Nat
      BY <2>1, <3>1, CachedTargetTop
    <3>3. dir = segments
      BY <3>2 DEF CacheInv, CachedHandle, CachedDirectory
    <3>4. \A n \in Nat : ~(n < n)
      OBVIOUS
    <3> QED BY <3>2, <3>3, <3>4
  <2>2. CASE ~IsOpen
    BY <2>2 DEF CacheInv, CachedHandle, CachedCreate, CreateSteps
  <2> QED BY <2>1, <2>2
<1> QED BY KillSafeThroughout, <1>1, PTL
=============================================================================
