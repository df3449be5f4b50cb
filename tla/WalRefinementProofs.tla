------------------------ MODULE WalRefinementProofs -------------------------
(* Wal implements DurableLog, proved for every configuration.               *)
EXTENDS WalProofs, WalRefinement

(* The records of the segment files, and those a live handle has buffered.  *)
Held == UNION {cache[b].recs : b \in Names}
Buffered == IF Live THEN staging ELSE {}

Entry(r) == [lsn |-> r.lsn, pay |-> r.pay]

(* Every record of S is seen, and nothing else.                             *)
LEMMA Seen ==
    ASSUME NEW S, NEW r
    PROVE  /\ r \in S => Entry(r) \in Contents(S)
           /\ Contents(S \cup {r}) = Contents(S) \cup {Entry(r)}
           /\ Entry(r).lsn = r.lsn
BY DEF Contents, Entry

(* The abstract log is what callers see of both.                            *)
LEMMA LogIs ==
    TypeInv /\ Inv => /\ Log = Contents(Held \cup Buffered)
                      /\ Held \in SUBSET Record /\ Buffered \in SUBSET Record
<1> SUFFICES ASSUME TypeInv, Inv
             PROVE  /\ Log = Contents(Held \cup Buffered)
                    /\ Held \in SUBSET Record /\ Buffered \in SUBSET Record
  OBVIOUS
<1>1. TypeOK /\ StoreOK /\ Names \in SUBSET Names
  BY DEF TypeInv, Inv
<1>2. \A x : x \in Stored(Names, cache) <=>
            \E b \in Names : \E r \in cache[b].recs : x = [lsn |-> r.lsn, pay |-> r.pay]
  BY <1>1, ShownRecords
<1>3. Stored(Names, cache) = Contents(Held)
  BY <1>2 DEF Contents, Held
<1>4. Log = Contents(Held) \cup Contents(Buffered)
  BY <1>3 DEF Log, Buffered, Contents, Names
<1>5. Log = Contents(Held \cup Buffered)
  BY <1>4 DEF Contents
<1>6. Held \in SUBSET Record
  BY <1>1, NamesType DEF Held
<1>7. Buffered \in SUBSET Record
  BY <1>1 DEF Buffered, TypeOK
<1> QED BY <1>5, <1>6, <1>7

(* Nothing of the abstract state changes.                                   *)
Stutter == Log' = Log /\ acked' = acked /\ released' = released /\ Live' = Live

(* A step that changes no record, no buffer and no history is a stutter.    *)
LEMMA QuietStep ==
    ASSUME TypeInv, TypeInv', Inv, Inv', Held' = Held, Live' = Live,
           Live => Contents(staging') = Contents(staging),
           acked' = acked, released' = released
    PROVE  Stutter
<1>1. Log = Contents(Held \cup Buffered)
  BY LogIs
<1>2. (TypeInv /\ Inv => Log = Contents(Held \cup Buffered))'
  BY LogIs, PTL
<1>3. Log' = Contents(Held' \cup Buffered')
  BY <1>2
<1>4. Contents(Buffered') = Contents(Buffered)
  BY DEF Buffered
<1>5. Contents(Held' \cup Buffered') = Contents(Held \cup Buffered)
  BY <1>4 DEF Contents
<1> QED BY <1>1, <1>3, <1>5 DEF Stutter

(* The handle goes, and with it a tail of the log that was never reported   *)
(* or old records that were released: a crash of the abstract log.          *)
LEMMA CrashStep ==
    ASSUME TypeInv, TypeInv', Inv, Inv', ~Live', acked' = acked, released' = released,
           Log' \subseteq Log,
           \A x \in Log \ Log' : \/ x.lsn <= released /\ \A y \in Log' : x.lsn < y.lsn
                                \/ \A y \in Log' : y.lsn < x.lsn
    PROVE  Abstract!Next
<1>0. /\ Log \subseteq Ack /\ \A x \in Ack : x.lsn \in Lsns /\ x.lsn \in Nat /\ x.lsn <= MaxLsn
      /\ released \in Nat /\ MaxLsn \in Nat
  <2>1. Log \subseteq Ack
    <3>1. Held \cup Buffered \in SUBSET Record /\ Log = Contents(Held \cup Buffered)
      BY LogIs
    <3> QED BY <3>1, ContentsType
  <2> QED BY <2>1, ConfigAssumption DEF Ack, Lsns, TypeInv, TypeOK
<1>1. ASSUME NEW x \in Log \ Log', x \in acked PROVE x.lsn <= released
  <2>1. SUFFICES ASSUME x.lsn > released PROVE x \in Log'
    BY <1>0, <1>1
  <2>2. x \in Stored(dir' \cap ddir', disk')
    BY <1>1, <2>1 DEF Inv, AckedIsDurable
  <2>3. (TypeOK /\ StoreOK => Stored(dir \cap ddir, disk) \subseteq Stored(dir, cache))'
    BY DeviceIsCached, PTL
  <2>4. x \in Stored(dir', cache')
    BY <2>2, <2>3 DEF TypeInv, Inv
  <2>5. x \in Stored(dir' \cup ddir', cache')
    BY <2>4 DEF Stored, Contents
  <2> QED BY <2>5 DEF Log
<1>2. ASSUME NEW lo \in Lsns \cup {0}, NEW hi \in Lsns \cup {0},
             Log' = {x \in Log : lo <= x.lsn /\ x.lsn <= hi},
             \A x \in Log : x.lsn < lo => x.lsn <= released
      PROVE  Abstract!Next
  <2>1. Abstract!Crash(lo, hi)
    BY <1>1, <1>2 DEF Abstract!Crash, Abstract!Kept
  <2> QED BY <2>1 DEF Abstract!Next
<1>3. CASE Log' = {}
  <2>1. 1 \in Lsns \cup {0} /\ 0 \in Lsns \cup {0}
    BY ConfigAssumption DEF Lsns
  <2>2. \A x \in Log : ~(1 <= x.lsn /\ x.lsn <= 0) /\ ~(x.lsn < 1)
    BY <1>0 DEF Lsns
  <2> QED BY <1>2, <1>3, <2>1, <2>2
<1>4. CASE Log' # {}
  <2> DEFINE T == {y.lsn : y \in Log'}
             D == {MaxLsn - y.lsn : y \in Log'}
  <2>1. T \in SUBSET Nat /\ T # {} /\ D \in SUBSET Nat /\ D # {}
    BY <1>0, <1>4
  <2>2. PICK lo \in T : \A n \in T : lo <= n
    <3> HIDE DEF T
    <3> QED BY <2>1, NatMin
  <2>3. PICK m \in D : \A n \in D : m <= n
    <3> HIDE DEF D
    <3> QED BY <2>1, NatMin
  <2>4. PICK l \in Log' : lo = l.lsn
    OBVIOUS
  <2>5. PICK h \in Log' : m = MaxLsn - h.lsn
    OBVIOUS
  <2>6. \A y \in Log' : l.lsn <= y.lsn /\ MaxLsn - h.lsn <= MaxLsn - y.lsn
    BY <2>2, <2>3, <2>4, <2>5
  <2>7. \A y \in Log' : l.lsn <= y.lsn /\ y.lsn <= h.lsn
    BY <1>0, <2>6
  <2> HIDE DEF T, D
  <2>8. l \in Log /\ h \in Log /\ l.lsn \in Nat /\ h.lsn \in Nat /\ l.lsn \in Lsns /\ h.lsn \in Lsns
    BY <1>0
  <2>9. ASSUME NEW x \in Log \ Log'
        PROVE  ~(l.lsn <= x.lsn /\ x.lsn <= h.lsn) /\ (x.lsn < l.lsn => x.lsn <= released)
    <3>1. x.lsn \in Nat
      BY <1>0
    <3>2. CASE x.lsn <= released /\ \A y \in Log' : x.lsn < y.lsn
      BY <2>8, <3>1, <3>2
    <3>3. CASE \A y \in Log' : y.lsn < x.lsn
      BY <2>8, <3>1, <3>3
    <3> QED BY <3>2, <3>3
  <2>10. Log' = {x \in Log : l.lsn <= x.lsn /\ x.lsn <= h.lsn}
    BY <2>7, <2>9
  <2>11. \A x \in Log : x.lsn < l.lsn => x.lsn <= released
    <3>1. \A x \in Log' : ~(x.lsn < l.lsn)
      BY <1>0, <2>7, <2>8
    <3> QED BY <2>9, <3>1
  <2> QED BY <1>2, <2>8, <2>10, <2>11
<1> QED BY <1>3, <1>4

-----------------------------------------------------------------------------
(* The buffer and the files.                                                *)

(* A batch shows its caller the records it was made of.                     *)
LEMMA BatchEntries ==
    ASSUME TypeOK, NEW k
    PROVE  Contents(Batch(pos, k, write_offset)) = Contents(Staged(pos, k))
<1>1. \A r \in Staged(pos, k) : /\ Moved(r, pos, write_offset).lsn = r.lsn
                                /\ Moved(r, pos, write_offset).pay = r.pay
  BY DEF Staged, TypeOK, Moved, Record
<1>2. Batch(pos, k, write_offset) = {Moved(r, pos, write_offset) : r \in Staged(pos, k)}
  BY DEF Batch, Moved
<1> QED BY <1>1, <1>2 DEF Contents

(* The files of a live handle end at durable_lsn, but for the batch that is *)
(* being synced.                                                            *)
LEMMA HeldTop ==
    ASSUME TypeInv, Inv, Live, NEW r \in Held
    PROVE  r.lsn <= durable_lsn \/ (pc = "sync" /\ r \in Batch(pos, scan, write_offset))
<1>1. PICK b \in Names : r \in cache[b].recs
  BY DEF Held
<1>2. b \in ddir
  BY <1>1 DEF Inv, StoreOK, PendingOK, Names
<1>3. \A c \in ddir : c <= active /\ \A q \in disk[c].recs : q.lsn <= durable_lsn
  BY TopRecord
<1>0. r.lsn \in Nat /\ durable_lsn \in Nat /\ active \in Nat /\ b \in Nat
  BY <1>1, NamesType, EndType, TopRecord DEF TypeInv, TypeOK, Names, Lsns
<1>4. CASE b = active
  <2>1. CASE pc = "sync"
    <3>1. cache[active] = WriteRecords(disk[active], Batch(pos, scan, write_offset))
      BY <2>1 DEF Inv, HandleOK, TailOK
    <3>2. scan \in Nat
      BY DEF TypeInv, TypeOK
    <3>3. cache[active].recs = disk[active].recs \cup Batch(pos, scan, write_offset)
      BY <2>1, <3>1, <3>2, BatchFits
    <3> QED BY <1>0, <1>1, <1>2, <1>3, <1>4, <2>1, <3>3
  <2>2. CASE pc # "sync"
    <3>1. cache[active] = disk[active]
      BY <2>2 DEF Inv, HandleOK, TailOK
    <3> QED BY <1>0, <1>1, <1>2, <1>3, <1>4, <3>1
  <2> QED BY <2>1, <2>2
<1>5. CASE b # active
  <2>1. active \in Names /\ Names \in SUBSET Nat
    BY TopRecord, NamesType DEF Names, TypeInv
  <2>2. b < active
    BY <1>0, <1>2, <1>3, <1>5
  <2>3. disk[b] = cache[b]
    BY <1>1, <2>1, <2>2 DEF Inv, StoreOK, SealedOK, Sealed
  <2> QED BY <1>0, <1>1, <1>2, <1>3, <2>3
<1> QED BY <1>4, <1>5

(* What commit has passed over, or is syncing, is in the files.             *)
LEMMA PassedIsHeld ==
    ASSUME TypeInv, Inv, WrittenOK, Live, NEW s \in staging,
           s.start < pos \/ (pc = "sync" /\ s.start >= pos /\ End(s) <= scan)
    PROVE  Entry(s) \in Contents(Held)
<1>0. TypeOK /\ scan \in Nat /\ segments \subseteq Names /\ active \in segments
  BY DEF TypeInv, TypeOK, Inv, HandleOK, DirectoryOK, Highest, Names
<1>1. CASE s.start < pos
  <2>1. PICK b \in segments : \E r \in cache[b].recs : r.lsn = s.lsn /\ r.pay = s.pay
    BY <1>1 DEF WrittenOK
  <2>2. PICK r \in cache[b].recs : r.lsn = s.lsn /\ r.pay = s.pay
    BY <2>1
  <2>3. r \in Held /\ Entry(s) = [lsn |-> r.lsn, pay |-> r.pay]
    BY <1>0, <2>2 DEF Held, Entry
  <2> QED BY <2>3 DEF Contents
<1>2. CASE pc = "sync" /\ s.start >= pos /\ End(s) <= scan
  <2>1. s \in Staged(pos, scan)
    BY <1>2 DEF Staged
  <2>2. cache[active] = WriteRecords(disk[active], Batch(pos, scan, write_offset))
    BY <1>2 DEF Inv, HandleOK, TailOK
  <2>3. Batch(pos, scan, write_offset) \subseteq cache[active].recs
    BY <1>0, <1>2, <2>2, BatchFits
  <2>4. Batch(pos, scan, write_offset) \subseteq Held
    BY <1>0, <2>3 DEF Held
  <2>5. Entry(s) \in Contents(Batch(pos, scan, write_offset))
    BY <1>0, <2>1, BatchEntries DEF Contents, Entry
  <2> QED BY <2>4, <2>5 DEF Contents
<1> QED BY <1>1, <1>2

(* A buffered record is in the files or above everything in them.           *)
LEMMA BufferAbove ==
    ASSUME TypeInv, Inv, WrittenOK, Live, NEW s \in staging
    PROVE  Entry(s) \in Contents(Held) \/ \A r \in Held : r.lsn < s.lsn
<1> DEFINE R == {q \in staging : q.start >= pos}
<1>0. /\ staging \in SUBSET Record /\ pos \in Nat /\ scan \in Nat /\ durable_lsn \in Nat
      /\ Chained(R, durable_lsn + 1, pos) /\ TypeOK
      /\ segments \subseteq Names /\ active \in segments /\ Held \in SUBSET Record
  BY LogIs DEF TypeInv, TypeOK, Inv, HandleOK, StagingOK, DirectoryOK, Highest, Names
<1>1. \A q \in staging : /\ q.start \in Nat /\ End(q) \in Nat /\ q.start < End(q)
                         /\ q.lsn \in Nat /\ q \in Record
  BY <1>0, EndType
<1>2. \A r \in Held : r.lsn \in Nat
  BY <1>0, EndType
<1>3. CASE s.start < pos
  BY <1>3, PassedIsHeld
<1>4. CASE s.start >= pos
  <2>1. s \in R /\ durable_lsn + 1 <= s.lsn
    BY <1>0, <1>4 DEF Chained
  <2>2. CASE pc # "sync"
    <3>1. \A r \in Held : r.lsn <= durable_lsn
      BY <2>2, HeldTop
    <3> QED BY <1>0, <1>1, <1>2, <2>1, <3>1
  <2>3. CASE pc = "sync" /\ End(s) <= scan
    BY <1>4, <2>3, PassedIsHeld
  <2>4. CASE pc = "sync" /\ ~(End(s) <= scan)
    <3>1. PICK t \in staging : End(t) = scan
      BY <2>4 DEF Inv, HandleOK, StagingOK, Boundaries
    <3>2. s.start >= scan
      <4>1. \A q \in staging : q.start < scan => End(q) <= scan
        BY <2>4, <3>1, LastSynced
      <4> QED BY <1>0, <1>1, <2>4, <4>1
    <3>3. ASSUME NEW q \in Staged(pos, scan) PROVE q.lsn < s.lsn
      <4>1. q \in R /\ End(q) <= scan /\ q \in staging
        BY DEF Staged
      <4>2. (s.lsn < q.lsn => End(s) <= q.start) /\ (s.lsn = q.lsn => s = q)
        BY <1>0, <2>1, <4>1 DEF Chained
      <4> HIDE DEF R
      <4> QED BY <1>0, <1>1, <3>2, <4>1, <4>2
    <3>4. ASSUME NEW r \in Batch(pos, scan, write_offset) PROVE r.lsn < s.lsn
      <4>1. [lsn |-> r.lsn, pay |-> r.pay] \in Contents(Staged(pos, scan))
        BY <1>0, BatchEntries DEF Contents
      <4>2. PICK q \in Staged(pos, scan) : [lsn |-> r.lsn, pay |-> r.pay] = [lsn |-> q.lsn, pay |-> q.pay]
        BY <4>1 DEF Contents
      <4>3. r.lsn = q.lsn
        BY <4>2
      <4> QED BY <3>3, <4>3
    <3>5. ASSUME NEW r \in Held PROVE r.lsn < s.lsn
      <4>1. CASE r.lsn <= durable_lsn
        BY <1>0, <1>1, <1>2, <2>1, <4>1
      <4>2. CASE r \in Batch(pos, scan, write_offset)
        BY <3>4, <4>2
      <4> QED BY <4>1, <4>2, HeldTop
    <3> QED BY <3>5
  <2> QED BY <2>2, <2>3, <2>4
<1> QED BY <1>0, <1>1, <1>3, <1>4

-----------------------------------------------------------------------------
(* Steps that take the handle, or lose names and unsynced writes.           *)

(* Names are lost only when empty or oldest and released, and a file loses  *)
(* records only at its end and only if the device was behind.               *)
LEMMA LossStep ==
    ASSUME TypeInv, TypeInv', Inv, Inv', WrittenOK,
           ~Live', acked' = acked, released' = released,
           Names' \subseteq Names,
           \A b \in Names' : /\ cache'[b].recs \subseteq cache[b].recs
                             /\ disk[b] = cache[b] => cache'[b].recs = cache[b].recs,
           \A b \in Names \ Names' :
               \/ cache[b].recs = {}
               \/ (\A c \in Names' : b < c) /\ \A r \in cache[b].recs : r.lsn <= released
    PROVE  Abstract!Next
<1>0. /\ StoreOK /\ TypeOK /\ StoreOK' /\ Names \subseteq Nat /\ Names \subseteq Lsns
      /\ \A b \in Names : cache[b].recs \in SUBSET Record
      /\ \A b \in Names : \A r \in cache[b].recs : r.lsn \in Nat /\ b <= r.lsn
  BY NamesType, EndType DEF TypeInv, Inv, StoreOK, FilesOK, FileOK, Chained
<1>1. Log = Contents(Held \cup Buffered)
  BY LogIs
<1>2. (TypeInv /\ Inv => Log = Contents(Held \cup Buffered))'
  BY LogIs, PTL
<1>3. Buffered' = {} /\ Held' = UNION {cache'[b].recs : b \in Names'}
  BY DEF Buffered, Held
<1>4. Log' = Contents(Held') /\ Held' \subseteq Held
  <2>1. Log' = Contents(Held' \cup Buffered')
    BY <1>2
  <2> QED BY <1>3, <2>1 DEF Held
<1>5. Log' \subseteq Log
  BY <1>1, <1>4 DEF Contents
<1>6. ASSUME NEW b \in Names, NEW r \in cache[b].recs, r \notin Held'
      PROVE  \/ r.lsn <= released /\ \A q \in Held' : r.lsn < q.lsn
             \/ \A q \in Held' : q.lsn < r.lsn
  <2>1. CASE b \in Names'
    <3>1. r \notin cache'[b].recs /\ disk[b] # cache[b]
      BY <1>3, <1>6, <2>1
    <3>2. \A c \in Names : c <= b
      BY <1>0, <3>1 DEF StoreOK, SealedOK, Sealed
    <3>3. ASSUME NEW q \in Held' PROVE q.lsn < r.lsn
      <4>1. PICK c \in Names' : q \in cache'[c].recs
        BY <1>3
      <4>2. q \in cache[c].recs /\ c \in Names /\ c <= b
        BY <3>2, <4>1
      <4>3. CASE c < b
        <5>1. q.lsn < b
          BY <1>0, <4>2, <4>3 DEF StoreOK, SealedOK
        <5> QED BY <1>0, <4>2, <5>1
      <4>4. CASE c = b
        <5>1. SUFFICES ASSUME r.lsn <= q.lsn PROVE FALSE
          BY <1>0, <4>2
        <5>2. /\ Chained(cache'[b].recs, b, HeaderSize) /\ cache'[b].recs \in SUBSET Record
              /\ b \in Int /\ r.lsn \in Int /\ b <= r.lsn /\ q \in cache'[b].recs
          BY <1>0, <2>1, <4>1, <4>4 DEF StoreOK, FilesOK, FileOK
        <5>3. PICK p \in cache'[b].recs : p.lsn = r.lsn
          BY <5>1, <5>2, ChainDense
        <5>4. p \in cache[b].recs
          BY <2>1
        <5>5. p = r
          BY <1>0, <5>3, <5>4 DEF StoreOK, FilesOK, FileOK, Chained
        <5> QED BY <3>1, <5>5
      <4> QED BY <1>0, <4>2, <4>3, <4>4
    <3> QED BY <3>3
  <2>2. CASE b \notin Names'
    <3>1. (\A c \in Names' : b < c) /\ r.lsn <= released
      BY <2>2
    <3>2. ASSUME NEW q \in Held' PROVE r.lsn < q.lsn
      <4>1. PICK c \in Names' : q \in cache'[c].recs
        BY <1>3
      <4>2. b < c /\ c \in Names /\ q \in cache[c].recs
        BY <3>1, <4>1
      <4>3. r.lsn < c
        BY <1>0, <4>2 DEF StoreOK, SealedOK
      <4> QED BY <1>0, <4>2, <4>3
    <3> QED BY <3>1, <3>2
  <2> QED BY <2>1, <2>2
<1>7. ASSUME NEW x \in Log \ Log'
      PROVE  \/ x.lsn <= released /\ \A y \in Log' : x.lsn < y.lsn
             \/ \A y \in Log' : y.lsn < x.lsn
  <2>1. \A y \in Log' : \E q \in Held' : y.lsn = q.lsn
    BY <1>4 DEF Contents
  <2>2. CASE x \in Contents(Held)
    <3>1. PICK r \in Held : x = [lsn |-> r.lsn, pay |-> r.pay]
      BY <2>2 DEF Contents
    <3>2. r \notin Held' /\ x.lsn = r.lsn
      BY <1>4, <1>7, <3>1 DEF Contents
    <3>3. PICK b \in Names : r \in cache[b].recs
      BY DEF Held
    <3> QED BY <1>6, <2>1, <3>2, <3>3
  <2>3. CASE x \notin Contents(Held)
    <3>1. PICK s \in Buffered : x = [lsn |-> s.lsn, pay |-> s.pay]
      BY <1>1, <2>3 DEF Contents
    <3>2. Live /\ s \in staging /\ x = Entry(s) /\ x.lsn = s.lsn
      BY <3>1 DEF Buffered, Entry
    <3>3. \A r \in Held : r.lsn < x.lsn
      BY <2>3, <3>2, BufferAbove
    <3> QED BY <1>4, <2>1, <3>3
  <2> QED BY <2>2, <2>3
<1> QED BY <1>5, <1>7, CrashStep

(* The process dies or a call fails, and the files stay as they are.        *)
LEMMA HandleLost ==
    ASSUME TypeInv, TypeInv', Inv, Inv', WrittenOK, ~Live',
           UNCHANGED <<fsVars, acked, released>>
    PROVE  Abstract!Next
<1>1. Names' = Names /\ cache' = cache
  BY DEF fsVars, Names
<1> QED BY <1>1, LossStep

(* A name that only the device still has, or only the cache has, can go.    *)
LEMMA NamesSettle ==
    ASSUME TypeInv, TypeInv', Inv, Inv', WrittenOK, ~Live',
           UNCHANGED <<dir, cache, acked, released>>, ddir' = dir
    PROVE  Abstract!Next
<1>1. Names' = dir /\ Names \ dir = ddir \ dir /\ dir \subseteq Names
  BY DEF Names
<1>2. \A b \in ddir \ dir :
        \/ cache[b].recs = {}
        \/ (\A c \in dir : b < c) /\ \A r \in cache[b].recs : r.lsn <= released
  BY DEF Inv, StoreOK, PendingOK
<1> QED BY <1>1, <1>2, LossStep

(* A power loss takes released segments, oldest first, and unsynced writes. *)
LEMMA LosePowerStep ==
    ASSUME TypeInv, TypeInv', Inv, Inv', WrittenOK, Honest, LosePower
    PROVE  Abstract!Next
<1>1. acked' = acked /\ released' = released /\ ~Live'
  BY DEF LosePower, NoHandle, ghostVars, Live, IsOpen
<1>2. PICK S \in SUBSET Names :
        /\ SurvivingNames(S) /\ dir' = S /\ ddir' = S /\ cache' = disk'
        /\ \A b \in S :
             /\ disk[b] = cache[b] => disk'[b] = disk[b]
             /\ disk'[b].recs \subseteq cache[b].recs
  BY PowerLossLeaves
<1>3. Names' = S /\ Names' \subseteq Names /\ Names \subseteq Nat
  BY <1>2, NamesType DEF Names, TypeInv
<1>4. \A b \in Names' : /\ cache'[b].recs \subseteq cache[b].recs
                        /\ disk[b] = cache[b] => cache'[b].recs = cache[b].recs
  BY <1>2, <1>3
<1>5. ASSUME NEW b \in Names \ Names'
      PROVE  \/ cache[b].recs = {}
             \/ (\A c \in Names' : b < c) /\ \A r \in cache[b].recs : r.lsn <= released
  <2>1. b \in dir \ ddir \/ b \in ddir \ dir
    BY <1>2, <1>3 DEF Names, SurvivingNames
  <2>2. CASE b \in dir \ ddir
    BY <2>2 DEF Inv, StoreOK, PendingOK
  <2>3. CASE b \in ddir \ dir /\ cache[b].recs # {}
    <3>1. (\A c \in dir : b < c) /\ (\A r \in cache[b].recs : r.lsn <= released)
      BY <2>3 DEF Inv, StoreOK, PendingOK
    <3>2. ASSUME NEW c \in S PROVE b < c
      <4>1. CASE c \in dir
        BY <3>1, <4>1
      <4>2. CASE c \in ddir \ dir
        <5>1. ~(c < b)
          BY <1>2, <1>3, <2>3, <4>2 DEF SurvivingNames, Settling, Honest
        <5>2. c # b /\ c \in Nat /\ b \in Nat
          BY <1>3
        <5> QED BY <5>1, <5>2
      <4> QED BY <4>1, <4>2 DEF Names
    <3> QED BY <1>3, <3>1, <3>2
  <2> QED BY <2>1, <2>2, <2>3
<1> QED BY <1>1, <1>3, <1>4, <1>5, LossStep

(* write_all_at stops part-way: the batch survives up to some record.       *)
LEMMA WriteFaultStep ==
    ASSUME TypeInv, TypeInv', Inv, Inv', WrittenOK, CommitWriteFault
    PROVE  Abstract!Next
<1>0. /\ TypeOK /\ pc = "commit" /\ Live /\ pos \in Nat /\ cache \in [Lsns -> File]
      /\ staging \in SUBSET Record /\ durable_lsn \in Nat
  BY DEF TypeInv, TypeOK, CommitWriteFault, Inv, Live, HandleOK, OpenOK
<1>1. UNCHANGED <<dir, ddir, disk, acked, released>> /\ ~Live' /\ Names' = Names
  BY DEF CommitWriteFault, Poison, NoHandle, ghostVars, Live, IsOpen, Names
<1>2. PICK k \in {pos} \cup Boundaries, t \in BOOLEAN :
        cache' = [cache EXCEPT ![active] =
                     [WriteRecords(@, Batch(pos, k, write_offset)) EXCEPT !.torn = t]]
  BY DEF CommitWriteFault
<1>3. k \in Nat
  BY <1>0, EndType DEF Boundaries
<1> DEFINE B == Batch(pos, k, write_offset)
<1>4. active \in Names /\ active \in Lsns
  BY <1>0, OthersOnDevice DEF Names
<1>5. cache'[active].recs = cache[active].recs \cup B
  <2>1. cache[active] = disk[active]
    BY <1>0 DEF Inv, HandleOK, TailOK
  <2>2. WriteRecords(cache[active], B).recs = cache[active].recs \cup B
    BY <1>0, <1>3, <2>1, BatchFits
  <2>3. cache'[active].recs = WriteRecords(cache[active], B).recs
    BY <1>0, <1>2, <1>4 DEF WriteRecords, File
  <2> QED BY <2>2, <2>3
<1>6. \A b \in Names \ {active} : cache'[b] = cache[b]
  BY <1>0, <1>2, NamesType
<1> HIDE DEF B
<1>7. Held' = Held \cup B
  BY <1>1, <1>4, <1>5, <1>6 DEF Held
<1>8. Contents(B) = Contents(Staged(pos, k)) /\ Staged(pos, k) \subseteq staging
  BY <1>0, BatchEntries DEF B, Staged
<1>9. Log = Contents(Held \cup staging)
  BY <1>0, LogIs DEF Buffered
<1>10. Log' = Contents(Held \cup B)
  <2>1. (TypeInv /\ Inv => Log = Contents(Held \cup Buffered))'
    BY LogIs, PTL
  <2>2. Buffered' = {}
    BY <1>1 DEF Buffered
  <2> QED BY <1>7, <2>1, <2>2
<1>11. Log' \subseteq Log
  BY <1>8, <1>9, <1>10 DEF Contents
<1>12. ASSUME NEW x \in Log \ Log' PROVE \A y \in Log' : y.lsn < x.lsn
  <2>1. x \notin Contents(Held) /\ x \notin Contents(Staged(pos, k))
    BY <1>8, <1>10 DEF Contents
  <2>2. PICK s \in staging : x = [lsn |-> s.lsn, pay |-> s.pay]
    BY <1>9, <2>1 DEF Contents
  <2>3. x = Entry(s) /\ x.lsn = s.lsn
    BY <2>2 DEF Entry
  <2>4. \A r \in Held : r.lsn < s.lsn
    BY <1>0, <2>1, <2>3, BufferAbove
  <2>5. s.start >= pos /\ ~(End(s) <= k)
    <3>1. ASSUME s.start < pos PROVE FALSE
      <4>1. PICK b \in segments : \E r \in cache[b].recs : r.lsn = s.lsn /\ r.pay = s.pay
        BY <1>0, <3>1 DEF WrittenOK
      <4>2. segments \subseteq Names
        BY <1>0 DEF Inv, HandleOK, DirectoryOK, Names
      <4> QED BY <2>1, <2>2, <4>1, <4>2 DEF Held, Contents
    <3>2. s.start \in Nat
      BY <1>0, EndType
    <3>3. s \notin Staged(pos, k)
      BY <2>1, <2>2 DEF Contents
    <3> QED BY <1>0, <3>1, <3>2, <3>3 DEF Staged
  <2>6. ASSUME NEW q \in Staged(pos, k) PROVE q.lsn < s.lsn
    <3> DEFINE R == {c \in staging : c.start >= pos}
    <3>1. q \in R /\ s \in R /\ End(q) <= k /\ Chained(R, durable_lsn + 1, pos)
      BY <1>0, <2>5 DEF Staged, Inv, HandleOK, StagingOK
    <3>2. (s.lsn < q.lsn => End(s) <= q.start) /\ (s.lsn = q.lsn => s = q)
      BY <3>1 DEF Chained
    <3>3. /\ q.lsn \in Nat /\ s.lsn \in Nat /\ End(q) \in Nat /\ End(s) \in Nat
          /\ q.start \in Nat /\ q.start < End(q)
      BY <1>0, <3>1, EndType
    <3> HIDE DEF R
    <3> QED BY <1>3, <2>5, <3>1, <3>2, <3>3
  <2>7. ASSUME NEW y \in Log' PROVE y.lsn < s.lsn
    <3>1. CASE y \in Contents(Held)
      BY <2>4, <3>1 DEF Contents
    <3>2. CASE y \in Contents(Staged(pos, k))
      BY <2>6, <3>2 DEF Contents
    <3>3. y \in Contents(Held) \cup Contents(B)
      BY <1>10 DEF Contents
    <3> QED BY <1>8, <3>1, <3>2, <3>3
  <2> QED BY <2>3, <2>7
<1> QED BY <1>1, <1>11, <1>12, CrashStep

-----------------------------------------------------------------------------
(* The calls of the API.                                                    *)

(* Nothing but control changes.                                             *)
LEMMA ControlStep ==
    ASSUME TypeInv, TypeInv', Inv, Inv',
           UNCHANGED <<fsVars, segments, poisoned, staging, acked, released>>
    PROVE  Stutter
<1>1. Held' = Held /\ Live' = Live /\ Contents(staging') = Contents(staging)
  BY DEF fsVars, Held, Names, Live, IsOpen
<1> QED BY <1>1, QuietStep

(* open returns a handle on the log as it found it.                         *)
LEMMA RecoverStep ==
    ASSUME TypeInv, TypeInv', Inv, Inv', ~Live, Live', Held' = Held, staging' = {},
           acked' = acked, released' = released
    PROVE  Abstract!Next
<1>1. Log = Contents(Held) /\ Log' = Contents(Held')
  <2>1. (TypeInv /\ Inv => Log = Contents(Held \cup Buffered))'
    BY LogIs, PTL
  <2>2. Buffered = {} /\ Buffered' = {}
    BY DEF Buffered
  <2> QED BY <2>1, <2>2, LogIs
<1>2. Abstract!Recover
  BY <1>1 DEF Abstract!Recover
<1> QED BY <1>2 DEF Abstract!Next

(* open, step by step.                                                      *)
LEMMA OpenRefines ==
    ASSUME TypeInv, TypeInv', Inv, Inv', WrittenOK, Open
    PROVE  Stutter \/ Abstract!Next
<1> USE DEF ghostVars, segVars, bufVars
<1>1. CASE \E seed \in Seeds : OpenStart(seed)
  BY <1>1, ControlStep DEF OpenStart
<1>2. CASE DiscoverEmpty \/ KeepHighest
  BY <1>2, ControlStep DEF DiscoverEmpty, KeepHighest
<1>3. CASE RejectHighest \/ RecoverFatal
  BY <1>3, RejectHighestNever, RecoverFatalNever
<1>4. CASE DiscardHighest
  <2>1. ddir = dir /\ dir' \subseteq dir
    BY <1>4 DEF DiscardHighest, Inv, HandleOK, OpenOK, Settled
  <2>2. Held' = Held /\ Live' = Live
    BY <1>4, <2>1 DEF DiscardHighest, Held, Names, Live, IsOpen
  <2>3. acked' = acked /\ released' = released /\ staging' = staging
    BY <1>4 DEF DiscardHighest
  <2> QED BY <2>2, <2>3, QuietStep
<1>5. CASE DiscardSync
  <2>1. ~Live'
    BY <1>5 DEF DiscardSync, Live, IsOpen, Inv, HandleOK, OpenOK
  <2> QED BY <1>5, <2>1, NamesSettle DEF DiscardSync, fsync_dir
<1>6. CASE RecoverClean
  <2>1. ~Live /\ UNCHANGED <<fsVars, acked, released>> /\ staging' = {}
    BY <1>6 DEF RecoverClean, Handle, Live, Inv, HandleOK, OpenOK
  <2>2. Live'
    BY <1>6 DEF RecoverClean, Handle, Live, IsOpen
  <2>3. Held' = Held
    BY <2>1 DEF fsVars, Held, Names
  <2> QED BY <2>1, <2>2, <2>3, RecoverStep
<1>7. CASE RecoverTorn
  <2>0. cache \in [Lsns -> File] /\ dir \subseteq Lsns /\ dir \subseteq Names /\ StoreOK
    BY DEF TypeInv, TypeOK, Inv, Names
  <2>1. PICK a \in dir :
            cache' = [cache EXCEPT ![a].recs = Run(cache[a], a), ![a].torn = FALSE]
    BY <1>7 DEF RecoverTorn
  <2>2. Run(cache[a], a) = cache[a].recs
    <3>1. Chained(cache[a].recs, a, HeaderSize)
      BY <2>0 DEF StoreOK, FilesOK, FileOK
    <3> QED BY <3>1, ChainedRun
  <2>3. \A b \in Lsns : cache'[b].recs = cache[b].recs
    BY <2>0, <2>1, <2>2 DEF File
  <2>4. Names' = Names /\ Names \subseteq Lsns
    BY <1>7, NamesType DEF RecoverTorn, Names, TypeInv
  <2>5. Held' = Held
    BY <2>3, <2>4 DEF Held
  <2> QED BY <1>7, <2>5, QuietStep DEF RecoverTorn, Live, IsOpen
<1>8. CASE ZeroSync
  <2>1. ~Live /\ UNCHANGED <<dir, ddir, cache, acked, released>> /\ staging' = {}
    BY <1>8 DEF ZeroSync, Handle, Live, Inv, HandleOK, OpenOK
  <2>2. Live'
    BY <1>8 DEF ZeroSync, Handle, Live, IsOpen
  <2>3. Held' = Held
    BY <2>1 DEF Held, Names
  <2> QED BY <2>1, <2>2, <2>3, RecoverStep
<1>9. CASE OpenFault
  BY <1>9, HandleLost DEF OpenFault, NoHandle, Live, IsOpen
<1> QED BY <1>1, <1>2, <1>3, <1>4, <1>5, <1>6, <1>7, <1>8, <1>9 DEF Open

(* A new segment holds no record until commit writes one.                   *)
LEMMA CreateRefines ==
    ASSUME TypeInv, TypeInv', Inv, Inv', WrittenOK, Create
    PROVE  Stutter \/ Abstract!Next
<1> USE DEF ghostVars, segVars, bufVars
<1>0. /\ cache \in [Lsns -> File] /\ Names \subseteq Lsns
      /\ pc \in CreateSteps /\ target \in Lsns
  BY NamesType DEF Create, CreateNew, Allocate, WriteHeader, SyncHeader, ColdStarted, Rolled,
                   CreateFault, CreateSteps, TypeInv, TypeOK
<1>1. target \notin ddir
  <2>1. CASE IsOpen
    <3>1. ddir = segments /\ segments \subseteq Nat /\ \A b \in segments : b < target
      BY <1>0, <2>1, TargetTop
    <3>2. \A n \in Nat : ~(n < n)
      OBVIOUS
    <3> QED BY <3>1, <3>2
  <2>2. CASE ~IsOpen
    BY <1>0, <2>2 DEF Inv, HandleOK, CreateOK
  <2> QED BY <2>1, <2>2
<1>2. CASE CreateNew
  <2>1. /\ Names' = Names \cup {target} /\ target \notin Names
        /\ cache' = [cache EXCEPT ![target] = NewFile]
    BY <1>1, <1>2 DEF CreateNew, Names
  <2>2. cache'[target].recs = {} /\ \A b \in Names : cache'[b] = cache[b]
    BY <1>0, <2>1 DEF NewFile
  <2>3. Held' = Held
    BY <2>1, <2>2 DEF Held
  <2> QED BY <1>2, <2>3, QuietStep DEF CreateNew, Live, IsOpen
<1>3. CASE Allocate \/ WriteHeader \/ SyncHeader
  <2>1. Names' = Names /\ \A b \in Names : cache'[b].recs = cache[b].recs
    BY <1>0, <1>3 DEF Allocate, WriteHeader, SyncHeader, Names, File
  <2>2. Held' = Held
    BY <2>1 DEF Held
  <2> QED BY <1>3, <2>2, QuietStep DEF Allocate, WriteHeader, SyncHeader, Live, IsOpen
<1>4. CASE ColdStarted
  <2>1. ~Live /\ UNCHANGED <<dir, cache, acked, released>> /\ staging' = {} /\ ddir = {}
        /\ ddir' = dir /\ dir = {target}
    BY <1>4 DEF ColdStarted, Handle, Live, fsync_dir, Inv, HandleOK, CreateOK, CreateSteps
  <2>2. Live'
    BY <1>4, <2>1 DEF ColdStarted, Handle, Live, IsOpen
  <2>3. Held' = Held
    BY <2>1 DEF Held, Names
  <2> QED BY <2>1, <2>2, <2>3, RecoverStep
<1>5. CASE Rolled
  <2>1. Live /\ ddir = segments /\ pc \in CreateSteps \ {"create"}
    BY <1>0, <1>5, TargetTop DEF Rolled, CreateSteps
  <2>2. dir = segments \cup {target}
    BY <2>1 DEF Inv, HandleOK, DirectoryOK
  <2>3. Held' = Held /\ Live' = Live
    BY <1>5, <2>1, <2>2 DEF Rolled, Activate, fsync_dir, Held, Names, Live, IsOpen
  <2> QED BY <1>5, <2>3, QuietStep DEF Rolled
<1>6. CASE CreateFault
  BY <1>6, HandleLost DEF CreateFault, Poison, NoHandle, Live, IsOpen
<1> QED BY <1>2, <1>3, <1>4, <1>5, <1>6 DEF Create

(* append puts its record right behind the newest one of the log.           *)
LEMMA AppendStep ==
    ASSUME TypeInv, TypeInv', Inv, Inv', History, NEW p \in Payloads, Append(p)
    PROVE  Abstract!Next
<1> DEFINE new == [lsn |-> last_lsn + 1, pay |-> p, start |-> staging_len]
           x == [lsn |-> last_lsn + 1, pay |-> p]
<1>0. /\ pc = "idle" /\ Live /\ TypeOK /\ StoreOK
      /\ last_lsn \in Nat /\ durable_lsn \in Nat /\ last_lsn + 1 \in Lsns
      /\ staging' = staging \cup {new} /\ acked \subseteq Ack
      /\ dir = segments /\ ddir = segments /\ Names = dir
  BY ConfigAssumption DEF Append, Ready, Live, HasNext, TypeInv, TypeOK, Lsns, Inv, HandleOK,
                          DirectoryOK, Names
<1>1. UNCHANGED <<fsVars, segments, poisoned, acked, released>> /\ Live' = Live /\ Held' = Held
  BY DEF Append, fsVars, segVars, ghostVars, Live, IsOpen, Held, Names
<1>2. /\ Log = Contents(Held \cup staging) /\ Held \in SUBSET Record /\ staging \in SUBSET Record
  BY <1>0, LogIs DEF Buffered
<1>3. Log' = Log \cup {x}
  <2>1. (TypeInv /\ Inv => Log = Contents(Held \cup Buffered))'
    BY LogIs, PTL
  <2>2. Log' = Contents((Held \cup staging) \cup {new})
    BY <1>0, <1>1, <2>1 DEF Buffered
  <2>3. Log' = Log \cup {Entry(new)}
    BY <1>2, <2>2, Seen
  <2> QED BY <2>3 DEF Entry
<1>4. /\ \A s \in staging : s.lsn \in Nat /\ durable_lsn < s.lsn /\ s.lsn <= last_lsn
      /\ durable_lsn <= last_lsn
      /\ staging = {} => last_lsn = durable_lsn
      /\ staging # {} => \E s \in staging : s.lsn = last_lsn
  <2>1. \A s \in staging : s.start \in Nat /\ s.lsn \in Nat
    BY <1>2, EndType
  <2>2. /\ pos = 0 /\ Chained({s \in staging : s.start >= pos}, durable_lsn + 1, pos)
        /\ \A s \in staging : s.lsn <= last_lsn
        /\ staging = {} => last_lsn = durable_lsn
        /\ staging # {} => \E s \in staging : s.lsn = last_lsn
    BY <1>0 DEF Inv, HandleOK, StagingOK
  <2>3. \A s \in staging : durable_lsn + 1 <= s.lsn
    BY <2>1, <2>2 DEF Chained
  <2>4. \A s \in staging : durable_lsn < s.lsn
    BY <1>0, <2>1, <2>3
  <2>5. CASE staging = {}
    BY <1>0, <2>2, <2>5
  <2>6. CASE staging # {}
    BY <1>0, <2>1, <2>2, <2>4, <2>6
  <2> QED BY <2>1, <2>2, <2>4, <2>5, <2>6
<1>5. \A r \in Held : r.lsn \in Nat /\ r.lsn <= durable_lsn
  BY <1>0, <1>2, HeldTop, EndType
<1>6. \A y \in Log \cup acked : y.lsn < last_lsn + 1
  <2>1. \A r \in Held \cup staging : r.lsn < last_lsn + 1
    BY <1>0, <1>4, <1>5
  <2>2. \A y \in acked : y.lsn <= durable_lsn /\ y.lsn \in Nat
    BY <1>0 DEF History, AckedLsnNotReused, Live, Ack, Lsns
  <2>3. \A y \in acked : y.lsn < last_lsn + 1
    BY <1>0, <1>4, <2>2
  <2> QED BY <1>2, <2>1, <2>3 DEF Contents
<1>7. ASSUME Log # {} PROVE \E y \in Log : y.lsn = last_lsn
  <2>1. CASE staging # {}
    <3>1. PICK s \in staging : s.lsn = last_lsn
      BY <1>4, <2>1
    <3> QED BY <1>2, <3>1, Seen
  <2>2. CASE staging = {}
    <3>1. PICK b \in dir : cache[b].recs # {}
      BY <1>0, <1>2, <1>7, <2>2 DEF Contents, Held
    <3>2. PICK r \in cache[b].recs : TRUE
      BY <3>1
    <3>3. b <= r.lsn /\ r.lsn <= durable_lsn /\ b \in Nat /\ r.lsn \in Nat
      <4>1. r \in Held /\ b \in Names /\ Names \subseteq Nat
        BY <1>0, <3>2, NamesType DEF Held
      <4> QED BY <1>5, <4>1 DEF StoreOK, FilesOK, FileOK, Chained, Inv
    <3>4. \E h \in dir : durable_lsn < h \/ \E q \in cache[h].recs : durable_lsn <= q.lsn
      <4>1. /\ active \in dir /\ active <= durable_lsn + 1 /\ active \in Nat
            /\ active <= durable_lsn => \E q \in disk[active].recs : q.lsn = durable_lsn
        BY <1>0, TopRecord, NamesType
      <4>2. disk[active].recs \subseteq cache[active].recs
        BY <1>0, <4>1 DEF StoreOK, FilesOK, FileOK
      <4>3. CASE active <= durable_lsn
        <5>1. PICK q \in cache[active].recs : q.lsn = durable_lsn
          BY <4>1, <4>2, <4>3
        <5> QED BY <1>0, <4>1, <5>1
      <4>4. CASE durable_lsn < active
        BY <4>1, <4>4
      <4> QED BY <1>0, <4>1, <4>3, <4>4
    <3>5. b <= durable_lsn
      BY <1>0, <3>3
    <3>6. PICK c \in dir : \E q \in cache[c].recs : q.lsn = durable_lsn
      BY <1>0, <3>4, <3>5, StoreCached, NoGap
    <3>7. PICK q \in cache[c].recs : q.lsn = durable_lsn
      BY <3>6
    <3>8. q \in Held
      BY <1>0, <3>7 DEF Held
    <3> QED BY <1>2, <1>4, <2>2, <3>7, <3>8, Seen
  <2> QED BY <2>1, <2>2
<1>8. x \in Abstract!Entry
  BY <1>0 DEF Abstract!Entry
<1>9. Abstract!Append(x)
  <2>1. x.lsn = last_lsn + 1 /\ x.lsn - 1 = last_lsn
    BY <1>0
  <2>2. Log # {} => x.lsn - 1 \in Abstract!LsnsOf(Log)
    BY <1>7, <2>1 DEF Abstract!LsnsOf
  <2>3. \A y \in Log \cup acked : y.lsn < x.lsn
    BY <1>6, <2>1
  <2> HIDE DEF x
  <2> QED BY <1>0, <1>1, <1>3, <2>2, <2>3 DEF Abstract!Append
<1> QED BY <1>8, <1>9 DEF Abstract!Next

(* An empty commit reports what is in the files.                            *)
LEMMA CommitEmptyStep ==
    ASSUME TypeInv, TypeInv', Inv, Inv', CommitEmpty
    PROVE  Abstract!Next
<1>0. /\ Live /\ pc = "idle" /\ staging_len = 0 /\ dir \cup ddir = dir
      /\ durable_lsn \in Lsns \cup {0}
  BY ConfigAssumption DEF CommitEmpty, Ready, Live, Inv, HandleOK, DirectoryOK, TypeInv, TypeOK, Lsns
<1>1. staging = {}
  <2>1. \A s \in staging : End(s) <= 0
    BY <1>0 DEF Inv, HandleOK, StagingOK
  <2>2. \A s \in staging : s.start \in Nat /\ End(s) \in Nat /\ s.start < End(s)
    BY EndType DEF TypeInv, TypeOK
  <2>3. \A s \in staging : FALSE
    BY <2>1, <2>2
  <2> QED BY <2>3
<1>2. Log = Stored(dir, cache)
  BY <1>0, <1>1 DEF Log, Contents
<1>3. Log' = Log /\ Live' = Live /\ released' = released
  BY DEF CommitEmpty, Log, Live, IsOpen, fsVars, segVars, bufVars
<1>4. acked' = acked \cup {r \in Log : r.lsn <= durable_lsn}
  BY <1>2 DEF CommitEmpty, Report
<1>5. Abstract!Report(durable_lsn)
  BY <1>0, <1>3, <1>4 DEF Abstract!Report
<1> QED BY <1>0, <1>5 DEF Abstract!Next

(* commit moves records from the buffer to a file: the log is the same.     *)
LEMMA CommitWriteStep ==
    ASSUME TypeInv, TypeInv', Inv, Inv', CommitWrite
    PROVE  Stutter
<1>0. /\ TypeOK /\ pc = "commit" /\ Live /\ cache \in [Lsns -> File]
      /\ staging \in SUBSET Record
  BY DEF TypeInv, TypeOK, CommitWrite, Inv, Live, HandleOK, OpenOK
<1>1. UNCHANGED <<dir, ddir, staging, acked, released>> /\ Live' = Live /\ Names' = Names
  BY DEF CommitWrite, ghostVars, segVars, Live, IsOpen, Names
<1>2. PICK e \in Boundaries :
        cache' = [cache EXCEPT ![active] = WriteRecords(@, Batch(pos, e, write_offset))]
  BY DEF CommitWrite
<1>3. e \in Nat
  BY <1>0, EndType DEF Boundaries
<1> DEFINE B == Batch(pos, e, write_offset)
<1>4. active \in Names /\ active \in Lsns
  BY <1>0, OthersOnDevice DEF Names
<1>5. cache'[active].recs = cache[active].recs \cup B
  <2>1. cache[active] = disk[active]
    BY <1>0 DEF Inv, HandleOK, TailOK
  <2>2. WriteRecords(cache[active], B).recs = cache[active].recs \cup B
    BY <1>0, <1>3, <2>1, BatchFits
  <2> QED BY <1>0, <1>2, <1>4, <2>2
<1>6. \A b \in Names \ {active} : cache'[b] = cache[b]
  BY <1>0, <1>2, NamesType
<1> HIDE DEF B
<1>7. Held' = Held \cup B
  BY <1>1, <1>4, <1>5, <1>6 DEF Held
<1>8. Contents(B) \subseteq Contents(staging)
  <2>1. Contents(B) = Contents(Staged(pos, e)) /\ Staged(pos, e) \subseteq staging
    BY <1>0, BatchEntries DEF B, Staged
  <2> QED BY <2>1 DEF Contents
<1>9. Log = Contents(Held \cup staging)
  BY <1>0, LogIs DEF Buffered
<1>10. Log' = Contents((Held \cup B) \cup staging)
  <2>1. (TypeInv /\ Inv => Log = Contents(Held \cup Buffered))'
    BY LogIs, PTL
  <2> QED BY <1>0, <1>1, <1>7, <2>1 DEF Buffered
<1>11. Log' = Log
  BY <1>8, <1>9, <1>10 DEF Contents
<1> QED BY <1>1, <1>11 DEF Stutter

(* A sync that succeeds reports everything in the files, and what it clears *)
(* from the buffer is in them.                                              *)
LEMMA CommitSyncStep ==
    ASSUME TypeInv, TypeInv', Inv, Inv', Honest, History, CommitSync
    PROVE  Abstract!Next
<1>0. /\ pc = "sync" /\ Live /\ TypeOK /\ StoreOK /\ WrittenOK
      /\ pos \in Nat /\ scan \in Nat /\ staging \in SUBSET Record /\ dir \cup ddir = dir
      /\ Names = dir
  BY DEF CommitSync, Live, Inv, HandleOK, OpenOK, DirectoryOK, TypeInv, TypeOK, History, Names
<1>1. /\ UNCHANGED <<dir, ddir, cache, released>> /\ Live' = Live /\ Held' = Held
      /\ \/ staging' = {} /\ scan = staging_len
         \/ staging' = staging
  BY DEF CommitSync, Live, IsOpen, Held, Names
<1>2. PICK r \in staging : End(r) = scan /\ durable_lsn' = r.lsn
  BY DEF CommitSync
<1>3. acked' = acked \cup Contents(Staged(pos, scan)) \cup {y \in Stored(dir, cache) : y.lsn <= r.lsn}
  BY <1>2 DEF CommitSync, Report
<1>4. Log = Contents(Held \cup staging) /\ Held \in SUBSET Record
  BY <1>0, LogIs DEF Buffered
<1>5. Stored(dir, cache) = Contents(Held)
  <2>1. Names \in SUBSET Names
    OBVIOUS
  <2>2. \A y : y \in Stored(dir, cache) <=>
            \E b \in dir : \E q \in cache[b].recs : y = [lsn |-> q.lsn, pay |-> q.pay]
    BY <1>0, <2>1, ShownRecords
  <2> QED BY <1>0, <2>2 DEF Contents, Held
<1>6. \A s \in staging : /\ s.lsn \in Nat /\ s.start \in Nat /\ End(s) \in Nat
                         /\ End(s) <= scan => Entry(s) \in Contents(Held)
  <2>1. \A s \in staging : s.lsn \in Nat /\ s.start \in Nat /\ End(s) \in Nat
    BY <1>0, EndType
  <2>2. ASSUME NEW s \in staging, End(s) <= scan PROVE Entry(s) \in Contents(Held)
    BY <1>0, <2>1, <2>2, PassedIsHeld
  <2> QED BY <2>1, <2>2
<1>7. Entry(r) \in Contents(Held)
  BY <1>0, <1>2, <1>6
<1>8. {y \in Log : y.lsn <= r.lsn} \subseteq {y \in Contents(Held) : y.lsn <= r.lsn}
  <2> SUFFICES ASSUME NEW y \in Log, y.lsn <= r.lsn, y \notin Contents(Held) PROVE FALSE
    OBVIOUS
  <2>1. PICK s \in staging : y = Entry(s)
    BY <1>4 DEF Contents, Entry
  <2>2. \A q \in Held : q.lsn < s.lsn
    BY <1>0, <2>1, BufferAbove
  <2>3. PICK q \in Held : Entry(r) = [lsn |-> q.lsn, pay |-> q.pay]
    BY <1>7 DEF Contents
  <2>4. q.lsn = r.lsn /\ y.lsn = s.lsn
    BY <2>1, <2>3 DEF Entry
  <2> QED BY <1>2, <1>6, <2>1, <2>2, <2>4
<1>9. Contents(Staged(pos, scan)) \subseteq {y \in Log : y.lsn <= r.lsn}
  <2>1. Staged(pos, scan) \subseteq staging
    BY DEF Staged
  <2>2. Contents(Staged(pos, scan)) \subseteq Log
    BY <1>4, <2>1 DEF Contents
  <2>3. Next /\ Live' /\ \A a \in acked : a.lsn <= durable_lsn
    BY <1>0, <1>1 DEF Next, Commit, History, AckedLsnNotReused, Live
  <2>4. \A a \in acked' : a.lsn <= durable_lsn'
    BY <1>0, <2>3, ReportedIsDurable
  <2> QED BY <1>2, <1>3, <2>2, <2>4
<1>10. acked' = acked \cup {y \in Log : y.lsn <= r.lsn}
  <2>1. Contents(Held) \subseteq Log
    BY <1>4 DEF Contents
  <2> QED BY <1>3, <1>5, <1>8, <1>9, <2>1
<1>11. Log' = Log
  <2>1. (TypeInv /\ Inv => Log = Contents(Held \cup Buffered))'
    BY LogIs, PTL
  <2>2. Log' = Contents(Held \cup staging')
    BY <1>0, <1>1, <2>1 DEF Buffered
  <2>3. CASE staging' = {} /\ scan = staging_len
    <3>1. \A s \in staging : End(s) <= scan
      BY <1>0, <2>3 DEF Inv, HandleOK, StagingOK
    <3>2. \A s \in staging : Entry(s) \in Contents(Held)
      BY <1>6, <3>1
    <3>3. Contents(staging) \subseteq Contents(Held)
      BY <3>2 DEF Contents, Entry
    <3> QED BY <1>4, <2>2, <2>3, <3>3 DEF Contents
  <2>4. CASE staging' = staging
    BY <1>4, <2>2, <2>4
  <2> QED BY <1>1, <2>3, <2>4
<1>12. r.lsn \in Lsns \cup {0}
  BY <1>0, <1>2 DEF Record
<1>13. Abstract!Report(r.lsn)
  BY <1>0, <1>1, <1>10, <1>11 DEF Abstract!Report
<1> QED BY <1>12, <1>13 DEF Abstract!Next

(* checkpoint begins: the caller allows what it names.                      *)
LEMMA CheckpointStartStep ==
    ASSUME TypeInv, NEW up_to \in 0..MaxLsn, CheckpointStart(up_to)
    PROVE  Stutter \/ Abstract!Next
<1>1. Log' = Log /\ Live' = Live /\ Live /\ acked' = acked
  BY DEF CheckpointStart, Ready, Log, Live, IsOpen, fsVars, segVars, bufVars
<1>2. up_to \in Lsns \cup {0}
  BY ConfigAssumption DEF Lsns
<1>3. CASE up_to > released
  <2>1. Abstract!Allow(up_to)
    BY <1>1, <1>3 DEF CheckpointStart, Abstract!Allow
  <2> QED BY <1>2, <2>1 DEF Abstract!Next
<1>4. CASE ~(up_to > released)
  BY <1>1, <1>4 DEF CheckpointStart, Stutter
<1> QED BY <1>3, <1>4

(* An unlink counts only once the directory is synced.                      *)
LEMMA CheckpointUnlinkStep ==
    ASSUME TypeInv, TypeInv', Inv, Inv', CheckpointUnlink
    PROVE  Stutter
<1>0. ddir = segments /\ dir \subseteq segments
  BY DEF CheckpointUnlink, Inv, HandleOK, OpenOK, DirectoryOK, Live
<1>1. Names' = Names
  BY <1>0 DEF CheckpointUnlink, Names
<1>2. Held' = Held /\ Live' = Live /\ staging' = staging /\ acked' = acked /\ released' = released
  BY <1>1 DEF CheckpointUnlink, Held, Live, IsOpen, segVars, bufVars, ghostVars
<1> QED BY <1>2, QuietStep

(* checkpoint ends: the released segments are gone, and nothing else.       *)
LEMMA CheckpointSyncStep ==
    ASSUME TypeInv, TypeInv', Inv, Inv', CheckpointSync
    PROVE  Abstract!Next
<1>0. /\ pc = "unlink" /\ Live /\ TypeOK /\ StoreOK /\ doomed \cap dir = {}
      /\ UNCHANGED <<dir, cache, staging, acked, released>> /\ ddir' = dir
  BY DEF CheckpointSync, fsync_dir, bufVars, ghostVars, Inv, HandleOK, OpenOK, Live, TypeInv
<1>1. /\ Highest(active, segments) /\ ddir = segments /\ dir \subseteq segments
      /\ segments \ dir \subseteq doomed /\ active \notin doomed
      /\ \A b \in segments \ dir, c \in dir : b < c
      /\ \A d \in doomed : \A q \in cache[d].recs : q.lsn <= released
  BY <1>0 DEF Inv, HandleOK, DirectoryOK
<1>2. Names = segments /\ Names' = dir /\ segments \ doomed = dir /\ Names \subseteq Nat
  <2>1. Names \subseteq Nat
    BY <1>0, NamesType
  <2> QED BY <1>0, <1>1, <2>1 DEF Names
<1>3. PICK o \in dir : (\A c \in dir : o <= c) /\ segments' = dir
  BY <1>2 DEF CheckpointSync, Lowest
<1>4. Live'
  BY <1>0, <1>3 DEF Live, IsOpen, CheckpointSync
<1>5. Log = Contents(Held \cup staging) /\ Log' = Contents(Held' \cup staging)
      /\ Held \in SUBSET Record
  <2>1. (TypeInv /\ Inv => Log = Contents(Held \cup Buffered))'
    BY LogIs, PTL
  <2> QED BY <1>0, <1>4, <2>1, LogIs DEF Buffered
<1>6. Held' = UNION {cache[b].recs : b \in dir} /\ Held' \subseteq Held
  BY <1>0, <1>1, <1>2 DEF Held
<1>7. ASSUME NEW q \in Held'
      PROVE  o <= q.lsn
  <2>1. PICK b \in dir : q \in cache[b].recs
    BY <1>6
  <2>2. b <= q.lsn /\ q.lsn \in Nat
    BY <1>0, <1>1, <1>2, <1>5, <1>6, <2>1, EndType DEF StoreOK, FilesOK, FileOK, Chained
  <2> QED BY <1>1, <1>2, <1>3, <2>1, <2>2
<1>8. ASSUME NEW q \in Held, q \notin Held'
      PROVE  q.lsn < o /\ q.lsn <= released
  <2>1. PICK b \in segments : q \in cache[b].recs
    BY <1>2 DEF Held
  <2>2. b \in segments \ dir /\ b < o
    BY <1>1, <1>3, <1>6, <1>8, <2>1
  <2> QED BY <1>0, <1>1, <1>2, <2>1, <2>2 DEF StoreOK, SealedOK
<1>9. ASSUME NEW s \in staging PROVE o <= s.lsn
  <2>1. s \in Record /\ s.start \in Nat /\ s.lsn \in Nat /\ durable_lsn \in Nat
    BY EndType DEF TypeInv, TypeOK
  <2>2. pos = 0 /\ Chained({c \in staging : c.start >= pos}, durable_lsn + 1, pos)
    BY <1>0 DEF Inv, HandleOK, StagingOK
  <2>3. durable_lsn + 1 <= s.lsn
    BY <2>1, <2>2 DEF Chained
  <2>4. active \in dir /\ active <= durable_lsn + 1
    BY <1>0, TopRecord
  <2>5. o <= active /\ o \in Nat /\ active \in Nat
    BY <1>1, <1>2, <1>3, <2>4
  <2> QED BY <2>1, <2>3, <2>4, <2>5
<1>10. /\ \A q \in Held \cup staging : q.lsn \in Nat
       /\ o \in Nat /\ o \in Lsns /\ released \in Nat
  <2>1. Held \cup staging \subseteq Record
    BY <1>5 DEF TypeInv, TypeOK
  <2>2. \A q \in Held \cup staging : q.lsn \in Nat
    BY <2>1, EndType
  <2>3. o \in Nat /\ o \in Lsns /\ released \in Nat
    BY <1>1, <1>2, <1>3 DEF TypeInv, TypeOK
  <2> QED BY <2>2, <2>3
<1>11. \A y \in Log : \E q \in Held \cup staging : y = [lsn |-> q.lsn, pay |-> q.pay]
  BY <1>5 DEF Contents
<1>12. \A y \in Log' : \E q \in Held' \cup staging : y = [lsn |-> q.lsn, pay |-> q.pay]
  BY <1>5 DEF Contents
<1>13. Log' = {y \in Log : o <= y.lsn}
  <2>1. ASSUME NEW y \in Log' PROVE y \in Log /\ o <= y.lsn
    <3>1. PICK q \in Held' \cup staging : y = [lsn |-> q.lsn, pay |-> q.pay]
      BY <1>12
    <3>2. o <= q.lsn /\ y.lsn = q.lsn
      BY <1>7, <1>9, <3>1
    <3> QED BY <1>5, <1>6, <3>2 DEF Contents
  <2>2. ASSUME NEW y \in Log, o <= y.lsn PROVE y \in Log'
    <3>1. PICK q \in Held \cup staging : y = [lsn |-> q.lsn, pay |-> q.pay]
      BY <1>11
    <3>2. q \in Held' \cup staging
      BY <1>8, <1>10, <2>2, <3>1
    <3> QED BY <1>5, <3>1, <3>2 DEF Contents
  <2> QED BY <2>1, <2>2
<1>14. ASSUME NEW y \in Log, y.lsn < o PROVE y.lsn <= released
  <2>1. PICK q \in Held \cup staging : y = [lsn |-> q.lsn, pay |-> q.pay]
    BY <1>11
  <2>2. y.lsn = q.lsn /\ q.lsn \in Nat
    BY <1>10, <2>1
  <2> QED BY <1>7, <1>8, <1>9, <1>10, <1>14, <2>2
<1>15. Abstract!Trim(o)
  BY <1>0, <1>4, <1>13, <1>14 DEF Abstract!Trim
<1> QED BY <1>10, <1>15 DEF Abstract!Next

-----------------------------------------------------------------------------
(* Every step of the writer, of recovery and of the environment is a step   *)
(* of the abstract log or leaves it alone.                                  *)
LEMMA RefinesNext ==
    ASSUME Honest
    PROVE  TypeInv /\ TypeInv' /\ Inv /\ Inv' /\ History /\ [Next]_vars
               => [Abstract!Next]_(Abstract!vars)
<1> SUFFICES ASSUME TypeInv, TypeInv', Inv, Inv', History, [Next]_vars
             PROVE  Stutter \/ Abstract!Next
  BY DEF Stutter, Abstract!vars
<1>0. WrittenOK
  BY DEF History
<1>1. CASE Open \/ Create
  BY <1>0, <1>1, OpenRefines, CreateRefines
<1>2. CASE Commit
  <2>1. CASE CommitEmpty \/ CommitWrite \/ CommitWriteFault \/ CommitSync
    BY <1>0, <2>1, CommitEmptyStep, CommitWriteStep, WriteFaultStep, CommitSyncStep
  <2>2. CASE CommitStart \/ CommitNoFit
    BY <2>2, ControlStep DEF CommitStart, CommitNoFit, segVars, bufVars, ghostVars
  <2>3. CASE CommitSyncFault
    BY <1>0, <2>3, HandleLost DEF CommitSyncFault, Poison, ghostVars, Live
  <2> QED BY <1>2, <2>1, <2>2, <2>3 DEF Commit
<1>3. CASE Checkpoint
  <2>1. CASE CheckpointFault
    BY <1>0, <2>1, HandleLost DEF CheckpointFault, Poison, ghostVars, Live
  <2> QED BY <1>3, <2>1, CheckpointStartStep, CheckpointUnlinkStep, CheckpointSyncStep
      DEF Checkpoint
<1>4. CASE Environment
  <2>1. CASE Kill
    BY <1>0, <2>1, HandleLost DEF Kill, NoHandle, ghostVars, Live, IsOpen
  <2>2. CASE Writeback
    <3>1. ~Live'
      BY <2>2 DEF Writeback, segVars, Live, IsOpen, Inv, HandleOK, OpenOK
    <3> QED BY <1>0, <2>2, <3>1, NamesSettle DEF Writeback, ghostVars
  <2> QED BY <1>0, <1>4, <2>1, <2>2, LosePowerStep, MediaFaultNever DEF Environment
<1>5. CASE \E p \in Payloads : Append(p)
  BY <1>5, AppendStep
<1>6. CASE UNCHANGED vars
  BY <1>6, ControlStep DEF vars, segVars, bufVars, ghostVars
<1> QED BY <1>1, <1>2, <1>3, <1>4, <1>5, <1>6 DEF Next

(* D1-D3, D6, D8, D9 for every configuration: Wal implements DurableLog.    *)
(* No crash, recovery, failing call or checkpoint makes the log do anything *)
(* but append at its end, report, trim what was released, and lose a tail   *)
(* that was never reported.                                                 *)
THEOREM Refinement == Honest => (Spec => ImplementsDurableLog)
<1> SUFFICES ASSUME Honest PROVE Spec => ImplementsDurableLog
  OBVIOUS
<1>1. Init => Abstract!Init
  BY DEF Init, Abstract!Init, Log, Stored, Contents, Live, IsOpen
<1> QED BY <1>1, RefinesNext, CrashSafe, HistoryCorrect, TypeInit, TypeNext, PTL
    DEF Spec, ImplementsDurableLog, Abstract!Spec
=============================================================================
