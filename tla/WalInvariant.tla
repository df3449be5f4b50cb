---------------------------- MODULE WalInvariant ----------------------------
(***************************************************************************)
(* Why the log survives crashes: the inductive invariant of Wal in an       *)
(* environment that reopens the log only after the previous process's       *)
(* writes have settled, persists unlinks in order and does not corrupt what *)
(* it has stored.                                                           *)
(***************************************************************************)
EXTENDS Wal

Settling == ~WarmReopen /\ OrderedUnlink

Honest == Settling /\ MediaFaults = 0

Live == IsOpen /\ ~poisoned

(* The names a power loss may leave.                                        *)
Names == dir \cup ddir

(* The records of a file (or of the staging buffer) lie one behind another  *)
(* in LSN order, the first one at offset off with LSN b.                    *)
Chained(recs, b, off) ==
    /\ \A r \in recs : b <= r.lsn /\ off <= r.start
    /\ \A r \in recs : \/ r.lsn = b /\ r.start = off
                       \/ \E q \in recs : End(q) = r.start /\ r.lsn = q.lsn + 1
    /\ \A r, s \in recs : r.lsn < s.lsn => End(r) <= s.start
    /\ \A r, s \in recs : r.lsn = s.lsn => r = s

(* The device is never ahead of the cache, records are only written to a    *)
(* segment whose header and name are durable, and a torn tail means that a  *)
(* record could still have been written.                                    *)
FileOK(b) ==
    LET c == cache[b]  d == disk[b] IN
    /\ Chained(c.recs, b, HeaderSize) /\ Chained(d.recs, b, HeaderSize)
    /\ d.recs \subseteq c.recs
    /\ \A r \in c.recs \ d.recs, s \in d.recs : s.lsn < r.lsn
    /\ c.recs # {} => b \in ddir /\ c.hdr = "ok" /\ d.hdr = "ok"
    /\ d.torn \/ c.torn => \A r \in c.recs : r.lsn < MaxLsn

FilesOK == \A b \in Names : FileOK(b)

(* A segment with a newer one is complete on the device and the next        *)
(* segment starts right behind it.                                          *)
Sealed(b) ==
    /\ disk[b] = cache[b] /\ cache[b].hdr = "ok" /\ ~cache[b].torn
    /\ \E r \in cache[b].recs : r.lsn + 1 \in Names

SealedOK ==
    \A b, c \in Names : b < c => Sealed(b) /\ \A r \in cache[b].recs : r.lsn < c

(* A name that is gone from the cached directory only was the oldest and    *)
(* released, or the newest and empty; one that is new is newest and empty.  *)
PendingOK ==
    /\ \A b \in ddir \ dir :
        \/ (\A c \in dir : b < c) /\ (\A r \in cache[b].recs : r.lsn <= released)
        \/ (\A c \in dir : c < b) /\ cache[b].recs = {}
    /\ \A b \in dir \ ddir : cache[b].recs = {} /\ \A c \in Names : c <= b

(* The file being created has a header at most.                             *)
CreateOK ==
    /\ pc \in CreateSteps /\ ~IsOpen =>
        ddir = {} /\ dir = IF pc = "create" THEN {} ELSE {target}
    /\ pc \in CreateSteps \ {"create"} =>
        /\ cache[target].recs = {} /\ ~cache[target].torn
        /\ disk[target].recs = {} /\ ~disk[target].torn
    /\ pc \in {"headersync", "dirsync"} => cache[target].hdr = "ok"
    /\ pc = "dirsync" => disk[target] = cache[target]

(* While open runs there is no handle, and what it reads is on the device.  *)
OpenOK ==
    /\ pc \in {"closed", "discover", "discard", "recover", "zero"} => ~IsOpen
    /\ pc \in {"idle", "commit", "sync", "unlink"} => IsOpen
    /\ poisoned => pc = "idle"
    /\ pc \in {"discover", "recover"} => Settled
    /\ pc = "discard" => disk = cache
    /\ pc \in {"discard", "recover", "zero"} => \A b \in dir : cache[b].hdr = "ok"
    /\ pc = "zero" =>
        /\ ddir = dir
        /\ \A b \in dir : ~cache[b].torn /\ disk[b].recs = cache[b].recs /\ disk[b].hdr = "ok"

(* The directory while a handle is live.                                    *)
DirectoryOK ==
    Live =>
        /\ Highest(active, segments) /\ Lowest(oldest_lsn, segments)
        /\ ddir = segments
        /\ pc \in {"idle", "commit", "sync", "create"} => dir = segments
        /\ pc \in CreateSteps \ {"create"} => dir = segments \cup {target}
        /\ pc = "unlink" =>
            /\ dir \subseteq segments /\ segments \ dir \subseteq doomed
            /\ active \notin doomed
            /\ \A b \in segments \ dir, c \in dir : b < c
            /\ \A d \in doomed, b \in segments : b < d => b \in doomed
            /\ \A d \in doomed : \A r \in cache[d].recs : r.lsn <= released

(* The active segment on the device is what the handle says; the page cache *)
(* is ahead of it by the batch being synced.                                *)
TailOK ==
    Live =>
        /\ disk[active].hdr = "ok" /\ ~disk[active].torn
        /\ RunLast(disk[active], active) = durable_lsn
        /\ RunEnd(disk[active], active) = write_offset
        /\ pc # "sync" => cache[active] = disk[active]
        /\ pc = "sync" => cache[active] =
                WriteRecords(disk[active], Batch(pos, scan, write_offset))
        /\ pc \in CreateSteps => target = durable_lsn + 1 /\ disk[active].recs # {}

(* The staging buffer holds the LSNs up to last_lsn; those behind pos are   *)
(* the ones that are not durable.                                           *)
StagingOK ==
    Live =>
        /\ \A s \in staging : Framed[s.pay] <= MaxFramed
        /\ \A s \in staging : End(s) <= staging_len /\ s.lsn <= last_lsn
        /\ Chained({s \in staging : s.start >= pos}, durable_lsn + 1, pos)
        /\ \A s \in staging : s.start < pos => End(s) <= pos
        /\ staging = {} => staging_len = 0 /\ last_lsn = durable_lsn
        /\ staging # {} => \E s \in staging : End(s) = staging_len /\ s.lsn = last_lsn
        /\ pc \in {"idle", "unlink"} => pos = 0
        /\ pc = "sync" => pos < scan /\ scan \in Boundaries

StoreOK == FilesOK /\ SealedOK /\ PendingOK

HandleOK == CreateOK /\ OpenOK /\ DirectoryOK /\ TailOK /\ StagingOK

(* No open has been refused.  Nothing is corrupted, so this is NeverFatal.  *)
NoError == err = "none"

Inv == StoreOK /\ AckedIsDurable /\ NoError /\ HandleOK

-----------------------------------------------------------------------------
(* What else the history variables and the buffer have to do with the files.*)

(* Every LSN that was ever reported lies below the end of a segment that no *)
(* crash and no recovery removes, even when its own record is released.     *)
AckedBelow ==
    \A a \in acked : \E b \in dir \cap ddir :
        /\ cache[b].hdr = "ok" /\ disk[b].hdr = "ok"
        /\ a.lsn < b \/ \E r \in disk[b].recs : a.lsn <= r.lsn

(* What commit has passed over in the staging buffer is in a segment.       *)
WrittenOK ==
    Live => \A s \in staging : s.start < pos =>
        \E b \in segments : \E r \in cache[b].recs : r.lsn = s.lsn /\ r.pay = s.pay

History == AckedBelow /\ AckedLsnNotReused /\ WrittenOK

-----------------------------------------------------------------------------
(* What is left when power is never lost but a killed process may be        *)
(* followed at once by the next: the page cache is all a process ever sees, *)
(* and the same invariant holds of it alone, whatever the device has.       *)

CachedFile(b) ==
    LET c == cache[b] IN
    /\ Chained(c.recs, b, HeaderSize)
    /\ c.recs # {} => c.hdr = "ok"
    /\ c.torn => \A r \in c.recs : r.lsn < MaxLsn

CachedSealed(b) ==
    /\ cache[b].hdr = "ok" /\ ~cache[b].torn
    /\ \E r \in cache[b].recs : r.lsn + 1 \in dir

CachedStore ==
    /\ \A b \in dir : CachedFile(b)
    /\ \A b, c \in dir : b < c => CachedSealed(b) /\ \A r \in cache[b].recs : r.lsn < c

CachedCreate ==
    /\ pc \in CreateSteps /\ ~IsOpen => dir = IF pc = "create" THEN {} ELSE {target}
    /\ pc \in CreateSteps \ {"create"} => cache[target].recs = {} /\ ~cache[target].torn
    /\ pc \in {"headersync", "dirsync"} => cache[target].hdr = "ok"

CachedOpen ==
    /\ pc \in {"closed", "discover", "discard", "recover", "zero"} => ~IsOpen
    /\ pc \in {"idle", "commit", "sync", "unlink"} => IsOpen
    /\ poisoned => pc = "idle"
    /\ pc \in {"discard", "recover", "zero"} => \A b \in dir : cache[b].hdr = "ok"
    /\ pc = "zero" => \A b \in dir : ~cache[b].torn

CachedDirectory ==
    Live =>
        /\ Highest(active, segments) /\ Lowest(oldest_lsn, segments)
        /\ pc \in {"idle", "commit", "sync", "create"} => dir = segments
        /\ pc \in CreateSteps \ {"create"} => dir = segments \cup {target}
        /\ pc = "unlink" =>
            /\ dir \subseteq segments /\ segments \ dir \subseteq doomed
            /\ active \notin doomed
            /\ \A b \in segments \ dir, c \in dir : b < c
            /\ \A d \in doomed, b \in segments : b < d => b \in doomed
            /\ \A d \in doomed : \A r \in cache[d].recs : r.lsn <= released

CachedTail ==
    Live =>
        /\ cache[active].hdr = "ok" /\ ~cache[active].torn
        /\ pc # "sync" => /\ RunLast(cache[active], active) = durable_lsn
                          /\ RunEnd(cache[active], active) = write_offset
        /\ pc = "sync" =>
            /\ RunEnd(cache[active], active) = write_offset + (scan - pos)
            /\ \A s \in staging : End(s) = scan => RunLast(cache[active], active) = s.lsn
            /\ \A s \in Staged(pos, scan) :
                  \E r \in cache[active].recs : r.lsn = s.lsn /\ r.pay = s.pay
        /\ pc \in CreateSteps => target = durable_lsn + 1 /\ cache[active].recs # {}

AckedCached == \A a \in acked : a.lsn > released => a \in Stored(dir, cache)

CachedHandle == CachedCreate /\ CachedOpen /\ CachedDirectory /\ CachedTail /\ StagingOK

CacheInv == CachedStore /\ AckedCached /\ NoError /\ CachedHandle
=============================================================================
