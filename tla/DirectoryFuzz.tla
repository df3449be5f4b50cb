--------------------------- MODULE DirectoryFuzz ---------------------------
(***************************************************************************)
(* The directory-level fuzz target of open-wal (fuzz_targets/recovery.rs):  *)
(* a directory of segment files nobody wrote, with any bases, headers that  *)
(* are missing, cut short, damaged or of another segment, and records in    *)
(* any order, is opened and replayed.  TLC takes every directory within the *)
(* bounds where the fuzzer samples.  The second open is the one of the      *)
(* other target (fuzz_targets/structure.rs).                                *)
(*                                                                          *)
(* Recovery is Wal's and the replay WalReader's; here they run on states    *)
(* the writer never leaves behind.  Files with other names are not seen by  *)
(* open and are left out.                                                   *)
(***************************************************************************)
EXTENDS WalReader, FiniteSets

CONSTANTS
    MaxFiles,       \* files of a directory at most
    MaxSlots,       \* records and damaged records of a directory at most
    Bad             \* a slot whose record has been damaged

ASSUME FuzzAssumption == MaxFiles \in Nat /\ MaxSlots \in Nat /\ Bad \notin Ack

VARIABLES
    stage,          \* "start", "open", "read" or "done"
    attempt,        \* the open that is next or running
    opens           \* what each open has returned

fuzzVars == <<vars, readerVars, stage, attempt, opens>>

NotYet == [err |-> "none", oldest |-> 0, durable |-> 0, torn |-> FALSE, records |-> {}]

-----------------------------------------------------------------------------
(* Directories.                                                             *)

Slots == {Bad} \cup {a \in Ack : SizeAllowed(a.pay)}

(* The headers: none, one of fewer than 64 bytes, an invalid one, or the    *)
(* one the file name calls for.                                             *)
Headed == {"empty", "short", "invalid", "ok"}

(* body_bytes: the slots one after the other, then perhaps garbage.  Bytes  *)
(* that are no record where the run of base b ends make the file torn; a    *)
(* record over the end of the segment is such bytes too.                    *)
SizeOf(s) == IF s = Bad THEN 1 ELSE Framed[s.pay]

body_bytes(b, body) ==
    LET n == Cardinality(DOMAIN body.run)
        start[i \in 1..(n + 1)] ==
            IF i = 1 THEN HeaderSize ELSE start[i - 1] + SizeOf(body.run[i - 1])
        Whole(i) == body.run[i] # Bad /\ start[i + 1] <= SegmentSize
        recs == {[lsn |-> body.run[i].lsn, pay |-> body.run[i].pay, start |-> start[i]] :
                    i \in {j \in 1..n : Whole(j)}}
        f == [hdr |-> body.hdr, recs |-> recs, torn |-> FALSE]
        end == RunEnd(f, b)
    IN  [f EXCEPT !.torn = /\ end < SegmentSize
                           /\ body.garbage \/ end < start[n + 1]
                           /\ ~\E r \in recs : r.start = end]

(* The slots of the directory, one file after the other: home says in which *)
(* file each lies.  Of a file without a valid header only the first slot is *)
(* looked at; no header has the base 0.                                     *)
Mine(home, b) == {i \in DOMAIN home : home[i] = b}

Layout(B, home, hdr) ==
    /\ \A i, j \in DOMAIN home : i < j => home[i] <= home[j]
    /\ \A b \in B :
        /\ hdr[b] = "ok" => b > 0
        /\ hdr[b] # "ok" =>
              Cardinality(Mine(home, b)) <= (IF hdr[b] = "invalid" THEN 1 ELSE 0)

BodyOf(run, home, hdr, garbage, b) ==
    LET before == Cardinality({i \in DOMAIN home : home[i] < b})
    IN  [hdr |-> hdr[b],
         run |-> [k \in 1..Cardinality(Mine(home, b)) |-> run[before + k]],
         garbage |-> b \in garbage]

FuzzInit ==
    /\ \E B \in {S \in SUBSET (0..MaxLsn) : Cardinality(S) <= MaxFiles} :
       \E n \in 0..MaxSlots : \E home \in [1..n -> B], hdr \in [B -> Headed] :
        /\ Layout(B, home, hdr)
        /\ dir = B
        /\ \E run \in [1..n -> Slots], garbage \in SUBSET {b \in B : hdr[b] = "ok"} :
              cache = [b \in 0..MaxLsn |->
                        IF b \in B THEN body_bytes(b, BodyOf(run, home, hdr, garbage, b))
                        ELSE NewFile]
    /\ ddir = dir /\ disk = cache
    /\ pc = "closed" /\ target = 0 /\ doomed = {}
    /\ segments = {} /\ active = 0 /\ write_offset = 0 /\ oldest_lsn = 0
    /\ last_lsn = 0 /\ durable_lsn = 0
    /\ staging = {} /\ staging_len = 0 /\ pos = 0 /\ scan = 0
    /\ poisoned = FALSE /\ err = "none"
    /\ acked = {} /\ released = 0 /\ faults = 0 /\ rotten = {}
    /\ reader = "none" /\ from = 0 /\ file = 0 /\ offset = 0 /\ expected_lsn = 0
    /\ yielded = {}
    /\ stage = "start" /\ attempt = 1 /\ opens = [n \in 1..2 |-> NotYet]

-----------------------------------------------------------------------------
(* The harness.                                                             *)

(* discard_incomplete_highest refuses a file that ends within its header.   *)
Short == \E a \in dir : Highest(a, dir) /\ cache[a].hdr = "short"

RejectShort ==
    /\ pc = "discover" /\ Short
    /\ pc' = "closed" /\ err' = "BadSegmentHeader"
    /\ NoHandle
    /\ UNCHANGED <<fsVars, ghostVars>>

Opening ==
    \/ RejectShort
    \/ ~Short /\ DiscardHighest
    \/ DiscoverEmpty \/ KeepHighest \/ RejectHighest \/ DiscardSync
    \/ RecoverFatal \/ RecoverClean \/ RecoverTorn \/ ZeroSync
    \/ CreateNew \/ Allocate \/ WriteHeader \/ SyncHeader \/ ColdStarted

FuzzStart ==
    /\ stage = "start"
    /\ \E seed \in Seeds : OpenStart(seed)
    /\ stage' = "open"
    /\ UNCHANGED <<readerVars, attempt, opens>>

(* open returns; the harness goes on only with a handle.                    *)
FuzzOpen ==
    /\ stage = "open"
    /\ Opening
    /\ IF pc' \in {"idle", "closed"}
       THEN /\ opens' = [opens EXCEPT ![attempt] =
                    [err |-> err', oldest |-> oldest_lsn', durable |-> durable_lsn',
                     torn |-> pc = "zero", records |-> Stored(dir', cache')]]
            /\ stage' = IF pc' = "idle" THEN "read" ELSE "done"
       ELSE UNCHANGED <<stage, opens>>
    /\ UNCHANGED <<readerVars, attempt>>

(* reader_from(0), and next until it has nothing more to give.              *)
FuzzRead ==
    /\ stage = "read"
    /\ ReaderFrom(0) \/ ReaderStep
    /\ UNCHANGED <<stage, attempt, opens>>

FuzzDrop ==
    /\ stage = "read" /\ reader = "end"
    /\ Reset("none") /\ Kill
    /\ stage' = IF attempt = 1 THEN "start" ELSE "done"
    /\ attempt' = 2
    /\ UNCHANGED opens

FuzzNext == FuzzStart \/ FuzzOpen \/ FuzzRead \/ FuzzDrop

FuzzSpec == FuzzInit /\ [][FuzzNext]_fuzzVars

-----------------------------------------------------------------------------
(* Recovery and the reader agree on any directory: what open accepts is     *)
(* replayed from oldest_lsn to durable_lsn with nothing missing (D2), and   *)
(* no valid record is left in the files that the replay did not show.       *)
ReplayIsReport ==
    stage = "read" /\ reader = "end" =>
        /\ Lsn(yielded) = oldest_lsn..durable_lsn
        /\ yielded = Contents(UNION {cache[b].recs : b \in dir})

(* A second open of what the first one accepted, and perhaps discarded from *)
(* or zeroed, returns the same log with a clean tail (D7, D10).             *)
ReopenAgrees ==
    opens[2] # NotYet => opens[2] = [opens[1] EXCEPT !.torn = FALSE]
=============================================================================
