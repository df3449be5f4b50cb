---------------------------- MODULE DirFsyncCut ----------------------------
(***************************************************************************)
(* The negative control for the directory fsync of a roll: the workload     *)
(* src/bin/dirfsync_cut_workload.rs, run by scripts/m8/dm-flakey.sh once    *)
(* with the correct build and once with the one built with                  *)
(* inject_no_dir_fsync, which omits the fsync of the directory after a      *)
(* roll; the writes are dropped once the workload has signalled, and        *)
(* power_pull_verify judges both (module PowerPullVerify).                  *)
(*                                                                          *)
(* A segment is known by its base LSN.  Every commit syncs its segment      *)
(* file, so what a cut can take is names: a file whose directory entry is   *)
(* not on the disk is gone with all of its records.                         *)
(***************************************************************************)
EXTENDS PowerPullVerify

CONSTANTS
    PerSegments,    \* possible numbers of records that fit into a segment
    Existing,       \* possible last LSNs of the log the workload finds
    MaxRecords,     \* MAX_RECORDS
    Budget          \* attempts of the harness

ASSUME DirFsyncCutAssumption ==
    /\ PerSegments \subseteq Nat \ {0} /\ Existing \subseteq Nat
    /\ MaxRecords \in Nat /\ Budget \in Nat

VARIABLES
    inject,         \* is the build that omits the fsync running?
    perSegment,
    segments,       \* base LSNs of the segment files in the directory
    named,          \* those whose directory entry is on the disk
    log,            \* the last LSN of the log
    segs_before, seq, capture, pc,
    rc,             \* what the harness has got from each build
    attempt, control,
    lost            \* history: has the last cut taken an acknowledged record?

vars == <<inject, perSegment, segments, named, log, segs_before, seq, capture, pc, rc, attempt,
          control, lost>>
harness == <<inject, perSegment, rc, attempt, control>>

count_segments == Cardinality(segments)
Active == CHOOSE b \in segments : \A c \in segments : c <= b
Fits == log + 1 < Active + perSegment

-----------------------------------------------------------------------------
(* The workload.                                                            *)

(* Wal::open of an existing or a new log; its directory entries are durable *)
(* with either build.                                                       *)
Open ==
    /\ pc = "off"
    /\ \E l \in Existing :
        /\ log' = l
        /\ segments' = {b \in 1..(l + 1) : /\ (b - 1) % perSegment = 0
                                           /\ b <= l \/ l = 0}
        /\ named' = segments'
        /\ segs_before' = Cardinality(segments')
    /\ seq' = 0 /\ capture' = <<>> /\ lost' = FALSE
    /\ pc' = "loop"
    /\ UNCHANGED harness

Appending ==
    \/ pc = "loop" /\ log + 1 <= MaxRecords
    \/ pc = "extra"

Acked == IF pc = "loop" THEN "ack" ELSE "last ack"

(* append_commit of a record that fits.                                     *)
AppendCommit ==
    /\ Appending
    /\ Fits
    /\ log' = log + 1
    /\ pc' = Acked
    /\ UNCHANGED <<harness, segments, named, segs_before, seq, capture, lost>>

(* append_commit of one that does not: roll makes the new file, and its     *)
(* name durable except in the build under test.                             *)
RollUnsynced ==             \* the omission, in either build
    /\ Appending
    /\ ~Fits
    /\ log' = log + 1
    /\ segments' = segments \cup {log + 1}
    /\ pc' = Acked
    /\ UNCHANGED <<harness, named, segs_before, seq, capture, lost>>

RollCommit ==
    /\ Appending
    /\ ~Fits
    /\ log' = log + 1
    /\ segments' = segments \cup {log + 1}
    /\ named' = IF inject THEN named ELSE segments'
    /\ pc' = Acked
    /\ UNCHANGED <<harness, segs_before, seq, capture, lost>>

Captured == Append(capture, [seq |-> seq + 1, watermark |-> log])

(* record_ack, then on to the next record, to the extra one once the        *)
(* directory has grown, or to the signal after that one.                    *)
RecordAckEarlyReady ==      \* ready at the roll, with the watermark of before it
    /\ pc \in {"ack", "last ack"}
    /\ seq' = seq + 1
    /\ IF count_segments > segs_before
       THEN pc' = "ready" /\ capture' = Append(capture, [seq |-> seq + 1, watermark |-> log - 1])
       ELSE pc' = "loop" /\ capture' = Captured
    /\ UNCHANGED <<harness, segments, named, log, segs_before, lost>>

RecordAck ==
    /\ pc \in {"ack", "last ack"}
    /\ seq' = seq + 1 /\ capture' = Captured
    /\ pc' = IF pc = "last ack" THEN "ready"
             ELSE IF count_segments > segs_before THEN "extra" ELSE "loop"
    /\ UNCHANGED <<harness, segments, named, log, segs_before, lost>>

-----------------------------------------------------------------------------
(* The system and the harness.                                              *)

(* The file system writes a directory entry back of its own accord.         *)
Writeback ==
    /\ pc \in {"loop", "ack", "extra", "last ack", "ready"}
    /\ \E b \in segments \ named : named' = named \cup {b}
    /\ UNCHANGED <<harness, segments, log, segs_before, seq, capture, pc, lost>>

(* drop_writes, then the kill: what is not on the disk by now is gone, and  *)
(* the log ends before the first file that is missing.                      *)
Cut ==
    /\ pc = "ready"
    /\ segments' = named
    /\ lost' = (segments # named)
    /\ log' = IF segments = named THEN log
              ELSE (CHOOSE b \in segments \ named : \A c \in segments \ named : b <= c) - 1
    /\ pc' = "dark"
    /\ UNCHANGED <<harness, named, segs_before, seq, capture>>

(* A missing file before one that is there is Corruption at open, and the   *)
(* verifier panics.                                                         *)
Opens == \A b \in segments : b <= log + 1

Returned(v) ==
    /\ rc' = [rc EXCEPT ![inject] = v]
    /\ pc' = IF inject THEN "judge" ELSE "off"
    /\ inject' = TRUE
    /\ UNCHANGED <<perSegment, segments, named, log, segs_before, seq, capture, attempt, control,
                   lost>>

Verify ==
    /\ pc = "dark"
    /\ Returned(IF Opens THEN Verdict(capture, log, {}) ELSE "PANIC")

(* No roll within MAX_RECORDS, or no signal within ten seconds.             *)
NotReady ==
    /\ pc \in {"loop", "ack", "extra", "last ack"}
    /\ Returned("INCONCLUSIVE")

(* The harness compares the two runs of an attempt.                         *)
JudgeInjectOnly ==          \* a failing inject build is enough
    /\ pc = "judge" /\ control = "none"
    /\ control' = IF rc[TRUE] = "FAIL" THEN "PASS"
                  ELSE IF rc[FALSE] = "FAIL" THEN "FAIL"
                  ELSE IF attempt = Budget THEN "INCONCLUSIVE" ELSE "none"
    /\ attempt' = IF control' = "none" THEN attempt + 1 ELSE attempt
    /\ pc' = IF control' = "none" THEN "off" ELSE "judge"
    /\ inject' = (control' # "none")
    /\ UNCHANGED <<perSegment, segments, named, log, segs_before, seq, capture, rc, lost>>

Judge ==
    /\ pc = "judge" /\ control = "none"
    /\ control' = IF rc[FALSE] = "PASS" /\ rc[TRUE] = "FAIL" THEN "PASS"
                  ELSE IF rc[FALSE] = "FAIL" THEN "FAIL"
                  ELSE IF attempt = Budget THEN "INCONCLUSIVE" ELSE "none"
    /\ attempt' = IF control' = "none" THEN attempt + 1 ELSE attempt
    /\ pc' = IF control' = "none" THEN "off" ELSE "judge"
    /\ inject' = (control' # "none")
    /\ UNCHANGED <<perSegment, segments, named, log, segs_before, seq, capture, rc, lost>>

Init ==
    /\ inject = FALSE /\ perSegment \in PerSegments
    /\ segments = {} /\ named = {} /\ log = 0 /\ segs_before = 0
    /\ seq = 0 /\ capture = <<>> /\ pc = "off"
    /\ rc = [b \in BOOLEAN |-> "none"] /\ attempt = 1 /\ control = "none" /\ lost = FALSE

Next ==
    \/ Open \/ AppendCommit \/ RollCommit \/ RecordAck
    \/ Writeback \/ Cut \/ Verify \/ NotReady \/ Judge

Spec == Init /\ [][Next]_vars

-----------------------------------------------------------------------------
(* The correct build never loses an acknowledged record to the cut: its     *)
(* roll has made the name of the new segment durable before any commit into *)
(* it returns, so the control never reports a failure.                      *)
CorrectBuildPasses ==
    /\ pc = "dark" /\ ~inject => ~lost /\ Verdict(capture, log, {}) = "PASS"
    /\ control # "FAIL"

(* The control bites: whenever the cut has taken the new segment's name,    *)
(* an acknowledged and captured record went with it, and the verifier does  *)
(* not pass the run.                                                        *)
ControlBites ==
    pc = "judge" /\ lost => rc[TRUE] \in {"FAIL", "PANIC"}

(* The control is reported as demonstrated only when the same attempt has   *)
(* shown both: the correct build kept everything, and the other one lost an *)
(* acknowledged record.                                                     *)
DemonstratedIsReal ==
    control = "PASS" => lost /\ rc[FALSE] = "PASS"
=============================================================================
