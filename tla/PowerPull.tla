----------------------------- MODULE PowerPull -----------------------------
(***************************************************************************)
(* The power-pull test of open-wal: the workload                            *)
(* (src/bin/power_pull_workload.rs) mirrors every watermark a commit has    *)
(* acknowledged to a side channel, the power is cut, and the verifier says  *)
(* from the captured lines whether acknowledged records were lost.          *)
(*                                                                          *)
(* What is under test, the log and its device, may misbehave here: the      *)
(* question is whether the verdict is right about it.  So the log is only   *)
(* its last LSN, and a cut may take records, acknowledged ones too, or      *)
(* bring back wrong payloads.                                               *)
(***************************************************************************)
EXTENDS PowerPullVerify

CONSTANTS
    Batch,          \* records per commit, at least 1
    Total,          \* the workload's total
    Cycles,         \* how many times the power is cut
    LossyWire,      \* may the side channel drop a line?
    TornLines       \* may the cut leave part of a line in the capture?

VARIABLES
    log,            \* the last LSN in the log
    wrong,          \* LSNs whose payload came back wrong
    pc, since_commit, seq,  \* the workload
    wire,           \* lines on their way to the capture file
    capture,        \* the capture file
    cycle, verdict,
    acked,          \* history: the highest watermark a commit on this log returned
    heard, told,    \* history: number and watermark of the last complete line
                    \* of this cycle in the capture, 0 before the first
    torn,           \* history: was a piece of a line ever captured, and does the
                    \* capture end in one?
    stale           \* history: was the log reset under lines already captured?

workload == <<pc, since_commit, seq>>
outcome == <<cycle, verdict>>
ghosts == <<acked, heard, told, torn, stale>>
vars == <<log, wrong, workload, wire, capture, outcome, ghosts>>

Line(s, w) == [seq |-> s, watermark |-> w]

MaxOf(a, b) == IF a > b THEN a ELSE b

-----------------------------------------------------------------------------
(* The workload.                                                            *)

(* It opens the log, and numbers its lines from 1 again.                    *)
Start ==
    /\ pc = "off"
    /\ pc' = "run" /\ since_commit' = 0 /\ seq' = 0
    /\ UNCHANGED <<log, wrong, wire, capture, outcome, ghosts>>

AppendRecord ==
    /\ pc = "run" /\ since_commit < Batch /\ log < Total
    /\ log' = log + 1
    /\ since_commit' = since_commit + 1
    /\ UNCHANGED <<wrong, pc, seq, wire, capture, outcome, ghosts>>

(* commit of a full batch, or of the remainder once the total is reached.   *)
Last == since_commit < Batch /\ log >= Total

Commit ==
    /\ pc = "run"
    /\ since_commit = Batch \/ Last
    /\ acked' = MaxOf(acked, log)
    /\ pc' = IF Last THEN "final" ELSE "record"
    /\ UNCHANGED <<log, wrong, since_commit, seq, wire, capture, outcome, heard, told, torn,
                   stale>>

(* A failed commit: nothing is recorded and the workload exits.  A commit   *)
(* of nothing does no I/O and does not fail.                                *)
CommitFails ==
    /\ pc = "run" /\ since_commit > 0
    /\ since_commit = Batch \/ Last
    /\ pc' = "exited"
    /\ UNCHANGED <<log, wrong, since_commit, seq, wire, capture, outcome, ghosts>>

(* Sink::record, strictly after the commit has returned its watermark, the  *)
(* last LSN.                                                                *)
Record ==
    /\ pc \in {"record", "final"}
    /\ pc = "final" => log >= 1
    /\ seq' = seq + 1
    /\ wire' = Append(wire, Line(seq', log))
    /\ since_commit' = 0
    /\ pc' = IF pc = "final" THEN "exited" ELSE "run"
    /\ UNCHANGED <<log, wrong, capture, outcome, ghosts>>

(* The sink fails: the workload panics, or ignores it for the last line.    *)
RecordFails ==
    /\ pc \in {"record", "final"}
    /\ pc' = "exited"
    /\ UNCHANGED <<log, wrong, since_commit, seq, wire, capture, outcome, ghosts>>

-----------------------------------------------------------------------------
(* The side channel, the cut, the verifier.                                 *)

Deliver ==
    /\ wire # <<>> /\ torn # "last"
    /\ capture' = Append(capture, Head(wire))
    /\ heard' = Head(wire).seq /\ told' = Head(wire).watermark
    /\ wire' = Tail(wire)
    /\ UNCHANGED <<log, wrong, workload, outcome, acked, torn, stale>>

(* A line runs on into the piece an earlier cut has left: neither parses.   *)
RunOn ==
    /\ wire # <<>> /\ torn = "last"
    /\ capture' = SubSeq(capture, 1, Len(capture) - 1)
    /\ torn' = "before"
    /\ wire' = Tail(wire)
    /\ UNCHANGED <<log, wrong, workload, outcome, acked, heard, told, stale>>

Drop ==
    /\ LossyWire
    /\ wire # <<>>
    /\ wire' = Tail(wire)
    /\ UNCHANGED <<log, wrong, workload, capture, outcome, ghosts>>

(* The first digits of a watermark: what a line cut short still parses to.  *)
(* (A piece without a watermark does not parse and leaves nothing here.)    *)
Shortened(w) == {w \div 10, w \div 100} \ {0}

(* The power is cut: the lines on the wire are gone, except for the part of *)
(* one that got through; the log is whatever the device has kept of it.     *)
Cut ==
    /\ pc \notin {"off", "dark"}
    /\ log' \in 0..log
    /\ \E bad \in {{}} \cup {{l} : l \in 1..log'} : wrong' = (wrong \cap 1..log') \cup bad
    /\ wire' = <<>>
    /\ \/ UNCHANGED <<capture, torn>>
       \/ /\ TornLines /\ wire # <<>> /\ torn # "last"
          /\ \E w \in Shortened(Head(wire).watermark) :
                capture' = Append(capture, Line(Head(wire).seq, w))
          /\ torn' = "last"
    /\ pc' = "dark"
    /\ UNCHANGED <<since_commit, seq, outcome, acked, heard, told, stale>>

Verify ==
    /\ pc = "dark" /\ verdict = "none"
    /\ verdict' = Verdict(capture, log, wrong)
    /\ UNCHANGED <<log, wrong, workload, wire, capture, cycle, ghosts>>

(* The next cycle, on the log as it is or after the WAL directory is reset. *)
(* The receiver runs on and the capture grows.  A loss that was reported    *)
(* ends the test.                                                           *)
NextCycle ==
    /\ verdict \in {"PASS", "INCONCLUSIVE"} /\ cycle < Cycles
    /\ cycle' = cycle + 1
    /\ verdict' = "none" /\ pc' = "off" /\ since_commit' = 0 /\ seq' = 0
    /\ \/ UNCHANGED <<log, wrong, acked, stale>>
       \/ log' = 0 /\ wrong' = {} /\ acked' = 0 /\ stale' = (stale \/ capture # <<>>)
    /\ heard' = 0 /\ told' = 0
    /\ UNCHANGED <<wire, capture, torn>>

Init ==
    /\ log = 0 /\ wrong = {} /\ pc = "off" /\ since_commit = 0 /\ seq = 0
    /\ wire = <<>> /\ capture = <<>> /\ cycle = 1 /\ verdict = "none"
    /\ acked = 0 /\ heard = 0 /\ told = 0 /\ torn = "never" /\ stale = FALSE

Next ==
    \/ Start \/ AppendRecord \/ Commit \/ CommitFails
    \/ Record \/ RecordFails
    \/ Deliver \/ RunOn \/ Drop \/ Cut \/ Verify \/ NextCycle

Spec == Init /\ [][Next]_vars

-----------------------------------------------------------------------------
(* Properties                                                               *)

(* Every record up to the last watermark this cycle has told is there, with *)
(* the payload it had.                                                      *)
ToldIsKept == told <= log /\ \A l \in wrong : l > told

(* "PASS = every acked LSN survived": PASS is said only of a log that holds *)
(* what the lines of the cycle told.  It does not hold of the procedure:    *)
(* an earlier cycle that came further has left a higher number in the       *)
(* capture, and by_seq takes that line's watermark for the bar.             *)
NoVacuousPass == verdict = "PASS" => ToldIsKept

(* It does hold of a cycle whose lines reach the highest number in the      *)
(* capture, the first cycle among them, as long as no cut has left a piece  *)
(* of a line (a shortened one that parses lowers the bar): a lost line      *)
(* never does.                                                              *)
Outlasts == \A i \in DOMAIN capture : capture[i].seq <= heard

NoVacuousPassAlone == verdict = "PASS" /\ torn = "never" /\ Outlasts => ToldIsKept

(* FAIL is only said of a log that lost an acknowledged record, or returned *)
(* a wrong payload for one, in whatever cycle, as long as the log was never *)
(* reset under lines already captured: the side channel never runs ahead of *)
(* the commits.                                                             *)
NoFalseAlarm ==
    verdict = "FAIL" /\ ~stale => log < acked \/ \E l \in wrong : l <= acked
=============================================================================
