-------------------------- MODULE PowerPullVerify --------------------------
(***************************************************************************)
(* The verdict of the power-pull verifier of open-wal                       *)
(* (src/bin/power_pull_verify.rs): from the captured lines seq,watermark of *)
(* the side channel and the recovered log to PASS, FAIL or INCONCLUSIVE.    *)
(*                                                                          *)
(* A line is what parses: lines that do not are skipped and do not appear.  *)
(* The recovered log is dense (module Wal), so it is known by its last LSN  *)
(* and the set of LSNs whose payload is not the one that was written.       *)
(***************************************************************************)
EXTENDS Integers, Sequences, FiniteSets

(* by_seq: the captured lines by sequence number; a later line replaces an  *)
(* earlier one with its number.                                             *)
BySeq(capture) ==
    LET At(s) == {i \in DOMAIN capture : capture[i].seq = s}
        Latest(s) == CHOOSE i \in At(s) : \A j \in At(s) : j <= i
    IN  [s \in {capture[i].seq : i \in DOMAIN capture} |-> capture[Latest(s)].watermark]

Gap(lines) == DOMAIN lines # 1..Cardinality(DOMAIN lines)

(* The watermark of the highest sequence number, once there is no gap.      *)
HighWater(lines) == lines[Cardinality(DOMAIN lines)]

Verdict(capture, log, wrong) ==
    LET lines == BySeq(capture)
        high == HighWater(lines)
    IN  IF capture = <<>> \/ Gap(lines) THEN "INCONCLUSIVE"
        ELSE IF log < high \/ \E l \in wrong : l <= high THEN "FAIL"
        ELSE "PASS"
=============================================================================
