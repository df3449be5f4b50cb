--------------------------- MODULE MCSegmentFuzz ---------------------------
(* Values for the constants of SegmentFuzz.                                 *)
EXTENDS SegmentFuzz

MCPayloads == {"a", "b", "z"}
MCLength == [p \in MCPayloads |-> CASE p = "a" -> 4 [] p = "b" -> 20 [] p = "z" -> 12]
MCZeroFilled == {"z"}

(* A process that opens the segment and is not disturbed.                   *)
MCSettings ==
    {[base |-> 5, powerLoss |-> FALSE, anyOrder |-> FALSE, zeroStep |-> 4, zeroWhole |-> TRUE,
      warmReopen |-> TRUE, maxCuts |-> 0]}
=============================================================================
