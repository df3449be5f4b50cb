----------------------------- MODULE MCSegment -----------------------------
(* Values for the constants of Segment: records of three to five cells, one *)
(* with a payload that is all zero, and the settings of the runs.           *)
EXTENDS Segment

MCLength == [p \in Payloads |-> CASE p = "a" -> 4 [] p = "z" -> 12 [] p = "b" -> 20]
MCZeroFilled == {"z"} \cap Payloads

(* Process crashes and failing calls, with the log reopened at once.        *)
Kills ==
    [base |-> 1, powerLoss |-> FALSE, anyOrder |-> FALSE, zeroStep |-> SegmentCells,
     zeroWhole |-> TRUE, warmReopen |-> TRUE, maxCuts |-> 0]

(* Power losses on a device that persists writes in offset order.           *)
OrderedPowerLoss == [Kills EXCEPT !.powerLoss = TRUE, !.warmReopen = FALSE]

(* Power losses on a device without any order, with two LSNs left.          *)
AnyPowerLoss ==
    [OrderedPowerLoss EXCEPT !.base = 2, !.anyOrder = TRUE, !.zeroWhole = FALSE, !.zeroStep = 4]

(* The file is cut short, twice at most.                                    *)
Cuts == [Kills EXCEPT !.base = 2, !.maxCuts = 2]

PassSettings == {Kills, OrderedPowerLoss, AnyPowerLoss, Cuts}

(* Process crashes that may fall between two chunks of the zeroing.         *)
ChunkSettings == {[Kills EXCEPT !.zeroStep = 3]}
=============================================================================
