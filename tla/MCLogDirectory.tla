--------------------------- MODULE MCLogDirectory ---------------------------
(* The settings of the run of LogDirectory.                                 *)
EXTENDS LogDirectory

(* Kills only, with the log opened again at once.                           *)
Kills == [powerLoss |-> FALSE, warmReopen |-> TRUE, syncedPath |-> FALSE]

(* Power losses; the path and what the previous process did are settled.    *)
PowerLosses == [powerLoss |-> TRUE, warmReopen |-> FALSE, syncedPath |-> TRUE]

MCSettings == {Kills, PowerLosses}
=============================================================================
