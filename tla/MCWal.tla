------------------------------- MODULE MCWal -------------------------------
(* Small instances of Wal for TLC: two payload sizes, so that a batch may   *)
(* fit a segment exactly, fit it in part, or not at all.                    *)
EXTENDS Wal

MCFramed ==
    [p \in Payloads |-> CASE p = "s" -> 1 [] p = "l" -> 2 [] p = "xl" -> 4]
=============================================================================
