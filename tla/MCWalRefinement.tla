--------------------------- MODULE MCWalRefinement --------------------------
(* The small instance of MCWal, for the refinement.                         *)
EXTENDS WalRefinement

MCFramed ==
    [p \in Payloads |-> CASE p = "s" -> 1 [] p = "l" -> 2 [] p = "xl" -> 4]
=============================================================================
