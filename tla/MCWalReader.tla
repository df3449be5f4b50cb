---------------------------- MODULE MCWalReader ----------------------------
EXTENDS WalReader

(* A small record, one that often forces a roll, and one over the limit.    *)
MCFramed == [p \in Payloads |-> CASE p = "s" -> 1 [] p = "l" -> 2 [] OTHER -> 4]
=============================================================================
