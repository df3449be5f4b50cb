-------------------------- MODULE MCDirectoryFuzz --------------------------
EXTENDS DirectoryFuzz

(* Records of one unit and of two.                                          *)
MCFramed == [p \in Payloads |-> IF p = "s" THEN 1 ELSE 2]
=============================================================================
