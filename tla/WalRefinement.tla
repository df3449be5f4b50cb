--------------------------- MODULE WalRefinement ----------------------------
(* Wal implements DurableLog.  The abstract log is what the segment files   *)
(* hold, in the directory as it is or as the device still has it, and what  *)
(* a live handle has buffered.                                              *)
EXTENDS WalInvariant

Log == Stored(dir \cup ddir, cache) \cup (IF Live THEN Contents(staging) ELSE {})

Abstract == INSTANCE DurableLog WITH
    Payload <- Payloads, Lsn <- Lsns,
    log <- Log, stable <- acked, allowed <- released, up <- Live

(* D1-D3, D6, D8, D9: every step of the writer, of recovery and of a crash  *)
(* is a step of the abstract log: nothing appears but by append, nothing    *)
(* reported durable goes but by a checkpoint that covers it.                *)
ImplementsDurableLog == Abstract!Spec
=============================================================================
