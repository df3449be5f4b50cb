----------------------------- MODULE DurableLog -----------------------------
(***************************************************************************)
(* What a write-ahead log promises, with no files in it: a set of numbered  *)
(* records that grows only by appends at its end, loses records only in a   *)
(* crash and only above what was reported durable, and gives up old records *)
(* only as far as its owner allowed.                                        *)
(***************************************************************************)
EXTENDS Integers

CONSTANTS Payload, Lsn

VARIABLES
    log,        \* the records that exist, durable or not
    stable,     \* the records that were reported durable
    allowed,    \* the owner may lose records up to this LSN
    up          \* is there a writer?

vars == <<log, stable, allowed, up>>

Entry == [lsn : Lsn, pay : Payload]

Init == log = {} /\ stable = {} /\ allowed = 0 /\ up = FALSE

LsnsOf(S) == {r.lsn : r \in S}

(* The next record: right behind the newest one, and never with an LSN that *)
(* was reported durable before.                                             *)
Append(r) ==
    /\ up
    /\ \A s \in log \cup stable : s.lsn < r.lsn
    /\ log # {} => r.lsn - 1 \in LsnsOf(log)
    /\ log' = log \cup {r}
    /\ UNCHANGED <<stable, allowed, up>>

(* Everything up to w is reported durable.                                  *)
Report(w) ==
    /\ up
    /\ stable' = stable \cup {r \in log : r.lsn <= w}
    /\ UNCHANGED <<log, allowed, up>>

Allow(l) ==
    /\ up /\ l > allowed /\ allowed' = l
    /\ UNCHANGED <<log, stable, up>>

(* Old records may go, once they are allowed to.                            *)
Kept(lo, hi) == {r \in log : lo <= r.lsn /\ r.lsn <= hi}

Trim(lo) ==
    /\ up
    /\ \A r \in log : r.lsn < lo => r.lsn <= allowed
    /\ log' = {r \in log : lo <= r.lsn}
    /\ UNCHANGED <<stable, allowed, up>>

(* A crash takes the writer, perhaps a tail that was never reported, and    *)
(* perhaps old records that were allowed to go.                             *)
Crash(lo, hi) ==
    /\ up' = FALSE
    /\ log' = Kept(lo, hi)
    /\ \A r \in log \ log' : r.lsn <= allowed \/ r \notin stable
    /\ \A r \in log : r.lsn < lo => r.lsn <= allowed
    /\ UNCHANGED <<stable, allowed>>

(* A new writer takes over the log exactly as the crash left it.            *)
Recover == ~up /\ up' = TRUE /\ UNCHANGED <<log, stable, allowed>>

Next == \/ \E r \in Entry : Append(r)
        \/ \E w \in Lsn \cup {0} : Report(w) \/ Allow(w) \/ Trim(w)
        \/ \E lo, hi \in Lsn \cup {0} : Crash(lo, hi)
        \/ Recover

Spec == Init /\ [][Next]_vars
=============================================================================
