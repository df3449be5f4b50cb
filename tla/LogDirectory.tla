---------------------------- MODULE LogDirectory ----------------------------
(***************************************************************************)
(* The directory of an open-wal log as several processes open it: creating  *)
(* the directory, the LOCK file, the discovery of segments, the discard of  *)
(* an incomplete one and the cold start (open_seeded, cold_start and        *)
(* discard_incomplete_highest in src/wal.rs).                               *)
(*                                                                          *)
(* Module Wal has one handle and a directory that exists.  Here any number  *)
(* of processes run open_seeded at the same time, each with a seed of its   *)
(* own, a killed process may keep the lock for a while, and the directory   *)
(* itself is an entry of a parent that may or may not be on the device.     *)
(* Segments do not roll: a log is one segment and the number of its         *)
(* records.                                                                 *)
(***************************************************************************)
EXTENDS Integers, FiniteSets

CONSTANTS
    Procs,          \* the processes that open the log
    Seeds,          \* the seeds they pass
    Levels,         \* components of the path that do not exist at first
    MaxRecords,     \* how many records the log takes
    Settings        \* what the environment may do

None == "none"      \* nobody holds the lock

(* A setting:                                                               *)
(*   powerLoss   may the machine lose power?                                *)
(*   warmReopen  may a log be opened while what the previous process did to *)
(*               the directory is still only in the cache?                  *)
(*   syncedPath  is the path on the device before the log is used?          *)
ASSUME LogDirectoryAssumption ==
    /\ None \notin Procs /\ Seeds \subseteq Nat \ {0} /\ Levels \in Nat /\ MaxRecords \in Nat
    /\ Settings \subseteq [powerLoss : BOOLEAN, warmReopen : BOOLEAN, syncedPath : BOOLEAN]

VARIABLES
    made, rooted,   \* components of the path that exist; that are on the device
    names, dnames,  \* base LSNs of the segment files in the directory; on the device
    hdr, dhdr,      \* those with a complete header; on the device
    count,          \* records of each segment, all of them synced
    lock,           \* the holder of the flock
    pc, seed, bases, origin,    \* each process; origin is the oldest_lsn of its handle
    acked,          \* history: the segments commits have acknowledged records in
    env             \* the setting of this behaviour

vars == <<made, rooted, names, dnames, hdr, dhdr, count, lock, pc, seed, bases, origin, acked,
          env>>
pathVars == <<made, rooted, env>>
dirVars == <<names, dnames, hdr, dhdr, count>>
procVars == <<seed, bases, origin>>

Goes(p, to) == pc' = [pc EXCEPT ![p] = to]
Highest(S) == CHOOSE b \in S : \A c \in S : c <= b
Lowest(S) == CHOOSE b \in S : \A c \in S : b <= c

-----------------------------------------------------------------------------
(* open_seeded.                                                             *)

OpenStart(p) ==
    /\ pc[p] = "closed"
    /\ \E s \in Seeds : seed' = [seed EXCEPT ![p] = s]
    /\ Goes(p, "mkdir")
    /\ UNCHANGED <<pathVars, dirVars, lock, bases, origin, acked>>

(* create_dir_all: one component at a time, whoever makes it.               *)
CreateDir(p) ==
    /\ pc[p] = "mkdir"
    /\ IF made < Levels
       THEN made' = made + 1 /\ UNCHANGED pc
       ELSE Goes(p, "lock") /\ UNCHANGED made
    /\ UNCHANGED <<rooted, env, dirVars, lock, procVars, acked>>

(* What the environment grants a process before it gets the lock.           *)
Settled ==
    /\ env.warmReopen \/ (names = dnames /\ hdr = dhdr)
    /\ env.syncedPath => rooted = Levels

(* The exclusive, non-blocking flock on LOCK: Locked if it is held.         *)
LockWaits(p) ==             \* a blocking lock
    /\ pc[p] = "lock" /\ lock = None /\ Settled
    /\ lock' = p
    /\ Goes(p, "discover")
    /\ UNCHANGED <<pathVars, dirVars, procVars, acked>>

Lock(p) ==
    /\ pc[p] = "lock" /\ (lock = None => Settled)
    /\ IF lock = None
       THEN lock' = p /\ Goes(p, "discover")
       ELSE Goes(p, "closed") /\ UNCHANGED lock
    /\ UNCHANGED <<pathVars, dirVars, procVars, acked>>

(* What a process does next with the bases S it knows of.                   *)
Plan(p, S) == Goes(p, IF S = {} THEN "create" ELSE "recover")

Discover(p) ==
    /\ pc[p] = "discover"
    /\ bases' = [bases EXCEPT ![p] = names]
    /\ IF names = {} \/ Highest(names) \in hdr
       THEN Plan(p, names)
       ELSE Goes(p, "discard")
    /\ UNCHANGED <<pathVars, dirVars, lock, seed, origin, acked>>

(* discard_incomplete_highest: no header, so no record either.              *)
Discard(p) ==
    /\ pc[p] = "discard"
    /\ names' = names \ {Highest(bases[p])}
    /\ bases' = [bases EXCEPT ![p] = @ \ {Highest(@)}]
    /\ Goes(p, "sync discard")
    /\ UNCHANGED <<pathVars, dnames, hdr, dhdr, count, lock, seed, origin, acked>>

DiscardSyncOmitted(p) ==    \* the unlink is left to writeback
    /\ pc[p] = "sync discard"
    /\ Plan(p, bases[p])
    /\ UNCHANGED <<pathVars, dirVars, lock, procVars, acked>>

DiscardSync(p) ==
    /\ pc[p] = "sync discard"
    /\ dnames' = names
    /\ Plan(p, bases[p])
    /\ UNCHANGED <<pathVars, names, hdr, dhdr, count, lock, procVars, acked>>

(* cold_start: create_new, the header, its sync, the directory fsync.       *)
Create(p) ==
    /\ pc[p] = "create"
    /\ IF seed[p] \in names
       THEN Goes(p, "failed") /\ UNCHANGED <<names, hdr, dhdr, count>>
       ELSE /\ names' = names \cup {seed[p]}
            /\ hdr' = hdr \ {seed[p]} /\ dhdr' = dhdr \ {seed[p]}
            /\ count' = [count EXCEPT ![seed[p]] = 0]
            /\ Goes(p, "header")
    /\ UNCHANGED <<pathVars, dnames, lock, procVars, acked>>

WriteHeader(p) ==
    /\ pc[p] = "header"
    /\ hdr' = hdr \cup {seed[p]}
    /\ Goes(p, "sync header")
    /\ UNCHANGED <<pathVars, names, dnames, dhdr, count, lock, procVars, acked>>

SyncHeader(p) ==
    /\ pc[p] = "sync header"
    /\ dhdr' = dhdr \cup {seed[p]}
    /\ Goes(p, "sync dir")
    /\ UNCHANGED <<pathVars, names, dnames, hdr, count, lock, procVars, acked>>

ColdStartUnsynced(p) ==     \* cold_start without fsync_dir
    /\ pc[p] = "sync dir"
    /\ origin' = [origin EXCEPT ![p] = seed[p]]
    /\ Goes(p, "open")
    /\ UNCHANGED <<pathVars, dirVars, lock, seed, bases, acked>>

ColdStart(p) ==
    /\ pc[p] = "sync dir"
    /\ dnames' = names
    /\ origin' = [origin EXCEPT ![p] = seed[p]]
    /\ Goes(p, "open")
    /\ UNCHANGED <<pathVars, names, hdr, dhdr, count, lock, seed, bases, acked>>

(* recover_all: headers, sealed segments that are not empty, continuity.    *)
Recovers(S) ==
    /\ S \subseteq hdr
    /\ \A b \in S \ {Highest(S)} :
        /\ count[b] > 0
        /\ \E c \in S : c = b + count[b]

Recover(p) ==
    /\ pc[p] = "recover"
    /\ IF Recovers(bases[p])
       THEN origin' = [origin EXCEPT ![p] = Lowest(bases[p])] /\ Goes(p, "open")
       ELSE Goes(p, "failed") /\ UNCHANGED origin
    /\ UNCHANGED <<pathVars, dirVars, lock, seed, bases, acked>>

-----------------------------------------------------------------------------
(* The handle, and the end of a process.                                    *)

(* append and commit of one record: written and synced.                     *)
Commit(p) ==
    /\ pc[p] = "open" /\ count[origin[p]] < MaxRecords
    /\ count' = [count EXCEPT ![origin[p]] = @ + 1]
    /\ acked' = acked \cup {origin[p]}
    /\ UNCHANGED <<pathVars, names, dnames, hdr, dhdr, lock, pc, procVars>>

(* The handle is dropped, or open returns its error: the lock goes with it. *)
Close(p) ==
    /\ pc[p] \in {"open", "failed"}
    /\ Goes(p, "closed")
    /\ lock' = IF lock = p THEN None ELSE lock
    /\ UNCHANGED <<pathVars, dirVars, procVars, acked>>

(* A process is killed anywhere; its lock is released a while after.        *)
Kill(p) ==
    /\ pc[p] \notin {"closed", "dead"}
    /\ Goes(p, "dead")
    /\ UNCHANGED <<pathVars, dirVars, lock, procVars, acked>>

TearDown(p) ==
    /\ pc[p] = "dead"
    /\ Goes(p, "closed")
    /\ lock' = IF lock = p THEN None ELSE lock
    /\ UNCHANGED <<pathVars, dirVars, procVars, acked>>

-----------------------------------------------------------------------------
(* The device.                                                              *)

WritebackPath ==
    /\ rooted < made
    /\ rooted' = rooted + 1
    /\ UNCHANGED <<made, env, dirVars, lock, pc, procVars, acked>>

WritebackDir ==
    /\ \E b \in Seeds :
        \/ /\ b \in names \ dnames /\ dnames' = dnames \cup {b} /\ dhdr' = dhdr
        \/ /\ b \in dnames \ names /\ dnames' = dnames \ {b} /\ dhdr' = dhdr
        \/ /\ b \in hdr \ dhdr /\ dhdr' = dhdr \cup {b} /\ dnames' = dnames
    /\ UNCHANGED <<pathVars, names, hdr, count, lock, pc, procVars, acked>>

(* Power loss: what hangs from a component that is not on the device is     *)
(* gone with it.                                                            *)
LosePower ==
    /\ env.powerLoss
    /\ made' = rooted
    /\ names' = IF rooted < Levels THEN {} ELSE dnames
    /\ dnames' = names'
    /\ hdr' = IF rooted < Levels THEN {} ELSE dhdr
    /\ dhdr' = hdr'
    /\ pc' = [p \in Procs |-> "closed"] /\ lock' = None
    /\ UNCHANGED <<rooted, env, count, procVars, acked>>

Init ==
    /\ made = 0 /\ rooted = 0
    /\ names = {} /\ dnames = {} /\ hdr = {} /\ dhdr = {}
    /\ count = [b \in Seeds |-> 0]
    /\ lock = None /\ pc = [p \in Procs |-> "closed"]
    /\ seed = [p \in Procs |-> 0] /\ bases = [p \in Procs |-> {}]
    /\ origin = [p \in Procs |-> 0]
    /\ acked = {}
    /\ env \in Settings

Opening(p) ==
    \/ CreateDir(p) \/ Lock(p) \/ Discover(p) \/ Discard(p) \/ DiscardSync(p)
    \/ Create(p) \/ WriteHeader(p) \/ SyncHeader(p) \/ ColdStart(p) \/ Recover(p)

Next ==
    \/ \E p \in Procs : \/ OpenStart(p) \/ Opening(p) \/ Commit(p)
                        \/ Close(p) \/ Kill(p) \/ TearDown(p)
    \/ WritebackPath \/ WritebackDir \/ LosePower

Spec == Init /\ [][Next]_vars

(* A process that is in open gets to run.                                   *)
FairSpec == Spec /\ \A p \in Procs : WF_vars(Opening(p))

-----------------------------------------------------------------------------
(* Open never fails, whatever other processes do at the same time and       *)
(* wherever earlier ones died: no create_new meets a file another process   *)
(* or an undone unlink has left, no half-made segment is taken for a sealed *)
(* one.                                                                     *)
OpenNeverFails == \A p \in Procs : pc[p] # "failed"

(* The log has one origin: once a record was acknowledged, every handle has *)
(* the base LSN of that log, whatever seed it was opened with, and no power *)
(* loss starts a new log in its place.                                      *)
OneOrigin == \A p \in Procs : pc[p] = "open" => acked \subseteq {origin[p]}

(* Open returns: a lock that another process holds, or a dead one has not   *)
(* yet released, is an error and not a wait.  (Where the environment makes  *)
(* a process wait for writeback, that wait is not the code's.)              *)
OpenReturns ==
    env.warmReopen =>
        \A p \in Procs : pc[p] = "mkdir" ~> pc[p] \in {"open", "failed", "closed", "dead"}
=============================================================================
