------------------------- MODULE LogDirectoryProofs -------------------------
(***************************************************************************)
(* The directory of a log for any number of processes, seeds and levels of  *)
(* the path: open never fails, there is one handle at a time, and an        *)
(* acknowledged log is never replaced by a new one.  What the device has to *)
(* do is Contract; the rest is the lock and the order of the syncs.         *)
(***************************************************************************)
EXTENDS LogDirectory, TLAPS

(* Where power may fail, the path is on the device before the log is used,  *)
(* and a log is opened only when what its last user did to the directory    *)
(* has settled.  Kills alone need neither.                                  *)
Contract == \A s \in Settings : s.powerLoss => ~s.warmReopen /\ s.syncedPath

Creating == {"header", "sync header", "sync dir"}
Inside == {"discover", "discard", "sync discard", "create", "recover", "open"} \cup Creating

DirType ==
    /\ names \in SUBSET Seeds /\ dnames \in SUBSET Seeds /\ hdr \in SUBSET Seeds
    /\ dhdr \in SUBSET Seeds /\ acked \in SUBSET Seeds
    /\ made \in 0..Levels /\ rooted \in 0..made
    /\ lock \in Procs \cup {None}
    /\ pc \in [Procs -> Inside \cup {"closed", "mkdir", "lock", "dead", "failed"}]
    /\ seed \in [Procs -> Seeds \cup {0}] /\ bases \in [Procs -> SUBSET Seeds]
    /\ origin \in [Procs -> Seeds \cup {0}]
    /\ env \in Settings

(* Whoever is at work in the directory holds the lock.                      *)
Exclusive == \A p \in Procs : pc[p] \in Inside => lock = p

(* There is one segment at most, the device's view included.                *)
OneSegment ==
    /\ \A a, c \in names : a = c
    /\ env.powerLoss => \A a, c \in names \cup dnames : a = c

(* An acknowledged segment has its name and its header, on the device too   *)
(* where power may fail, and so has the path.                               *)
Kept ==
    /\ acked \subseteq names \cap hdr
    /\ env.powerLoss => acked \subseteq dnames \cap dhdr
    /\ env.powerLoss /\ (lock # None \/ acked # {}) => rooted = Levels

(* Nothing is left to writeback.                                            *)
Clean == env.powerLoss => names = dnames /\ hdr = dhdr

(* What each step of open can count on.                                     *)
Progress(p) ==
    /\ pc[p] # "failed"
    /\ pc[p] # "closed" => seed[p] \in Seeds
    /\ pc[p] \in {"discover", "discard", "recover"} => Clean
    /\ pc[p] \in {"discard", "recover"} => bases[p] = names /\ names # {}
    /\ pc[p] = "discard" => names \cap hdr = {}
    /\ pc[p] = "recover" => names \subseteq hdr
    /\ pc[p] = "sync discard" => bases[p] = {}
    /\ pc[p] \in {"sync discard", "create"} => names = {}
    /\ pc[p] = "create" => (env.powerLoss => dnames = {})
    /\ pc[p] \in Creating => names = {seed[p]} /\ acked = {}
    /\ pc[p] \in {"sync header", "sync dir"} => seed[p] \in hdr
    /\ pc[p] = "sync dir" => seed[p] \in dhdr
    /\ pc[p] = "open" => /\ names = {origin[p]} /\ names \subseteq hdr
                         /\ env.powerLoss => names = dnames /\ names \subseteq dhdr

DirInv ==
    /\ DirType /\ Exclusive /\ OneSegment /\ Kept
    /\ \A p \in Procs : Progress(p)

(* The highest and the lowest of one number are that number.                *)
LEMMA OnlyOne ==
    ASSUME NEW S \in SUBSET Seeds, S # {}, \A a, c \in S : a = c
    PROVE  Highest(S) \in S /\ S = {Highest(S)} /\ Lowest(S) = Highest(S)
<1>1. PICK b \in S : S = {b}
  OBVIOUS
<1>2. b \in Nat
  BY LogDirectoryAssumption
<1>3. Highest(S) = b
  BY <1>1, <1>2 DEF Highest
<1>4. Lowest(S) = b
  BY <1>1, <1>2 DEF Lowest
<1> QED BY <1>1, <1>3, <1>4

LEMMA DirInit == Init => DirInv
BY LogDirectoryAssumption
DEF Init, DirInv, DirType, Exclusive, OneSegment, Kept, Progress, Inside, Creating

(* Where power may fail, what the contract says of it.                      *)
LEMMA Granted ==
    ASSUME Contract, DirInv, Settled
    PROVE  Clean /\ (env.powerLoss => rooted = Levels)
BY DEF Contract, DirInv, DirType, Settled, Clean

-----------------------------------------------------------------------------
(* Every step of a process, and of the device, keeps the invariant.         *)

(* A process that does not move counts on what it did, if the files stay.   *)
LEMMA Unmoved ==
    ASSUME DirInv, NEW q \in Procs, pc'[q] = pc[q], seed'[q] = seed[q],
           UNCHANGED <<dirVars, bases, origin, acked, env>>
    PROVE  Progress(q)'
BY DEF DirInv, Progress, Clean, dirVars

(* Steps that leave the files and what is acknowledged alone.               *)
LEMMA FilesStay ==
    ASSUME DirInv, UNCHANGED <<dirVars, acked, env>>, rooted' = rooted,
           lock' = lock \/ lock' = None
    PROVE  OneSegment' /\ Kept'
BY DEF DirInv, OneSegment, Kept, dirVars

(* Steps that touch neither the files nor the lock.                         *)
LEMMA StandsBy ==
    ASSUME DirInv, NEW p \in Procs, OpenStart(p) \/ CreateDir(p) \/ Kill(p)
    PROVE  DirInv'
<1>1. DirType'
  <2>1. made' \in 0..Levels /\ rooted' \in 0..made'
    BY LogDirectoryAssumption DEF DirInv, DirType, OpenStart, CreateDir, Kill, pathVars
  <2>2. /\ names' \in SUBSET Seeds /\ dnames' \in SUBSET Seeds /\ hdr' \in SUBSET Seeds
        /\ dhdr' \in SUBSET Seeds /\ acked' \in SUBSET Seeds /\ lock' \in Procs \cup {None}
        /\ bases' \in [Procs -> SUBSET Seeds] /\ origin' \in [Procs -> Seeds \cup {0}]
        /\ env' \in Settings /\ seed' \in [Procs -> Seeds \cup {0}]
    BY DEF DirInv, DirType, OpenStart, CreateDir, Kill, pathVars, dirVars, procVars
  <2>3. pc' \in [Procs -> Inside \cup {"closed", "mkdir", "lock", "dead", "failed"}]
    BY DEF DirInv, DirType, OpenStart, CreateDir, Kill, Goes
  <2> QED BY <2>1, <2>2, <2>3 DEF DirType
<1>2. OneSegment' /\ Kept'
  BY FilesStay DEF OpenStart, CreateDir, Kill, pathVars
<1>3. /\ pc' = [pc EXCEPT ![p] = pc'[p]] /\ pc'[p] \in {"mkdir", "lock", "dead"}
      /\ lock' = lock
  BY DEF DirInv, DirType, OpenStart, CreateDir, Kill, Goes
<1>4. Exclusive'
  BY <1>3 DEF DirInv, DirType, Exclusive, Inside, Creating
<1>5. ASSUME NEW q \in Procs PROVE Progress(q)'
  <2>1. CASE q = p
    <3>1. seed'[p] \in Seeds
      BY DEF DirInv, DirType, Progress, OpenStart, CreateDir, Kill, procVars
    <3> QED BY <1>3, <2>1, <3>1 DEF Progress, Creating
  <2>2. CASE q # p
    <3>1. pc'[q] = pc[q] /\ seed'[q] = seed[q]
      BY <1>3, <2>2 DEF DirInv, DirType, OpenStart, CreateDir, Kill, procVars
    <3> QED BY <3>1, Unmoved DEF OpenStart, CreateDir, Kill, pathVars, procVars
  <2> QED BY <2>1, <2>2
<1> QED BY <1>1, <1>2, <1>4, <1>5 DEF DirInv

(* The lock is taken or refused.                                            *)
LEMMA LockKeeps ==
    ASSUME Contract, DirInv, NEW p \in Procs, Lock(p)
    PROVE  DirInv'
<1>1. DirType'
  BY DEF DirInv, DirType, Lock, Goes, Inside, Creating, pathVars, dirVars, procVars
<1>2. lock = None => Clean /\ (env.powerLoss => rooted = Levels)
  BY Granted DEF Lock
<1>3. OneSegment' /\ Kept'
  BY <1>2 DEF DirInv, OneSegment, Kept, Lock, pathVars, dirVars
<1>4. \/ lock = None /\ lock' = p /\ pc' = [pc EXCEPT ![p] = "discover"]
      \/ lock # None /\ lock' = lock /\ pc' = [pc EXCEPT ![p] = "closed"]
  BY DEF Lock, Goes
<1>5. Exclusive'
  <2> SUFFICES ASSUME NEW q \in Procs, pc'[q] \in Inside PROVE lock' = q
    BY DEF Exclusive
  <2>1. q # p => pc[q] \in Inside /\ lock = q /\ lock # None
    BY <1>4, LogDirectoryAssumption DEF DirInv, DirType, Exclusive
  <2>2. "closed" \notin Inside
    BY DEF Inside, Creating
  <2> QED BY <1>4, <2>1, <2>2 DEF DirInv, DirType
<1>6. ASSUME NEW q \in Procs PROVE Progress(q)'
  <2>1. CASE q = p
    <3>1. seed'[p] \in Seeds
      BY DEF DirInv, DirType, Progress, Lock, procVars
    <3>2. pc'[p] = "discover" => Clean'
      BY <1>2, <1>4 DEF DirInv, DirType, Clean, Lock, pathVars, dirVars
    <3>3. pc'[p] \in {"discover", "closed"}
      BY <1>4 DEF DirInv, DirType
    <3> QED BY <2>1, <3>1, <3>2, <3>3 DEF Progress, Creating
  <2>2. CASE q # p
    <3>1. pc'[q] = pc[q] /\ seed'[q] = seed[q]
      BY <1>4, <2>2 DEF DirInv, DirType, Lock, procVars
    <3> QED BY <3>1, Unmoved DEF Lock, pathVars, procVars
  <2> QED BY <2>1, <2>2
<1> QED BY <1>1, <1>3, <1>5, <1>6 DEF DirInv

(* The lock is let go.                                                      *)
LEMMA Leaves ==
    ASSUME DirInv, NEW p \in Procs, Close(p) \/ TearDown(p)
    PROVE  DirInv'
<1>1. /\ DirType'
      /\ pc' = [pc EXCEPT ![p] = "closed"] /\ lock' = IF lock = p THEN None ELSE lock
  BY DEF DirInv, DirType, Close, TearDown, Goes, Inside, Creating, pathVars, dirVars, procVars
<1>2. OneSegment' /\ Kept'
  BY <1>1, FilesStay DEF Close, TearDown, pathVars
<1>3. Exclusive'
  BY <1>1 DEF DirInv, DirType, Exclusive, Inside, Creating
<1>4. ASSUME NEW q \in Procs PROVE Progress(q)'
  <2>1. CASE q = p
    BY <1>1, <2>1 DEF DirInv, DirType, Progress, Creating
  <2>2. CASE q # p
    <3>1. pc'[q] = pc[q] /\ seed'[q] = seed[q]
      BY <1>1, <2>2 DEF DirInv, DirType, Close, TearDown, procVars
    <3> QED BY <3>1, Unmoved DEF Close, TearDown, pathVars, procVars
  <2> QED BY <2>1, <2>2
<1> QED BY <1>1, <1>2, <1>3, <1>4 DEF DirInv

(* A step inside the directory is taken by the holder of the lock: every    *)
(* other process stands outside, and what it counts on is its seed alone.   *)
LEMMA OthersOutside ==
    ASSUME DirInv, NEW p \in Procs, pc[p] \in Inside, NEW q \in Procs \ {p}
    PROVE  /\ pc[q] \notin Inside /\ lock = p /\ lock # None
           /\ pc'[q] = pc[q] /\ seed'[q] = seed[q] => Progress(q)'
<1>1. pc[q] \notin Inside /\ lock = p /\ lock # None
  BY LogDirectoryAssumption DEF DirInv, Exclusive
<1>2. ASSUME pc'[q] = pc[q], seed'[q] = seed[q] PROVE Progress(q)'
  BY <1>1, <1>2 DEF DirInv, Progress, Inside, Creating
<1> QED BY <1>1, <1>2

(* So it is enough to look at the files and at the process that moves.      *)
LEMMA InsideStep ==
    ASSUME DirInv, NEW p \in Procs, pc[p] \in Inside, lock' = lock, seed' = seed,
           NEW to, pc' = [pc EXCEPT ![p] = to],
           DirType', OneSegment', Kept', Progress(p)'
    PROVE  DirInv'
<1>1. \A q \in Procs \ {p} : pc'[q] = pc[q] /\ seed'[q] = seed[q]
  BY DEF DirInv, DirType
<1>2. \A q \in Procs : Progress(q)'
  BY <1>1, OthersOutside
<1>3. Exclusive'
  BY <1>1, OthersOutside DEF DirInv, Exclusive
<1> QED BY <1>2, <1>3 DEF DirInv

LEMMA DiscoverKeeps ==
    ASSUME DirInv, NEW p \in Procs, Discover(p)
    PROVE  DirInv'
<1>0. pc[p] \in Inside
  BY DEF Discover, Inside, Creating
<1>1. PICK to \in {"create", "recover", "discard"} :
        /\ pc' = [pc EXCEPT ![p] = to]
        /\ to = "create" => names = {}
        /\ to # "create" => names # {}
        /\ to = "recover" => Highest(names) \in hdr
        /\ to = "discard" => Highest(names) \notin hdr
  BY DEF Discover, Plan, Goes
<1>2. DirType' /\ pc'[p] = to /\ bases'[p] = names
  BY <1>1 DEF DirInv, DirType, Discover, Inside, Creating, pathVars, dirVars
<1>3. OneSegment' /\ Kept'
  BY FilesStay DEF Discover, pathVars
<1>4. names # {} => names = {Highest(names)}
  BY OnlyOne DEF DirInv, DirType, OneSegment
<1>5. UNCHANGED <<names, dnames, hdr, dhdr, env, seed>> /\ Clean /\ seed[p] \in Seeds
  BY DEF Discover, DirInv, Progress, pathVars, dirVars
<1>6. Clean'
  BY <1>5 DEF Clean
<1>7. (to = "discard" => names \cap hdr = {}) /\ (to = "recover" => names \subseteq hdr)
  BY <1>1, <1>4
<1>8. to = "create" /\ env.powerLoss => dnames = {}
  BY <1>1, <1>5 DEF Clean
<1>9. Progress(p)'
  BY <1>1, <1>2, <1>5, <1>6, <1>7, <1>8 DEF Progress, Creating
<1> QED BY <1>0, <1>1, <1>2, <1>3, <1>9, InsideStep DEF Discover

LEMMA DiscardKeeps ==
    ASSUME DirInv, NEW p \in Procs, Discard(p)
    PROVE  DirInv'
<1>0. pc[p] \in Inside /\ pc' = [pc EXCEPT ![p] = "sync discard"] /\ lock' = lock /\ seed' = seed
  BY DEF Discard, Goes, Inside, Creating
<1>1. /\ bases[p] = names /\ names # {} /\ names \cap hdr = {} /\ seed[p] \in Seeds
      /\ acked = {}
  BY DEF Discard, DirInv, Progress, Kept
<1>2. names = {Highest(names)}
  BY <1>1, OnlyOne DEF DirInv, DirType, OneSegment
<1>3. names' = {} /\ bases'[p] = {}
  BY <1>1, <1>2 DEF Discard, DirInv, DirType
<1>4. DirType' /\ pc'[p] = "sync discard"
  BY <1>0, <1>3 DEF DirInv, DirType, Discard, Inside, Creating, pathVars
<1>5. OneSegment' /\ Kept'
  BY <1>1, <1>3, <1>0 DEF DirInv, OneSegment, Kept, Discard, pathVars
<1>6. Progress(p)'
  BY <1>0, <1>1, <1>3, <1>4 DEF Progress, Creating
<1> QED BY <1>0, <1>4, <1>5, <1>6, InsideStep

LEMMA DiscardSyncKeeps ==
    ASSUME DirInv, NEW p \in Procs, DiscardSync(p)
    PROVE  DirInv'
<1>1. bases[p] = {} /\ names = {} /\ seed[p] \in Seeds /\ acked = {}
  BY DEF DiscardSync, DirInv, Progress, Kept
<1>2. /\ pc[p] \in Inside /\ pc' = [pc EXCEPT ![p] = "create"]
      /\ dnames' = names /\ UNCHANGED <<names, lock, seed, acked, env, rooted>>
  BY <1>1 DEF DiscardSync, Plan, Goes, Inside, Creating, pathVars, procVars
<1>3. DirType' /\ pc'[p] = "create"
  BY <1>1, <1>2 DEF DirInv, DirType, DiscardSync, Inside, Creating, pathVars, procVars
<1>4. OneSegment' /\ Kept'
  BY <1>1, <1>2 DEF DirInv, OneSegment, Kept
<1>5. Progress(p)'
  BY <1>1, <1>2, <1>3 DEF Progress, Creating
<1> QED BY <1>2, <1>3, <1>4, <1>5, InsideStep

(* create_new finds no file: the holder of the lock saw an empty directory. *)
LEMMA CreateKeeps ==
    ASSUME DirInv, NEW p \in Procs, Create(p)
    PROVE  DirInv'
<1>1. names = {} /\ (env.powerLoss => dnames = {}) /\ seed[p] \in Seeds /\ acked = {}
  BY DEF Create, DirInv, Progress, Kept
<1>2. /\ pc[p] \in Inside /\ pc' = [pc EXCEPT ![p] = "header"]
      /\ names' = {seed[p]} /\ UNCHANGED <<dnames, lock, seed, acked, env, rooted>>
  BY <1>1 DEF Create, Goes, Inside, Creating, pathVars, procVars
<1>3. DirType' /\ pc'[p] = "header"
  BY <1>1, <1>2 DEF DirInv, DirType, Create, Inside, Creating, pathVars, procVars
<1>4. OneSegment' /\ Kept'
  BY <1>1, <1>2 DEF DirInv, OneSegment, Kept
<1>5. Progress(p)'
  BY <1>1, <1>2, <1>3 DEF Progress, Creating
<1> QED BY <1>2, <1>3, <1>4, <1>5, InsideStep

LEMMA HeaderKeeps ==
    ASSUME DirInv, NEW p \in Procs, WriteHeader(p) \/ SyncHeader(p)
    PROVE  DirInv'
<1>1. names = {seed[p]} /\ acked = {} /\ seed[p] \in Seeds
  BY DEF WriteHeader, SyncHeader, DirInv, Progress, Creating
<1>2. /\ pc[p] \in Inside
      /\ UNCHANGED <<names, dnames, lock, seed, acked, env, rooted>>
  BY DEF WriteHeader, SyncHeader, Inside, Creating, pathVars, procVars
<1>3. \/ pc' = [pc EXCEPT ![p] = "sync header"] /\ hdr' = hdr \cup {seed[p]}
      \/ /\ pc' = [pc EXCEPT ![p] = "sync dir"] /\ hdr' = hdr /\ seed[p] \in hdr
         /\ dhdr' = dhdr \cup {seed[p]}
  BY DEF WriteHeader, SyncHeader, Goes, DirInv, Progress
<1>4. DirType' /\ pc'[p] \in {"sync header", "sync dir"}
  BY <1>1, <1>2, <1>3
  DEF DirInv, DirType, WriteHeader, SyncHeader, Inside, Creating, pathVars, procVars
<1>5. OneSegment' /\ Kept'
  BY <1>1, <1>2 DEF DirInv, OneSegment, Kept
<1>6. seed'[p] \in hdr' /\ (pc'[p] = "sync dir" => seed'[p] \in dhdr')
  BY <1>2, <1>3 DEF DirInv, DirType
<1>7. Progress(p)'
  BY <1>1, <1>2, <1>4, <1>6 DEF Progress, Creating
<1> QED BY <1>2, <1>3, <1>4, <1>5, <1>7, InsideStep

LEMMA ColdStartKeeps ==
    ASSUME DirInv, NEW p \in Procs, ColdStart(p)
    PROVE  DirInv'
<1>1. names = {seed[p]} /\ acked = {} /\ seed[p] \in Seeds /\ seed[p] \in hdr /\ seed[p] \in dhdr
  BY DEF ColdStart, DirInv, Progress, Creating
<1>2. /\ pc[p] \in Inside /\ pc' = [pc EXCEPT ![p] = "open"]
      /\ dnames' = names /\ origin' = [origin EXCEPT ![p] = seed[p]]
      /\ UNCHANGED <<names, hdr, dhdr, lock, seed, acked, env, rooted>>
  BY DEF ColdStart, Goes, Inside, Creating, pathVars
<1>3. DirType' /\ pc'[p] = "open" /\ origin'[p] = seed[p]
  BY <1>1, <1>2 DEF DirInv, DirType, ColdStart, Inside, Creating, pathVars
<1>4. OneSegment' /\ Kept'
  BY <1>1, <1>2 DEF DirInv, OneSegment, Kept
<1>5. Progress(p)'
  BY <1>1, <1>2, <1>3 DEF Progress, Creating
<1> QED BY <1>2, <1>3, <1>4, <1>5, InsideStep

(* The one segment recovers: it has a header, and no other to be sealed by. *)
LEMMA RecoverKeeps ==
    ASSUME DirInv, NEW p \in Procs, Recover(p)
    PROVE  DirInv'
<1>1. /\ bases[p] = names /\ names # {} /\ names \subseteq hdr /\ Clean /\ seed[p] \in Seeds
      /\ names \in SUBSET Seeds
  BY DEF Recover, DirInv, DirType, Progress
<1>2. names = {Highest(names)} /\ Lowest(names) = Highest(names) /\ Highest(names) \in names
  BY <1>1, OnlyOne DEF DirInv, OneSegment
<1>3. Recovers(bases[p])
  BY <1>1, <1>2 DEF Recovers
<1>4. /\ pc[p] \in Inside /\ pc' = [pc EXCEPT ![p] = "open"]
      /\ origin' = [origin EXCEPT ![p] = Lowest(names)]
      /\ UNCHANGED <<names, dnames, hdr, dhdr, lock, seed, acked, env, rooted>>
  BY <1>1, <1>3 DEF Recover, Goes, Inside, Creating, pathVars, dirVars
<1>5. DirType' /\ pc'[p] = "open" /\ origin'[p] = Lowest(names)
  BY <1>1, <1>2, <1>4 DEF DirInv, DirType, Recover, Inside, Creating, pathVars, dirVars
<1>6. OneSegment' /\ Kept'
  BY <1>4 DEF DirInv, OneSegment, Kept
<1>7. names = {origin'[p]} /\ (env.powerLoss => names = dnames /\ names \subseteq dhdr)
  BY <1>1, <1>2, <1>5 DEF Clean
<1>8. Progress(p)'
  BY <1>1, <1>4, <1>5, <1>7 DEF Progress, Creating
<1> QED BY <1>4, <1>5, <1>6, <1>8, InsideStep

LEMMA CommitKeeps ==
    ASSUME DirInv, NEW p \in Procs, Commit(p)
    PROVE  DirInv'
<1>1. /\ names = {origin[p]} /\ names \subseteq hdr /\ seed[p] \in Seeds /\ pc[p] \in Inside
      /\ env.powerLoss => names = dnames /\ names \subseteq dhdr
      /\ lock # None
  BY LogDirectoryAssumption DEF Commit, DirInv, Progress, Exclusive, Inside
<1>2. /\ UNCHANGED <<names, dnames, hdr, dhdr, lock, seed, origin, env, rooted, made, bases, pc>>
      /\ acked' = acked \cup {origin[p]}
  BY DEF Commit, pathVars, procVars
<1>3. pc' = [pc EXCEPT ![p] = "open"]
  BY <1>2 DEF Commit, DirInv, DirType
<1>4. DirType'
  BY <1>1, <1>2 DEF DirInv, DirType
<1>5. OneSegment' /\ Kept'
  BY <1>1, <1>2 DEF DirInv, OneSegment, Kept
<1>6. pc'[p] = "open"
  BY <1>2 DEF Commit
<1>7. Progress(p)'
  BY <1>1, <1>2, <1>6 DEF Progress, Creating
<1> QED BY <1>1, <1>2, <1>3, <1>4, <1>5, <1>7, InsideStep

(* Writeback brings the device closer to what the processes see; it never   *)
(* undoes an unlink or takes away what is acknowledged.                     *)
LEMMA WritebackKeeps ==
    ASSUME DirInv, WritebackPath \/ WritebackDir
    PROVE  DirInv'
<1>1. CASE WritebackPath
  <2>1. DirType'
    BY <1>1, LogDirectoryAssumption DEF DirInv, DirType, WritebackPath, dirVars, procVars
  <2>2. OneSegment' /\ Exclusive'
    BY <1>1 DEF DirInv, OneSegment, Exclusive, WritebackPath, dirVars
  <2>3. Kept'
    BY <1>1, LogDirectoryAssumption DEF DirInv, DirType, Kept, WritebackPath, dirVars
  <2>4. \A q \in Procs : Progress(q)'
    BY <1>1, Unmoved DEF WritebackPath, procVars
  <2> QED BY <2>1, <2>2, <2>3, <2>4 DEF DirInv
<1>2. CASE WritebackDir
  <2>0. /\ UNCHANGED <<names, hdr, lock, pc, seed, bases, origin, acked, env, made, rooted>>
        /\ dnames' \subseteq names \cup dnames /\ dnames \cap names \subseteq dnames'
        /\ dhdr \subseteq dhdr' /\ dhdr' \subseteq hdr \cup dhdr
    BY <1>2 DEF WritebackDir, pathVars, procVars
  <2>1. DirType' /\ Exclusive'
    BY <2>0 DEF DirInv, DirType, Exclusive
  <2>2. OneSegment' /\ Kept'
    BY <2>0 DEF DirInv, OneSegment, Kept
  <2>3. \A q \in Procs : Progress(q)'
    <3> TAKE q \in Procs
    <3>1. Clean => Clean'
      BY <2>0 DEF Clean
    <3>2. names = {} /\ dnames = {} => dnames' = {}
      BY <2>0
    <3>3. names = dnames => dnames' = names
      BY <2>0
    <3> QED BY <2>0, <3>1, <3>2, <3>3 DEF DirInv, Progress
  <2> QED BY <2>1, <2>2, <2>3 DEF DirInv
<1> QED BY <1>1, <1>2

(* A power loss leaves what is on the device, and an acknowledged log is.   *)
LEMMA PowerLossKeeps ==
    ASSUME DirInv, LosePower
    PROVE  DirInv'
<1>1. /\ pc' = [p \in Procs |-> "closed"] /\ lock' = None /\ env.powerLoss
      /\ UNCHANGED <<rooted, env, seed, bases, origin, acked>> /\ made' = rooted
      /\ names' \subseteq dnames /\ dnames' = names' /\ hdr' \subseteq dhdr /\ dhdr' = hdr'
  BY DEF LosePower, procVars
<1>2. DirType'
  BY <1>1, LogDirectoryAssumption DEF DirInv, DirType
<1>3. Exclusive' /\ \A p \in Procs : Progress(p)'
  BY <1>1 DEF Exclusive, Progress, Inside, Creating
<1>4. OneSegment'
  BY <1>1 DEF DirInv, OneSegment
<1>5. acked \subseteq names' \cap hdr' /\ (acked # {} => rooted = Levels)
  <2>1. acked \subseteq dnames \cap dhdr /\ (acked # {} => rooted = Levels)
    BY <1>1 DEF DirInv, Kept
  <2>2. CASE acked = {}
    BY <2>2
  <2>3. CASE acked # {}
    <3>1. rooted = Levels /\ ~(rooted < Levels)
      BY <2>1, <2>3, LogDirectoryAssumption
    <3> QED BY <2>1, <3>1 DEF LosePower
  <2> QED BY <2>2, <2>3
<1>6. Kept'
  BY <1>1, <1>5 DEF Kept
<1> QED BY <1>2, <1>3, <1>4, <1>6 DEF DirInv

-----------------------------------------------------------------------------
LEMMA DirNext == Contract /\ DirInv /\ [Next]_vars => DirInv'
<1> SUFFICES ASSUME Contract, DirInv, [Next]_vars PROVE DirInv'
  OBVIOUS
<1>1. ASSUME NEW p \in Procs, OpenStart(p) \/ Opening(p) \/ Commit(p) \/ Close(p) \/ Kill(p)
                              \/ TearDown(p)
      PROVE  DirInv'
  BY <1>1, StandsBy, LockKeeps, Leaves, DiscoverKeeps, DiscardKeeps, DiscardSyncKeeps, CreateKeeps,
     HeaderKeeps, ColdStartKeeps, RecoverKeeps, CommitKeeps DEF Opening
<1>2. CASE UNCHANGED vars
  <2>1. DirType' /\ Exclusive' /\ OneSegment' /\ Kept'
    BY <1>2 DEF vars, DirInv, DirType, Exclusive, OneSegment, Kept
  <2>2. \A q \in Procs : Progress(q)'
    BY <1>2, Unmoved DEF vars, dirVars
  <2> QED BY <2>1, <2>2 DEF DirInv
<1> QED BY <1>1, <1>2, WritebackKeeps, PowerLossKeeps DEF Next

(* The inductive invariant of the lock, the directory and cold start, for   *)
(* any number of processes that open, are killed and lose power anywhere.   *)
THEOREM DirectoryCorrect == Contract => (Spec => []DirInv)
<1> SUFFICES ASSUME Contract PROVE Spec => []DirInv
  OBVIOUS
<1>1. DirInv /\ [Next]_vars => DirInv'
  BY DirNext
<1> QED BY <1>1, DirInit, PTL DEF Spec

(* No open fails: create_new never meets a file that another process or an  *)
(* undone unlink has left, and recovery never meets a half-made segment.    *)
THEOREM OpensAreServed == Contract => (Spec => []OpenNeverFails)
<1>1. DirInv => OpenNeverFails
  BY DEF DirInv, Progress, OpenNeverFails
<1> QED BY <1>1, DirectoryCorrect, PTL

(* The log keeps its origin: once a record was acknowledged, every handle   *)
(* of every process, with whatever seed, is a handle of that log.           *)
THEOREM LogKeepsItsOrigin == Contract => (Spec => []OneOrigin)
<1>1. DirInv => OneOrigin
  BY DEF DirInv, Kept, Progress, OneOrigin
<1> QED BY <1>1, DirectoryCorrect, PTL
=============================================================================
