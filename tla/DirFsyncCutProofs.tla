-------------------------- MODULE DirFsyncCutProofs -------------------------
(***************************************************************************)
(* The negative control for the directory fsync of a roll proves what it    *)
(* claims to, for every segment size, existing log, MAX_RECORDS and budget  *)
(* of attempts.                                                             *)
(***************************************************************************)
EXTENDS DirFsyncCut, SequenceTheorems, FiniteSetTheorems, WellFoundedInduction, TLAPS

Lines == [seq : Nat \ {0}, watermark : Nat]

-----------------------------------------------------------------------------
(* The capture of this workload has no gap: record_ack writes line n under  *)
(* number n, so the verdict is on the watermark of the last line.           *)
Numbered(s) == \A i \in 1..Len(s) : s[i].seq = i

LEMMA VerdictOnLast ==
    ASSUME NEW s \in Seq(Lines), s # <<>>, Numbered(s), NEW l
    PROVE  Verdict(s, l, {}) = IF l < s[Len(s)].watermark THEN "FAIL" ELSE "PASS"
<1> DEFINE n == Len(s)
           D == {s[i].seq : i \in DOMAIN s}
<1>1. n \in Nat \ {0} /\ DOMAIN s = 1..n /\ n \in 1..n
  <2>1. Len(s) \in Nat \ {0} /\ DOMAIN s = 1..Len(s)
    BY EmptySeq, LenProperties
  <2> QED BY <2>1
<1>2. D = 1..n
  BY <1>1 DEF Numbered
<1>3. DOMAIN BySeq(s) = D
  BY DEF BySeq
<1> HIDE DEF D
<1>4. Cardinality(1..n) = n
  <2> HIDE DEF n
  <2>1. n \in Int /\ 1 \in Int /\ ~(1 > n) /\ n - 1 + 1 = n
    BY <1>1
  <2> QED BY <2>1, FS_Interval
<1>5. ~Gap(BySeq(s))
  BY <1>2, <1>3, <1>4 DEF Gap
<1> DEFINE At == {i \in DOMAIN s : s[i].seq = n}
<1>6. At = {n}
  BY <1>1 DEF Numbered
<1>7. (CHOOSE i \in At : \A j \in At : j <= i) = n
  <2> HIDE DEF At, n
  <2> QED BY <1>1, <1>6
<1>8. BySeq(s)[n] = s[CHOOSE i \in At : \A j \in At : j <= i].watermark
  BY <1>1, <1>2 DEF BySeq, D
<1>9. HighWater(BySeq(s)) = s[n].watermark
  BY <1>2, <1>3, <1>4, <1>7, <1>8 DEF HighWater
<1> QED BY <1>5, <1>9 DEF Verdict

LEMMA LeastExists ==
    ASSUME NEW S \in SUBSET Nat, S # {}
    PROVE  (CHOOSE b \in S : \A c \in S : b <= c) \in S
<1> DEFINE R == {ss \in Nat \X Nat : ss[1] < ss[2]}
<1>1. IsWellFoundedOn(R, Nat)
  BY NatLessThanWellFounded DEF OpToRel
<1>2. PICK m \in S : \A y \in S : ~(<<y, m>> \in R)
  <2> HIDE DEF R
  <2> QED BY <1>1, WFMin
<1>3. ASSUME NEW c \in S PROVE m <= c
  <2>1. c \in Nat /\ m \in Nat /\ ~(c < m)
    BY <1>2
  <2> QED BY <2>1
<1> QED BY <1>3

-----------------------------------------------------------------------------
(* The invariant.                                                           *)

Running == {"loop", "ack", "extra", "last ack", "ready"}

CutTyped ==
    /\ inject \in BOOLEAN /\ segments \in SUBSET (Nat \ {0}) /\ named \in SUBSET segments
    /\ log \in Nat /\ seq \in Nat /\ capture \in Seq(Lines) /\ Len(capture) = seq
    /\ Numbered(capture) /\ lost \in BOOLEAN
    /\ pc \in Running \cup {"off", "dark", "judge"}
    /\ DOMAIN rc = BOOLEAN /\ control \in {"none", "PASS", "FAIL", "INCONCLUSIVE"}

(* Only the build under test has files without a durable name, and each of  *)
(* them holds a record already.                                             *)
Names ==
    pc \in Running =>
        /\ ~lost
        /\ ~inject => named = segments
        /\ \A b \in segments \ named : b <= log

(* What was acknowledged last is in the capture when the writes are         *)
(* dropped, so the log falls behind the capture exactly when a name is lost.*)
LastLine ==
    /\ pc \in {"extra", "ready", "dark"} => capture # <<>>
    /\ pc \in {"extra", "ready"} => capture[seq].watermark = log
    /\ pc = "dark" =>
         /\ ~inject => ~lost
         /\ log < capture[seq].watermark <=> lost

Results ==
    /\ rc[FALSE] # "FAIL" /\ control # "FAIL"
    /\ control # "none" => pc = "judge"
    /\ pc = "judge" => /\ lost => rc[TRUE] \in {"FAIL", "PANIC"}
                       /\ rc[TRUE] = "FAIL" => lost
    /\ control = "PASS" => lost /\ rc[FALSE] = "PASS"

CutInv == CutTyped /\ Names /\ LastLine /\ Results

-----------------------------------------------------------------------------
(* Every step keeps the invariant.                                          *)

LEMMA CutStart == Init => CutInv
<1> SUFFICES ASSUME Init PROVE CutInv
  OBVIOUS
<1>1. <<>> \in Seq(Lines) /\ Len(<<>>) = 0 /\ 1..0 = {}
  BY EmptySeq
<1>2. CutTyped
  <2>1. capture = <<>> /\ seq = 0
    BY DEF Init
  <2>2. Numbered(capture) /\ capture \in Seq(Lines) /\ Len(capture) = seq
    BY <1>1, <2>1 DEF Numbered
  <2>3. rc = [b \in BOOLEAN |-> "none"] /\ inject = FALSE /\ lost = FALSE /\ segments = {}
        /\ named = {} /\ log = 0 /\ pc = "off" /\ control = "none"
    BY DEF Init
  <2>4. DOMAIN rc = BOOLEAN /\ inject \in BOOLEAN /\ lost \in BOOLEAN
    BY <2>3
  <2> QED BY <2>1, <2>2, <2>3, <2>4 DEF CutTyped
<1>3. Names /\ LastLine
  <2>1. pc = "off"
    BY DEF Init
  <2> QED BY <2>1 DEF Names, LastLine, Running
<1>4. Results
  <2>1. rc[FALSE] = "none" /\ control = "none" /\ pc = "off"
    BY DEF Init
  <2> QED BY <2>1 DEF Results
<1> QED BY <1>2, <1>3, <1>4 DEF CutInv

LEMMA CutOpen ==
    ASSUME CutInv, Open PROVE CutInv'
<1>1. /\ pc = "off" /\ pc' = "loop" /\ seq' = 0 /\ capture' = <<>> /\ lost' = FALSE
      /\ inject' = inject /\ rc' = rc /\ control' = control /\ named' = segments'
  BY DEF Open, harness
<1>2. PICK l \in Existing :
         log' = l /\ segments' = {b \in 1..(l + 1) : /\ (b - 1) % perSegment = 0
                                                     /\ b <= l \/ l = 0}
  BY DEF Open
<1>3. l \in Nat
  BY DirFsyncCutAssumption
<1>4. segments' \in SUBSET (Nat \ {0}) /\ log' \in Nat
  BY <1>2, <1>3
<1>5. <<>> \in Seq(Lines) /\ Len(<<>>) = 0 /\ 1..0 = {}
  BY EmptySeq
<1>6. Numbered(<<>>)
  BY <1>5 DEF Numbered
<1>7. CutTyped'
  BY <1>1, <1>4, <1>5, <1>6 DEF CutInv, CutTyped, Running
<1>8. Names' /\ LastLine'
  BY <1>1 DEF Names, LastLine, Running
<1>9. Results'
  BY <1>1 DEF CutInv, Results
<1> QED BY <1>7, <1>8, <1>9 DEF CutInv

(* append_commit, into the active segment or into a new one.                *)
LEMMA CutAppend ==
    ASSUME CutInv, AppendCommit \/ RollCommit PROVE CutInv'
<1>1. /\ pc \in {"loop", "extra"} /\ pc' \in {"ack", "last ack"} /\ log' = log + 1
      /\ inject' = inject /\ rc' = rc /\ control' = control /\ seq' = seq /\ capture' = capture
      /\ lost' = lost
      /\ \/ segments' = segments /\ named' = named
         \/ segments' = segments \cup {log + 1} /\ named' = (IF inject THEN named ELSE segments')
  BY DEF AppendCommit, RollCommit, Appending, Acked, harness
<1>2. /\ log \in Nat /\ segments \in SUBSET (Nat \ {0}) /\ named \in SUBSET segments /\ ~lost
      /\ (~inject => named = segments) /\ \A b \in segments \ named : b <= log
  BY <1>1 DEF CutInv, CutTyped, Names, Running
<1>3. segments' \in SUBSET (Nat \ {0}) /\ named' \in SUBSET segments' /\ log' \in Nat
  <2>1. log + 1 \in Nat \ {0}
    BY <1>2
  <2>2. CASE segments' = segments /\ named' = named
    BY <1>1, <1>2, <2>1, <2>2
  <2>3. CASE segments' = segments \cup {log + 1} /\ named' \in {named, segments'}
    BY <1>1, <1>2, <2>1, <2>3
  <2> QED BY <1>1, <2>2, <2>3
<1>4. (~inject => named' = segments')
  BY <1>1, <1>2
<1>5. ASSUME NEW b \in segments' \ named' PROVE b <= log'
  <2>0. log' = log + 1 /\ log \in Nat
    BY <1>1, <1>2
  <2>1. b \in segments \ named \/ b = log + 1
    BY <1>1
  <2>2. CASE b \in segments /\ b \notin named
    <3>1. b \in Nat /\ b <= log
      BY <1>2, <2>2
    <3> QED BY <2>0, <3>1
  <2>3. CASE b = log + 1
    BY <2>0, <2>3
  <2> QED BY <2>1, <2>2, <2>3
<1>6. CutTyped'
  BY <1>1, <1>3 DEF CutInv, CutTyped, Running
<1>7. Names'
  BY <1>1, <1>2, <1>4, <1>5 DEF Names
<1>8. LastLine'
  BY <1>1 DEF LastLine
<1>9. Results'
  BY <1>1 DEF CutInv, Results
<1> QED BY <1>6, <1>7, <1>8, <1>9 DEF CutInv

LEMMA CutRecordAck ==
    ASSUME CutInv, RecordAck PROVE CutInv'
<1> DEFINE x == [seq |-> seq + 1, watermark |-> log]
<1>1. /\ pc \in {"ack", "last ack"} /\ pc' \in {"ready", "extra", "loop"} /\ seq' = seq + 1
      /\ capture' = Append(capture, x)
      /\ inject' = inject /\ rc' = rc /\ control' = control /\ segments' = segments
      /\ named' = named /\ log' = log /\ lost' = lost
  BY DEF RecordAck, Captured, harness
<1>2. log \in Nat /\ seq \in Nat /\ capture \in Seq(Lines) /\ Len(capture) = seq /\ Numbered(capture)
  BY DEF CutInv, CutTyped
<1>3. x \in Lines /\ x.seq = seq + 1 /\ x.watermark = log
  BY <1>2 DEF Lines
<1> HIDE DEF x
<1>4. /\ capture' \in Seq(Lines) /\ Len(capture') = seq + 1 /\ capture'[seq + 1] = x
      /\ \A i \in 1..seq : capture'[i] = capture[i]
  <2>1. /\ Append(capture, x) \in Seq(Lines) /\ Len(Append(capture, x)) = Len(capture) + 1
        /\ \A i \in 1..Len(capture) : Append(capture, x)[i] = capture[i]
        /\ Append(capture, x)[Len(capture) + 1] = x
    BY <1>2, <1>3, AppendProperties
  <2> QED BY <1>1, <1>2, <2>1
<1>5. capture' # <<>>
  BY <1>2, <1>4, EmptySeq
<1>6. Numbered(capture')
  <2> SUFFICES ASSUME NEW i \in 1..Len(capture') PROVE capture'[i].seq = i
    BY DEF Numbered
  <2>1. i \in 1..seq \/ i = seq + 1
    BY <1>2, <1>4
  <2>2. CASE i \in 1..seq
    BY <1>2, <1>4, <2>2 DEF Numbered
  <2>3. CASE i = seq + 1
    BY <1>3, <1>4, <2>3
  <2> QED BY <2>1, <2>2, <2>3
<1>7. CutTyped'
  <2>1. seq' \in Nat /\ Len(capture') = seq' /\ pc' \in Running
    <3>1. seq' = seq + 1 /\ seq \in Nat /\ Len(capture') = seq + 1
      BY <1>1, <1>2, <1>4
    <3>2. pc' \in Running
      BY <1>1 DEF Running
    <3> QED BY <3>1, <3>2
  <2>2. pc' \in Running \cup {"off", "dark", "judge"} /\ capture' \in Seq(Lines) /\ Numbered(capture')
    BY <1>4, <1>6, <2>1
  <2>3. /\ inject' \in BOOLEAN /\ segments' \in SUBSET (Nat \ {0}) /\ named' \in SUBSET segments'
        /\ log' \in Nat /\ lost' \in BOOLEAN /\ DOMAIN rc' = BOOLEAN
        /\ control' \in {"none", "PASS", "FAIL", "INCONCLUSIVE"}
    BY <1>1 DEF CutInv, CutTyped
  <2> QED BY <2>1, <2>2, <2>3 DEF CutTyped
<1>8. Names'
  BY <1>1 DEF CutInv, Names, Running
<1>9. LastLine'
  BY <1>1, <1>3, <1>4, <1>5 DEF LastLine
<1>10. Results'
  BY <1>1 DEF CutInv, Results
<1> QED BY <1>7, <1>8, <1>9, <1>10 DEF CutInv

LEMMA CutWriteback ==
    ASSUME CutInv, Writeback PROVE CutInv'
<1>1. /\ pc \in Running /\ pc' = pc /\ segments' = segments /\ log' = log /\ seq' = seq
      /\ capture' = capture /\ lost' = lost /\ inject' = inject /\ rc' = rc /\ control' = control
  BY DEF Writeback, Running, harness
<1>2. PICK b \in segments \ named : named' = named \cup {b}
  BY DEF Writeback
<1>3. inject
  BY <1>1, <1>2 DEF CutInv, Names
<1>4. CutTyped'
  BY <1>1, <1>2 DEF CutInv, CutTyped
<1>5. Names'
  BY <1>1, <1>2, <1>3 DEF CutInv, Names
<1>6. LastLine' /\ Results'
  BY <1>1 DEF CutInv, LastLine, Results
<1> QED BY <1>4, <1>5, <1>6 DEF CutInv

(* drop_writes: the log ends before the first name that is missing, and     *)
(* that file held an acknowledged record.                                   *)
LEMMA CutCut ==
    ASSUME CutInv, Cut PROVE CutInv'
<1> DEFINE gone == segments \ named
           first == CHOOSE b \in gone : \A c \in gone : b <= c
<1>1. /\ pc = "ready" /\ pc' = "dark" /\ segments' = named /\ named' = named
      /\ lost' = (segments # named) /\ log' = IF segments = named THEN log ELSE first - 1
      /\ inject' = inject /\ rc' = rc /\ control' = control /\ seq' = seq /\ capture' = capture
  BY DEF Cut, harness
<1>2. /\ log \in Nat /\ segments \in SUBSET (Nat \ {0}) /\ named \in SUBSET segments
      /\ (~inject => named = segments) /\ \A b \in gone : b <= log
      /\ capture # <<>> /\ capture[seq].watermark = log
  BY <1>1 DEF CutInv, CutTyped, Names, LastLine, Running
<1>3. segments # named => first \in Nat \ {0} /\ first <= log
  <2> SUFFICES ASSUME segments # named PROVE first \in gone
    BY <1>2
  <2>1. gone # {} /\ gone \in SUBSET Nat
    BY <1>2
  <2> HIDE DEF gone
  <2> QED BY <2>1, LeastExists
<1> HIDE DEF first, gone
<1>4. log' \in Nat /\ (log' < capture[seq].watermark <=> segments # named)
  BY <1>1, <1>2, <1>3
<1>5. CutTyped'
  BY <1>1, <1>2, <1>4 DEF CutInv, CutTyped
<1>6. Names'
  BY <1>1 DEF Names, Running
<1>7. LastLine'
  BY <1>1, <1>2, <1>4 DEF LastLine
<1>8. Results'
  BY <1>1 DEF CutInv, Results
<1> QED BY <1>5, <1>6, <1>7, <1>8 DEF CutInv

(* The verdict on a run that was cut.                                       *)
LEMMA DarkVerdict ==
    ASSUME CutInv, pc = "dark"
    PROVE  Verdict(capture, log, {}) = IF lost THEN "FAIL" ELSE "PASS"
<1>1. /\ capture \in Seq(Lines) /\ capture # <<>> /\ Numbered(capture) /\ Len(capture) = seq
      /\ (log < capture[seq].watermark <=> lost)
  BY DEF CutInv, CutTyped, LastLine
<1>2. Verdict(capture, log, {}) = IF log < capture[Len(capture)].watermark THEN "FAIL" ELSE "PASS"
  BY <1>1, VerdictOnLast
<1> QED BY <1>1, <1>2

LEMMA CutReturned ==
    ASSUME CutInv, NEW v, Returned(v), control = "none",
           ~inject => v # "FAIL",
           inject => (lost => v \in {"FAIL", "PANIC"}) /\ (v = "FAIL" => lost)
    PROVE  CutInv'
<1>1. /\ rc' = [rc EXCEPT ![inject] = v] /\ pc' = (IF inject THEN "judge" ELSE "off")
      /\ inject' = TRUE /\ segments' = segments /\ named' = named /\ log' = log /\ seq' = seq
      /\ capture' = capture /\ control' = control /\ lost' = lost
  BY DEF Returned
<1>2. inject \in BOOLEAN /\ DOMAIN rc = BOOLEAN /\ rc[FALSE] # "FAIL"
  BY DEF CutInv, CutTyped, Results
<1>3. DOMAIN rc' = BOOLEAN
  BY <1>1, <1>2
<1>4. CutTyped'
  BY <1>1, <1>3 DEF CutInv, CutTyped
<1>5. Names' /\ LastLine'
  BY <1>1 DEF Names, LastLine, Running
<1>6. CASE inject = TRUE
  <2>1. rc'[TRUE] = v /\ rc'[FALSE] = rc[FALSE] /\ pc' = "judge"
    BY <1>1, <1>2, <1>6
  <2> QED BY <1>1, <1>2, <1>4, <1>5, <1>6, <2>1 DEF CutInv, Results
<1>7. CASE inject = FALSE
  <2>1. rc'[FALSE] = v /\ pc' = "off"
    BY <1>1, <1>2, <1>7
  <2> QED BY <1>1, <1>4, <1>5, <1>7, <2>1 DEF CutInv, Results
<1> QED BY <1>2, <1>6, <1>7

LEMMA CutVerify ==
    ASSUME CutInv, Verify PROVE CutInv'
<1> DEFINE v == IF Opens THEN Verdict(capture, log, {}) ELSE "PANIC"
<1>1. pc = "dark" /\ Returned(v)
  BY DEF Verify
<1>2. control = "none" /\ (~inject => ~lost)
  BY <1>1 DEF CutInv, Results, LastLine
<1>3. Verdict(capture, log, {}) = IF lost THEN "FAIL" ELSE "PASS"
  BY <1>1, DarkVerdict
<1>4. v = "PANIC" \/ v = (IF lost THEN "FAIL" ELSE "PASS")
  BY <1>3
<1> HIDE DEF v
<1>5. (~inject => v # "FAIL") /\ (inject => (lost => v \in {"FAIL", "PANIC"}) /\ (v = "FAIL" => lost))
  BY <1>2, <1>4
<1> QED BY <1>1, <1>2, <1>5, CutReturned

LEMMA CutNotReady ==
    ASSUME CutInv, NotReady PROVE CutInv'
<1>1. pc \in Running /\ Returned("INCONCLUSIVE")
  BY DEF NotReady, Running
<1>2. ~lost /\ control = "none"
  BY <1>1 DEF CutInv, Names, Results, Running
<1> QED BY <1>1, <1>2, CutReturned

LEMMA CutJudge ==
    ASSUME CutInv, Judge PROVE CutInv'
<1>1. /\ pc = "judge" /\ control = "none"
      /\ control' = IF rc[FALSE] = "PASS" /\ rc[TRUE] = "FAIL" THEN "PASS"
                    ELSE IF rc[FALSE] = "FAIL" THEN "FAIL"
                    ELSE IF attempt = Budget THEN "INCONCLUSIVE" ELSE "none"
      /\ pc' = (IF control' = "none" THEN "off" ELSE "judge")
      /\ inject' = (control' # "none")
      /\ segments' = segments /\ named' = named /\ log' = log /\ seq' = seq /\ capture' = capture
      /\ rc' = rc /\ lost' = lost
  BY DEF Judge
<1>2. control' \in {"none", "PASS", "FAIL", "INCONCLUSIVE"} /\ inject' \in BOOLEAN
      /\ pc' \in {"off", "judge"}
  BY <1>1
<1>3. CutTyped'
  BY <1>1, <1>2 DEF CutInv, CutTyped
<1>4. Names' /\ LastLine'
  BY <1>2 DEF Names, LastLine, Running
<1>5. Results'
  BY <1>1 DEF CutInv, Results
<1> QED BY <1>3, <1>4, <1>5 DEF CutInv

LEMMA CutStep ==
    ASSUME CutInv, [Next]_vars PROVE CutInv'
<1>1. CASE UNCHANGED vars
  BY <1>1 DEF CutInv, CutTyped, Names, LastLine, Results, Numbered, vars
<1> QED BY <1>1, CutOpen, CutAppend, CutRecordAck, CutWriteback, CutCut, CutVerify, CutNotReady,
           CutJudge DEF Next

(* The invariant of the two runs of an attempt: files without a durable     *)
(* name only in the build under test, and the log behind the capture        *)
(* exactly when one of them was lost.                                       *)
THEOREM CutInvariant == Spec => []CutInv
<1>1. CutInv /\ [Next]_vars => CutInv'
  BY CutStep
<1> QED BY CutStart, <1>1, PTL DEF Spec

-----------------------------------------------------------------------------
(* The correct build keeps every acknowledged record, and the verifier says *)
(* so: its roll has fsynced the directory before a commit into the new      *)
(* segment returns.  The control never reports a failure.                   *)
THEOREM CorrectBuildKeepsAll == Spec => []CorrectBuildPasses
<1>1. CutInv => CorrectBuildPasses
  <2> SUFFICES ASSUME CutInv PROVE CorrectBuildPasses
    OBVIOUS
  <2>1. pc = "dark" /\ ~inject => ~lost
    BY DEF CutInv, LastLine
  <2> QED BY <2>1, DarkVerdict DEF CutInv, Results, CorrectBuildPasses
<1> QED BY <1>1, CutInvariant, PTL

(* The build without the fsync is caught whenever the cut took a name: the  *)
(* workload appends and records one more after the roll before it signals   *)
(* (dirfsync_cut_workload), so what the file held was in the capture.       *)
THEOREM LostNameIsCaught == Spec => []ControlBites
<1>1. CutInv => ControlBites
  BY DEF CutInv, Results, ControlBites
<1> QED BY <1>1, CutInvariant, PTL

(* The harness reports the control as demonstrated only on a real loss.     *)
THEOREM DemonstrationIsReal == Spec => []DemonstratedIsReal
<1>1. CutInv => DemonstratedIsReal
  BY DEF CutInv, Results, DemonstratedIsReal
<1> QED BY <1>1, CutInvariant, PTL
=============================================================================
