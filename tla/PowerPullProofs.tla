--------------------------- MODULE PowerPullProofs --------------------------
(***************************************************************************)
(* What the verdict of the power-pull test can be trusted with, for every   *)
(* batch size, total and number of cycles over one growing capture file,    *)
(* whatever the side channel drops and whatever the cut leaves of a line.   *)
(* FAIL is right unless the log was reset under lines already captured.     *)
(* PASS is right of a cycle whose lines reach the highest number in the     *)
(* capture, unless a cut has left a piece of a line there.  (Of the other   *)
(* cycles it may be wrong: the run power_pull shows how.)                   *)
(***************************************************************************)
EXTENDS PowerPull, SequenceTheorems, FiniteSetTheorems, WellFoundedInduction, TLAPS

Lines == [seq : Nat \ {0}, watermark : Nat]

-----------------------------------------------------------------------------
(* The verdict.                                                             *)

Judged(high, l, bad) == l < high \/ \E x \in bad : x <= high

(* by_seq keeps the last line under the highest number, when that is the    *)
(* last line of all.                                                        *)
LEMMA LastLineIsHigh ==
    ASSUME NEW s \in Seq(Lines), s # <<>>, ~Gap(BySeq(s)),
           \A i \in DOMAIN s : s[i].seq <= s[Len(s)].seq
    PROVE  HighWater(BySeq(s)) = s[Len(s)].watermark
<1> DEFINE D == {s[i].seq : i \in DOMAIN s}
           n == Len(s)
           c == Cardinality(D)
<1>1. n \in Nat \ {0} /\ DOMAIN s = 1..n /\ n \in 1..n
  <2>1. Len(s) # 0 /\ Len(s) \in Nat /\ DOMAIN s = 1..Len(s)
    BY EmptySeq, LenProperties
  <2> QED BY <2>1
<1>2. ASSUME NEW i \in 1..n PROVE s[i] \in Lines /\ s[i].seq \in Nat \ {0}
  <2>1. s[i] \in Lines
    BY LenProperties
  <2> QED BY <2>1 DEF Lines
<1>3. DOMAIN BySeq(s) = D
  BY DEF BySeq
<1>4. s[n].seq \in D /\ \A x \in D : x <= s[n].seq
  BY <1>1
<1>5. D \in SUBSET Nat /\ s[n].seq \in Nat
  BY <1>1, <1>2
<1>6. c \in Nat
  <2> HIDE DEF D
  <2> QED BY <1>4, <1>5, FS_BoundedSetOfNaturals, FS_CardinalityType
<1>7. D = 1..c
  BY <1>3 DEF Gap
<1>8. c = s[n].seq
  <2> HIDE DEF D, n, c
  <2>1. s[n].seq \in 1..c
    BY <1>4, <1>7
  <2>2. c \in D
    BY <1>6, <1>7, <2>1
  <2> QED BY <1>4, <1>5, <1>6, <2>1, <2>2
<1> DEFINE At == {i \in DOMAIN s : s[i].seq = s[n].seq}
<1>9. n \in At /\ \A j \in At : j <= n
  BY <1>1
<1>10. (CHOOSE i \in At : \A j \in At : j <= i) = n
  <2> HIDE DEF At, n
  <2>1. ASSUME NEW i \in At, \A j \in At : j <= i PROVE i = n
    <3>1. i \in 1..n
      BY <1>1 DEF At, n
    <3> QED BY <1>1, <1>9, <2>1, <3>1
  <2> QED BY <1>9, <2>1
<1>11. BySeq(s)[s[n].seq] = s[CHOOSE i \in At : \A j \in At : j <= i].watermark
  BY <1>4 DEF BySeq
<1> QED BY <1>3, <1>8, <1>10, <1>11 DEF HighWater

LEMMA GreatestExists ==
    ASSUME NEW n \in Nat, NEW S \in SUBSET (1..n), S # {}
    PROVE  \E m \in S : \A c \in S : c <= m
<1> DEFINE R == {ss \in Nat \X Nat : ss[1] < ss[2]}
           T == {n - i : i \in S}
<1>1. IsWellFoundedOn(R, Nat)
  BY NatLessThanWellFounded DEF OpToRel
<1>2. T \in SUBSET Nat /\ T # {}
  <2>1. ASSUME NEW i \in S PROVE n - i \in Nat
    <3>1. i \in 1..n
      OBVIOUS
    <3> QED BY <3>1
  <2> QED BY <2>1
<1>3. PICK t \in T : \A y \in T : ~(<<y, t>> \in R)
  <2> HIDE DEF R, T
  <2> QED BY <1>1, <1>2, WFMin
<1>4. PICK m \in S : t = n - m
  OBVIOUS
<1>5. ASSUME NEW c \in S PROVE c <= m
  <2>1. n - c \in T /\ n - c \in Nat /\ t \in Nat
    BY <1>2
  <2>2. ~(n - c < t)
    BY <1>3, <2>1
  <2> QED BY <1>4, <2>1, <2>2
<1> QED BY <1>5

(* Whatever lines are mixed, the bar is the watermark of one of them.       *)
LEMMA HighIsALine ==
    ASSUME NEW s \in Seq(Lines), s # <<>>, ~Gap(BySeq(s))
    PROVE  \E i \in 1..Len(s) : HighWater(BySeq(s)) = s[i].watermark
<1> DEFINE D == {s[i].seq : i \in DOMAIN s}
           n == Len(s)
           c == Cardinality(D)
<1>1. n \in Nat \ {0} /\ DOMAIN s = 1..n /\ 1 \in 1..n
  <2>1. Len(s) # 0 /\ Len(s) \in Nat /\ DOMAIN s = 1..Len(s)
    BY EmptySeq, LenProperties
  <2> QED BY <2>1
<1>2. DOMAIN BySeq(s) = D
  BY DEF BySeq
<1>3. D = 1..c
  BY <1>2 DEF Gap
<1>4. IsFiniteSet(1..n)
  BY <1>1, FS_Interval
<1>5. IsFiniteSet(D)
  <2>1. D = {s[i].seq : i \in 1..n}
    BY <1>1
  <2> HIDE DEF n
  <2> DEFINE f == [i \in 1..n |-> s[i].seq]
  <2>2. f \in Surjection(1..n, D)
    BY <2>1 DEF Surjection
  <2> HIDE DEF f, D
  <2> QED BY <1>4, <2>2, FS_Surjection
<1>6. c \in Nat /\ c \in D
  <2>1. c \in Nat
    BY <1>5, FS_CardinalityType
  <2>2. s[1].seq \in 1..c
    BY <1>1, <1>3
  <2> HIDE DEF D, c, n
  <2> QED BY <1>3, <2>1, <2>2
<1> DEFINE At == {i \in DOMAIN s : s[i].seq = c}
<1>7. PICK k \in At : \A j \in At : j <= k
  <2>1. At \in SUBSET (1..n) /\ At # {}
    BY <1>1, <1>6
  <2> HIDE DEF At
  <2> QED BY <1>1, <2>1, GreatestExists
<1> DEFINE m == CHOOSE i \in At : \A j \in At : j <= i
<1>8. m \in At
  <2> HIDE DEF At
  <2> QED BY <1>7
<1>9. BySeq(s)[c] = s[m].watermark
  BY <1>6 DEF BySeq
<1>10. HighWater(BySeq(s)) = s[m].watermark
  BY <1>2, <1>9 DEF HighWater
<1>11. m \in 1..Len(s)
  BY <1>1, <1>8
<1> HIDE DEF m
<1> QED BY <1>10, <1>11

-----------------------------------------------------------------------------
(* The invariant.                                                           *)

SeqRises(s) == \A i, j \in 1..Len(s) : i < j => s[i].seq < s[j].seq

Typed ==
    /\ log \in Nat /\ wrong \in SUBSET (Nat \ {0})
    /\ pc \in {"off", "run", "record", "final", "exited", "dark"} /\ seq \in Nat
    /\ wire \in Seq(Lines) /\ capture \in Seq(Lines)
    /\ verdict \in {"none", "PASS", "FAIL", "INCONCLUSIVE"}
    /\ acked \in Nat /\ heard \in Nat /\ told \in Nat
    /\ torn \in {"never", "last", "before"} /\ stale \in BOOLEAN

(* Nothing is in flight when a cycle begins or when the power is off, a     *)
(* verdict is about a machine that is off, and a line is about to be        *)
(* recorded only for what a commit has returned.                            *)
Phases ==
    /\ pc \in {"off", "dark"} => wire = <<>>
    /\ pc # "dark" => verdict = "none" /\ told <= log
    /\ pc = "off" => heard = 0
    /\ pc \in {"record", "final"} => log <= acked

(* The side channel is behind the commits: in a cycle, numbers and          *)
(* watermarks rise from what has arrived over the wire to the workload.     *)
WireBehind ==
    /\ heard <= seq
    /\ \A i \in 1..Len(wire) :
          /\ heard < wire[i].seq /\ wire[i].seq <= seq
          /\ told <= wire[i].watermark /\ wire[i].watermark <= log
          /\ wire[i].watermark <= acked
    /\ SeqRises(wire)
    /\ \A i, j \in 1..Len(wire) : i < j => wire[i].watermark <= wire[j].watermark

(* What the capture holds, of every cycle so far, some commit has returned; *)
(* the newest line of this cycle is the last one.                           *)
CaptureBehind ==
    /\ ~stale => \A i \in 1..Len(capture) : capture[i].watermark <= acked
    /\ heard = 0 => told = 0
    /\ heard > 0 /\ torn = "never" => capture # <<>> /\ capture[Len(capture)] = Line(heard, told)

PullInv ==
    Typed /\ Phases /\ WireBehind /\ CaptureBehind /\ NoFalseAlarm /\ NoVacuousPassAlone

-----------------------------------------------------------------------------
(* Sequences of lines.                                                      *)

LEMMA Appended ==
    ASSUME NEW s \in Seq(Lines), NEW x \in Lines
    PROVE  /\ Append(s, x) \in Seq(Lines) /\ Append(s, x) # <<>>
           /\ Len(s) \in Nat /\ Len(Append(s, x)) = Len(s) + 1
           /\ \A i \in 1..Len(s) : Append(s, x)[i] = s[i]
           /\ Append(s, x)[Len(s) + 1] = x
BY AppendProperties, LenProperties

LEMMA Tailed ==
    ASSUME NEW s \in Seq(Lines), s # <<>>
    PROVE  /\ Tail(s) \in Seq(Lines) /\ Len(s) \in Nat \ {0} /\ Len(Tail(s)) = Len(s) - 1
           /\ \A i \in 1..Len(Tail(s)) : Tail(s)[i] = s[i + 1] /\ i + 1 \in 1..Len(s)
           /\ Head(s) = s[1] /\ Head(s) \in Lines
<1>1. Len(s) \in Nat \ {0}
  BY EmptySeq
<1>2. Tail(s) \in Seq(Lines) /\ Len(Tail(s)) = Len(s) - 1 /\ Head(s) = s[1] /\ Head(s) \in Lines
  BY <1>1, HeadTailProperties, LenProperties
<1>3. \A i \in 1..Len(Tail(s)) : Tail(s)[i] = s[i + 1]
  BY <1>1, <1>2, HeadTailProperties
<1> QED BY <1>1, <1>2, <1>3

LEMMA LineTypes ==
    ASSUME NEW s \in Seq(Lines), NEW i \in 1..Len(s)
    PROVE  s[i] \in Lines /\ s[i].seq \in Nat /\ s[i].watermark \in Nat /\ s[i].seq > 0
<1>1. s[i] \in Lines
  BY LenProperties
<1> QED BY <1>1 DEF Lines

(* A line with a higher number goes behind.                                 *)
LEMMA RisesOn ==
    ASSUME NEW s \in Seq(Lines), SeqRises(s), NEW x \in Lines,
           \A i \in 1..Len(s) : s[i].seq < x.seq
    PROVE  SeqRises(Append(s, x))
<1> SUFFICES ASSUME NEW i \in 1..Len(Append(s, x)), NEW j \in 1..Len(Append(s, x)), i < j
             PROVE  Append(s, x)[i].seq < Append(s, x)[j].seq
  BY DEF SeqRises
<1>1. i \in 1..Len(s) /\ (j \in 1..Len(s) \/ j = Len(s) + 1)
  BY Appended
<1>2. Append(s, x)[i] = s[i] /\ (j \in 1..Len(s) => Append(s, x)[j] = s[j])
      /\ (j = Len(s) + 1 => Append(s, x)[j] = x)
  BY <1>1, Appended
<1> QED BY <1>1, <1>2 DEF SeqRises

LEMMA RisesTail ==
    ASSUME NEW s \in Seq(Lines), SeqRises(s), s # <<>>
    PROVE  /\ SeqRises(Tail(s))
           /\ \A i \in 1..Len(Tail(s)) : Head(s).seq < Tail(s)[i].seq
<1>1. ASSUME NEW i \in 1..Len(Tail(s))
      PROVE  /\ i \in Nat /\ i >= 1 /\ Tail(s)[i] = s[i + 1] /\ i + 1 \in 1..Len(s)
             /\ 1 \in 1..Len(s) /\ Head(s) = s[1]
  BY Tailed
<1>2. SeqRises(Tail(s))
  <2> SUFFICES ASSUME NEW i \in 1..Len(Tail(s)), NEW j \in 1..Len(Tail(s)), i < j
               PROVE  Tail(s)[i].seq < Tail(s)[j].seq
    BY DEF SeqRises
  <2>1. i + 1 < j + 1 /\ i + 1 \in 1..Len(s) /\ j + 1 \in 1..Len(s)
    BY <1>1
  <2>2. s[i + 1].seq < s[j + 1].seq
    BY <2>1 DEF SeqRises
  <2> QED BY <1>1, <2>2
<1>3. ASSUME NEW i \in 1..Len(Tail(s)) PROVE Head(s).seq < Tail(s)[i].seq
  <2>1. 1 < i + 1
    BY <1>1
  <2>2. s[1].seq < s[i + 1].seq
    BY <1>1, <2>1 DEF SeqRises
  <2> QED BY <1>1, <2>2
<1> QED BY <1>2, <1>3

-----------------------------------------------------------------------------
(* Every step keeps the invariant.                                          *)

LEMMA PullStart == Init => PullInv
<1> SUFFICES ASSUME Init PROVE PullInv
  OBVIOUS
<1>1. <<>> \in Seq(Lines) /\ Len(<<>>) = 0 /\ 1..0 = {}
  BY EmptySeq
<1>2. Typed /\ Phases
  <2>1. Typed
    BY <1>1 DEF Init, Typed
  <2>2. /\ wire = <<>> /\ verdict = "none" /\ told = 0 /\ log = 0 /\ heard = 0 /\ acked = 0
        /\ pc = "off"
    BY DEF Init
  <2>3. Phases
    BY <2>2 DEF Phases
  <2> QED BY <2>1, <2>3
<1>3. WireBehind /\ CaptureBehind
  <2>1. wire = <<>> /\ capture = <<>> /\ told = 0 /\ heard = 0 /\ seq = 0
    BY DEF Init
  <2> QED BY <1>1, <2>1 DEF WireBehind, CaptureBehind, SeqRises
<1> QED BY <1>2, <1>3 DEF Init, PullInv, NoFalseAlarm, NoVacuousPassAlone

LEMMA PullStartUp ==
    ASSUME PullInv, Start PROVE PullInv'
<1>1. /\ pc = "off" /\ pc' = "run" /\ seq' = 0
      /\ log' = log /\ wrong' = wrong /\ wire' = wire /\ capture' = capture /\ verdict' = verdict
      /\ acked' = acked /\ heard' = heard /\ told' = told /\ torn' = torn /\ stale' = stale
  BY DEF Start, outcome, ghosts
<1>2. wire = <<>> /\ verdict = "none" /\ heard = 0 /\ told <= log /\ Len(<<>>) = 0 /\ 1..0 = {}
  BY <1>1, EmptySeq DEF PullInv, Phases
<1>3. Typed' /\ Phases'
  BY <1>1, <1>2 DEF PullInv, Typed, Phases
<1>4. WireBehind' /\ CaptureBehind'
  BY <1>1, <1>2 DEF PullInv, WireBehind, CaptureBehind, SeqRises
<1>5. NoFalseAlarm' /\ NoVacuousPassAlone'
  BY <1>1, <1>2 DEF NoFalseAlarm, NoVacuousPassAlone
<1> QED BY <1>3, <1>4, <1>5 DEF PullInv

(* The steps of the workload that leave the side channel alone.             *)
LEMMA PullLocal ==
    ASSUME PullInv, AppendRecord \/ Commit \/ CommitFails \/ RecordFails PROVE PullInv'
<1>1. /\ pc \in {"run", "record", "final"} /\ pc' \in {"run", "record", "final", "exited"}
      /\ wrong' = wrong /\ wire' = wire /\ capture' = capture /\ verdict' = verdict
      /\ seq' = seq /\ heard' = heard /\ told' = told /\ torn' = torn /\ stale' = stale
  BY DEF AppendRecord, Commit, CommitFails, RecordFails, outcome, ghosts
<1>2. verdict = "none" /\ told <= log /\ log \in Nat /\ acked \in Nat /\ told \in Nat
  BY <1>1 DEF PullInv, Phases, Typed
<1>3. /\ acked \in Nat /\ acked' \in Nat /\ acked <= acked'
      /\ log' \in Nat /\ log <= log' /\ told <= log'
      /\ pc' \in {"record", "final"} => log' <= acked'
  <2>1. CASE AppendRecord
    BY <1>2, <2>1 DEF AppendRecord, ghosts
  <2>2. CASE Commit
    BY <1>2, <2>2 DEF Commit, MaxOf
  <2>3. CASE CommitFails \/ RecordFails
    BY <1>2, <2>3 DEF CommitFails, RecordFails, ghosts
  <2> QED BY <2>1, <2>2, <2>3
<1>4. Typed' /\ Phases'
  BY <1>1, <1>2, <1>3 DEF PullInv, Typed, Phases
<1>5. WireBehind'
  <2>1. ASSUME NEW i \in 1..Len(wire)
        PROVE  wire[i].watermark <= acked' /\ wire[i].watermark <= log'
    <3>1. wire[i].watermark <= acked /\ wire[i].watermark <= log /\ wire[i].watermark \in Nat
      BY LineTypes DEF PullInv, WireBehind, Typed
    <3> QED BY <1>2, <1>3, <3>1
  <2> QED BY <1>1, <2>1 DEF PullInv, WireBehind
<1>6. CaptureBehind'
  <2>1. ASSUME ~stale, NEW i \in 1..Len(capture) PROVE capture[i].watermark <= acked'
    <3>1. capture[i].watermark <= acked /\ capture[i].watermark \in Nat
      BY <2>1, LineTypes DEF PullInv, CaptureBehind, Typed
    <3> QED BY <1>2, <1>3, <3>1
  <2> QED BY <1>1, <2>1 DEF PullInv, CaptureBehind
<1>7. NoFalseAlarm' /\ NoVacuousPassAlone'
  BY <1>1, <1>2 DEF NoFalseAlarm, NoVacuousPassAlone
<1> QED BY <1>4, <1>5, <1>6, <1>7 DEF PullInv

(* Sink::record: the line is the newest, and its watermark the highest.     *)
LEMMA PullRecord ==
    ASSUME PullInv, Record PROVE PullInv'
<1> DEFINE x == Line(seq + 1, log)
<1>1. /\ pc \in {"record", "final"} /\ pc' \in {"run", "exited"} /\ seq' = seq + 1
      /\ wire' = Append(wire, x)
      /\ log' = log /\ wrong' = wrong /\ capture' = capture /\ verdict' = verdict
      /\ acked' = acked /\ heard' = heard /\ told' = told /\ torn' = torn /\ stale' = stale
  BY DEF Record, outcome, ghosts
<1>2. /\ verdict = "none" /\ log <= acked /\ told <= log /\ heard <= seq
      /\ log \in Nat /\ acked \in Nat /\ told \in Nat /\ heard \in Nat
      /\ seq \in Nat /\ wire \in Seq(Lines)
  BY <1>1 DEF PullInv, Phases, Typed, WireBehind
<1>3. x \in Lines /\ x.seq = seq + 1 /\ x.watermark = log
  BY <1>2 DEF Line, Lines
<1> HIDE DEF x
<1>4. /\ wire' \in Seq(Lines) /\ Len(wire) \in Nat /\ Len(wire') = Len(wire) + 1
      /\ \A i \in 1..Len(wire) : wire'[i] = wire[i]
      /\ wire'[Len(wire) + 1] = x
  BY <1>1, <1>2, <1>3, Appended
<1>5. Typed' /\ Phases'
  BY <1>1, <1>2, <1>4 DEF PullInv, Typed, Phases
<1>6. ASSUME NEW i \in 1..Len(wire)
      PROVE  /\ wire[i].seq \in Nat /\ wire[i].watermark \in Nat
             /\ heard < wire[i].seq /\ wire[i].seq <= seq
             /\ told <= wire[i].watermark /\ wire[i].watermark <= log
             /\ wire[i].watermark <= acked
  BY <1>2, LineTypes DEF PullInv, WireBehind
<1>7. ASSUME NEW i \in 1..Len(wire')
      PROVE  /\ heard < wire'[i].seq /\ wire'[i].seq <= seq'
             /\ told <= wire'[i].watermark /\ wire'[i].watermark <= log
             /\ wire'[i].watermark <= acked
  <2>1. CASE i \in 1..Len(wire)
    BY <1>1, <1>2, <1>4, <1>6, <2>1
  <2>2. CASE i = Len(wire) + 1
    BY <1>1, <1>2, <1>3, <1>4, <2>2
  <2> QED BY <1>4, <2>1, <2>2
<1>8. SeqRises(wire')
  <2>1. SeqRises(wire) /\ \A i \in 1..Len(wire) : wire[i].seq < x.seq
    BY <1>2, <1>3, <1>6 DEF PullInv, WireBehind
  <2> QED BY <1>1, <1>2, <1>3, <2>1, RisesOn
<1>9. ASSUME NEW i \in 1..Len(wire'), NEW j \in 1..Len(wire'), i < j
      PROVE  wire'[i].watermark <= wire'[j].watermark
  <2>1. i \in 1..Len(wire) /\ (j \in 1..Len(wire) \/ j = Len(wire) + 1)
    BY <1>4, <1>9
  <2>2. CASE j \in 1..Len(wire)
    <3>1. wire[i].watermark <= wire[j].watermark
      BY <1>9, <2>1, <2>2 DEF PullInv, WireBehind
    <3> QED BY <1>4, <2>1, <2>2, <3>1
  <2>3. CASE j = Len(wire) + 1
    BY <1>3, <1>4, <1>6, <2>1, <2>3
  <2> QED BY <2>1, <2>2, <2>3
<1>10. WireBehind'
  BY <1>1, <1>2, <1>7, <1>8, <1>9 DEF WireBehind
<1>11. CaptureBehind'
  BY <1>1 DEF PullInv, CaptureBehind
<1>12. NoFalseAlarm' /\ NoVacuousPassAlone'
  BY <1>1, <1>2 DEF NoFalseAlarm, NoVacuousPassAlone
<1> QED BY <1>5, <1>10, <1>11, <1>12 DEF PullInv

(* A line leaves the wire: what is behind it stays in order.                *)
LEMMA WireAdvances ==
    ASSUME PullInv, wire # <<>>
    PROVE  /\ pc \notin {"off", "dark"} /\ verdict = "none"
           /\ Tail(wire) \in Seq(Lines) /\ Head(wire) \in Lines
           /\ Head(wire).seq \in Nat \ {0} /\ Head(wire).watermark \in Nat
           /\ heard < Head(wire).seq /\ Head(wire).seq <= seq
           /\ Head(wire).watermark <= log /\ Head(wire).watermark <= acked
           /\ SeqRises(Tail(wire))
           /\ \A i \in 1..Len(Tail(wire)) :
                 /\ heard < Tail(wire)[i].seq /\ Tail(wire)[i].seq <= seq
                 /\ told <= Tail(wire)[i].watermark /\ Tail(wire)[i].watermark <= log
                 /\ Tail(wire)[i].watermark <= acked
                 /\ Head(wire).seq < Tail(wire)[i].seq
                 /\ Head(wire).watermark <= Tail(wire)[i].watermark
           /\ \A i, j \in 1..Len(Tail(wire)) : i < j => Tail(wire)[i].watermark <= Tail(wire)[j].watermark
<1>1. wire \in Seq(Lines) /\ SeqRises(wire)
  BY DEF PullInv, Typed, WireBehind
<1>2. /\ Tail(wire) \in Seq(Lines) /\ Len(wire) \in Nat \ {0} /\ Len(Tail(wire)) = Len(wire) - 1
      /\ \A i \in 1..Len(Tail(wire)) : Tail(wire)[i] = wire[i + 1] /\ i + 1 \in 1..Len(wire)
      /\ Head(wire) = wire[1] /\ Head(wire) \in Lines
  BY <1>1, Tailed
<1>3. SeqRises(Tail(wire)) /\ \A i \in 1..Len(Tail(wire)) : Head(wire).seq < Tail(wire)[i].seq
  BY <1>1, RisesTail
<1>4. pc \notin {"off", "dark"} /\ verdict = "none"
  BY DEF PullInv, Phases
<1>5. 1 \in 1..Len(wire)
  BY <1>2
<1>6. Head(wire).seq \in Nat \ {0} /\ Head(wire).watermark \in Nat
  BY <1>2 DEF Lines
<1>7. /\ heard < Head(wire).seq /\ Head(wire).seq <= seq
      /\ Head(wire).watermark <= log /\ Head(wire).watermark <= acked
  BY <1>2, <1>5 DEF PullInv, WireBehind
<1>8. ASSUME NEW i \in 1..Len(Tail(wire))
      PROVE  /\ heard < Tail(wire)[i].seq /\ Tail(wire)[i].seq <= seq
             /\ told <= Tail(wire)[i].watermark /\ Tail(wire)[i].watermark <= log
             /\ Tail(wire)[i].watermark <= acked
  BY <1>2 DEF PullInv, WireBehind
<1>9. ASSUME NEW i \in 1..Len(Tail(wire)) PROVE Head(wire).watermark <= Tail(wire)[i].watermark
  <2>1. 1 < i + 1 /\ i + 1 \in 1..Len(wire)
    BY <1>2
  <2>2. wire[1].watermark <= wire[i + 1].watermark
    BY <1>5, <2>1 DEF PullInv, WireBehind
  <2> QED BY <1>2, <2>2
<1>10. ASSUME NEW i \in 1..Len(Tail(wire)), NEW j \in 1..Len(Tail(wire)), i < j
       PROVE  Tail(wire)[i].watermark <= Tail(wire)[j].watermark
  <2>1. i + 1 < j + 1 /\ i + 1 \in 1..Len(wire) /\ j + 1 \in 1..Len(wire)
    BY <1>2, <1>10
  <2>2. wire[i + 1].watermark <= wire[j + 1].watermark
    BY <2>1 DEF PullInv, WireBehind
  <2> QED BY <1>2, <2>2
<1> QED BY <1>2, <1>3, <1>4, <1>6, <1>7, <1>8, <1>9, <1>10

LEMMA PullDrop ==
    ASSUME PullInv, Drop PROVE PullInv'
<1>1. /\ wire # <<>> /\ wire' = Tail(wire)
      /\ log' = log /\ wrong' = wrong /\ pc' = pc /\ seq' = seq
      /\ capture' = capture /\ verdict' = verdict
      /\ acked' = acked /\ heard' = heard /\ told' = told /\ torn' = torn /\ stale' = stale
  BY DEF Drop, workload, outcome, ghosts
<1>2. Typed' /\ Phases'
  BY <1>1, WireAdvances DEF PullInv, Typed, Phases
<1>3. WireBehind'
  BY <1>1, WireAdvances DEF PullInv, WireBehind
<1>4. CaptureBehind'
  BY <1>1 DEF PullInv, CaptureBehind
<1>5. NoFalseAlarm' /\ NoVacuousPassAlone'
  BY <1>1, WireAdvances DEF NoFalseAlarm, NoVacuousPassAlone
<1> QED BY <1>2, <1>3, <1>4, <1>5 DEF PullInv

(* A line, whole or shortened, enters the capture.                          *)
LEMMA Captured ==
    ASSUME PullInv, wire # <<>>, NEW x \in Lines, x.watermark <= Head(wire).watermark
    PROVE  /\ Append(capture, x) \in Seq(Lines) /\ Append(capture, x) # <<>>
           /\ Append(capture, x)[Len(Append(capture, x))] = x
           /\ ~stale => \A i \in 1..Len(Append(capture, x)) : Append(capture, x)[i].watermark <= acked
<1> DEFINE h == Head(wire)
           t == Append(capture, x)
<1>1. h.watermark \in Nat /\ h.watermark <= acked
  BY WireAdvances
<1>2. capture \in Seq(Lines) /\ acked \in Nat
  BY DEF PullInv, Typed
<1>3. x.watermark \in Nat /\ x.watermark <= h.watermark
  BY DEF Lines
<1>4. /\ t \in Seq(Lines) /\ t # <<>> /\ Len(capture) \in Nat /\ Len(t) = Len(capture) + 1
      /\ \A i \in 1..Len(capture) : t[i] = capture[i]
      /\ t[Len(capture) + 1] = x
  BY <1>2, Appended
<1> HIDE DEF h, t
<1>5. ASSUME ~stale, NEW i \in 1..Len(t) PROVE t[i].watermark <= acked
  <2>1. CASE i \in 1..Len(capture)
    BY <1>4, <1>5, <2>1 DEF PullInv, CaptureBehind
  <2>2. CASE i = Len(capture) + 1
    BY <1>1, <1>2, <1>3, <1>4, <2>2
  <2> QED BY <1>4, <2>1, <2>2
<1> QED BY <1>4, <1>5 DEF t

LEMMA PullDeliver ==
    ASSUME PullInv, Deliver PROVE PullInv'
<1> DEFINE x == Head(wire)
<1>1. /\ wire # <<>> /\ wire' = Tail(wire) /\ capture' = Append(capture, x)
      /\ heard' = x.seq /\ told' = x.watermark
      /\ log' = log /\ wrong' = wrong /\ pc' = pc /\ seq' = seq
      /\ verdict' = verdict /\ acked' = acked /\ torn' = torn /\ stale' = stale
  BY DEF Deliver, workload, outcome
<1>2. /\ x \in Lines /\ x.watermark \in Nat /\ x.seq \in Nat \ {0}
      /\ x.watermark <= x.watermark /\ x.watermark <= log /\ x.seq <= seq
  BY <1>1, WireAdvances
<1>3. /\ capture' \in Seq(Lines) /\ capture' # <<>> /\ capture'[Len(capture')] = x
      /\ ~stale => \A i \in 1..Len(capture') : capture'[i].watermark <= acked
  BY <1>1, <1>2, Captured
<1>4. x = Line(x.seq, x.watermark)
  BY <1>2 DEF Lines, Line
<1>5. Typed' /\ Phases'
  BY <1>1, <1>2, <1>3, WireAdvances DEF PullInv, Typed, Phases
<1>6. WireBehind'
  BY <1>1, <1>2, WireAdvances DEF WireBehind
<1>7. CaptureBehind'
  <2> HIDE DEF x
  <2> QED BY <1>1, <1>2, <1>3, <1>4 DEF CaptureBehind
<1>8. NoFalseAlarm' /\ NoVacuousPassAlone'
  BY <1>1, WireAdvances DEF NoFalseAlarm, NoVacuousPassAlone
<1> QED BY <1>5, <1>6, <1>7, <1>8 DEF PullInv

(* A line runs on into a piece: both are gone.                              *)
LEMMA PullRunOn ==
    ASSUME PullInv, RunOn PROVE PullInv'
<1>1. /\ wire # <<>> /\ wire' = Tail(wire) /\ torn' = "before"
      /\ capture' = SubSeq(capture, 1, Len(capture) - 1)
      /\ log' = log /\ wrong' = wrong /\ pc' = pc /\ seq' = seq /\ verdict' = verdict
      /\ acked' = acked /\ heard' = heard /\ told' = told /\ stale' = stale
  BY DEF RunOn, workload, outcome
<1>2. capture \in Seq(Lines)
  BY DEF PullInv, Typed
<1>3. capture' \in Seq(Lines) /\ \A i \in 1..Len(capture') : i \in 1..Len(capture) /\ capture'[i] = capture[i]
  <2>1. Len(capture) \in Nat
    BY <1>2, LenProperties
  <2>2. \A i \in 1..(Len(capture) - 1) : capture[i] \in Lines
    BY <1>2, <2>1, LenProperties
  <2> QED BY <1>1, <1>2, <2>1, <2>2, SubSeqProperties
<1>4. Typed' /\ Phases'
  BY <1>1, <1>3, WireAdvances DEF PullInv, Typed, Phases
<1>5. WireBehind'
  BY <1>1, WireAdvances DEF PullInv, WireBehind
<1>6. CaptureBehind'
  BY <1>1, <1>3 DEF PullInv, CaptureBehind
<1>7. NoFalseAlarm' /\ NoVacuousPassAlone'
  BY <1>1, WireAdvances DEF NoFalseAlarm, NoVacuousPassAlone
<1> QED BY <1>4, <1>5, <1>6, <1>7 DEF PullInv

LEMMA ShortenedIsLess ==
    ASSUME NEW n \in Nat, NEW w \in Shortened(n) PROVE w \in Nat /\ w <= n
<1>1. n \div 10 \in Nat /\ n \div 10 <= n /\ n \div 100 \in Nat /\ n \div 100 <= n
  OBVIOUS
<1> QED BY <1>1 DEF Shortened

(* The cut: the log may lose anything, the capture at most gains a piece.   *)
LEMMA PullCut ==
    ASSUME PullInv, Cut PROVE PullInv'
<1>1. /\ pc \notin {"off", "dark"} /\ pc' = "dark" /\ log' \in 0..log /\ wire' = <<>>
      /\ \E bad \in {{}} \cup {{l} : l \in 1..log'} : wrong' = (wrong \cap 1..log') \cup bad
      /\ seq' = seq /\ verdict' = verdict
      /\ acked' = acked /\ heard' = heard /\ told' = told /\ stale' = stale
  BY DEF Cut, outcome
<1>2. /\ verdict = "none" /\ log \in Nat /\ Len(<<>>) = 0 /\ <<>> \in Seq(Lines) /\ 1..0 = {}
  BY <1>1, EmptySeq DEF PullInv, Phases, Typed
<1>3. log' \in Nat /\ wrong' \in SUBSET (Nat \ {0})
  <2>1. log' \in Nat
    BY <1>1, <1>2
  <2>2. PICK bad \in {{}} \cup {{l} : l \in 1..log'} : wrong' = (wrong \cap 1..log') \cup bad
    BY <1>1
  <2>3. bad \in SUBSET (Nat \ {0})
    BY <2>1, <2>2
  <2> QED BY <2>1, <2>2, <2>3 DEF PullInv, Typed
<1>4. /\ capture' \in Seq(Lines) /\ torn' \in {"never", "last", "before"}
      /\ ~stale => \A i \in 1..Len(capture') : capture'[i].watermark <= acked
      /\ torn' = "never" => capture' = capture /\ torn = "never"
  <2>1. CASE UNCHANGED <<capture, torn>>
    BY <2>1 DEF PullInv, Typed, CaptureBehind
  <2>2. ASSUME wire # <<>>, NEW w \in Shortened(Head(wire).watermark),
               capture' = Append(capture, Line(Head(wire).seq, w)), torn' = "last"
        PROVE  <1>4
    <3> DEFINE x == Line(Head(wire).seq, w)
    <3>1. Head(wire).seq \in Nat \ {0} /\ Head(wire).watermark \in Nat
      BY <2>2, WireAdvances
    <3>2. w \in Nat /\ w <= Head(wire).watermark
      BY <3>1, ShortenedIsLess
    <3>3. x \in Lines /\ x.watermark = w
      BY <3>1, <3>2 DEF Line, Lines
    <3>4. capture' = Append(capture, x)
      BY <2>2
    <3> HIDE DEF x
    <3> QED BY <2>2, <3>2, <3>3, <3>4, Captured
  <2> QED BY <2>1, <2>2 DEF Cut
<1>5. Typed' /\ Phases'
  BY <1>1, <1>2, <1>3, <1>4 DEF PullInv, Typed, Phases
<1>6. WireBehind'
  BY <1>1, <1>2 DEF PullInv, WireBehind, SeqRises
<1>7. CaptureBehind'
  BY <1>1, <1>4 DEF PullInv, CaptureBehind
<1>8. NoFalseAlarm' /\ NoVacuousPassAlone'
  BY <1>1, <1>2 DEF NoFalseAlarm, NoVacuousPassAlone
<1> QED BY <1>5, <1>6, <1>7, <1>8 DEF PullInv

(* The verifier's bar is the watermark of a captured line, and of the       *)
(* newest line of the cycle when that has the highest number.               *)
LEMMA PullVerify ==
    ASSUME PullInv, Verify PROVE PullInv'
<1>1. /\ pc = "dark" /\ verdict' = Verdict(capture, log, wrong)
      /\ log' = log /\ wrong' = wrong /\ pc' = pc /\ seq' = seq
      /\ wire' = wire /\ capture' = capture
      /\ acked' = acked /\ heard' = heard /\ told' = told /\ torn' = torn /\ stale' = stale
  BY DEF Verify, workload, ghosts
<1>2. /\ capture \in Seq(Lines) /\ log \in Nat /\ acked \in Nat /\ told \in Nat /\ heard \in Nat
      /\ wrong \in SUBSET (Nat \ {0})
  BY DEF PullInv, Typed
<1> DEFINE high == HighWater(BySeq(capture))
<1>3. /\ verdict' \in {"PASS", "FAIL", "INCONCLUSIVE"}
      /\ verdict' = "FAIL" => capture # <<>> /\ ~Gap(BySeq(capture)) /\ Judged(high, log, wrong)
      /\ verdict' = "PASS" => capture # <<>> /\ ~Gap(BySeq(capture)) /\ ~Judged(high, log, wrong)
  BY <1>1 DEF Verdict, Judged
<1> HIDE DEF high
<1>4. NoFalseAlarm'
  <2> SUFFICES ASSUME verdict' = "FAIL", ~stale PROVE log < acked \/ \E l \in wrong : l <= acked
    BY <1>1 DEF NoFalseAlarm
  <2>1. high \in Nat /\ high <= acked
    <3>1. PICK i \in 1..Len(capture) : high = capture[i].watermark
      BY <1>2, <1>3, HighIsALine DEF high
    <3> QED BY <1>2, <3>1, LineTypes DEF PullInv, CaptureBehind
  <2>2. CASE log < high
    BY <1>2, <2>1, <2>2
  <2>3. ASSUME NEW l \in wrong, l <= high PROVE l <= acked
    BY <1>2, <2>1, <2>3
  <2> QED BY <1>3, <2>2, <2>3 DEF Judged
<1>5. NoVacuousPassAlone'
  <2> SUFFICES ASSUME verdict' = "PASS", torn = "never", Outlasts PROVE ToldIsKept
    BY <1>1 DEF NoVacuousPassAlone, Outlasts, ToldIsKept
  <2>1. CASE heard = 0
    BY <1>2, <2>1 DEF PullInv, CaptureBehind, ToldIsKept
  <2>2. CASE heard > 0
    <3>1. capture[Len(capture)] = Line(heard, told)
      BY <2>2 DEF PullInv, CaptureBehind
    <3>2. capture[Len(capture)].seq = heard /\ capture[Len(capture)].watermark = told
      BY <3>1 DEF Line
    <3>3. high = told
      BY <1>2, <1>3, <3>2, LastLineIsHigh DEF Outlasts, high
    <3>4. ~(log < told) /\ \A l \in wrong : ~(l <= told)
      BY <1>3, <3>3 DEF Judged
    <3> QED BY <1>2, <3>4 DEF ToldIsKept
  <2> QED BY <1>2, <2>1, <2>2
<1>6. Typed' /\ Phases'
  BY <1>1, <1>3 DEF PullInv, Typed, Phases
<1>7. WireBehind' /\ CaptureBehind'
  BY <1>1 DEF PullInv, WireBehind, CaptureBehind
<1> QED BY <1>4, <1>5, <1>6, <1>7 DEF PullInv

(* The next cycle counts from 1 again, and the capture goes on.             *)
LEMMA PullNextCycle ==
    ASSUME PullInv, NextCycle PROVE PullInv'
<1>1. /\ verdict \in {"PASS", "INCONCLUSIVE"} /\ verdict' = "none" /\ pc' = "off"
      /\ seq' = 0 /\ heard' = 0 /\ told' = 0
      /\ wire' = wire /\ capture' = capture /\ torn' = torn
      /\ \/ log' = log /\ wrong' = wrong /\ acked' = acked /\ stale' = stale
         \/ log' = 0 /\ wrong' = {} /\ acked' = 0 /\ stale' = (stale \/ capture # <<>>)
  BY DEF NextCycle
<1>2. wire = <<>> /\ Len(<<>>) = 0 /\ <<>> \in Seq(Lines) /\ 1..0 = {}
  BY <1>1, EmptySeq DEF PullInv, Phases
<1>3. log' \in Nat /\ acked' \in Nat /\ wrong' \in SUBSET (Nat \ {0}) /\ stale' \in BOOLEAN
  <2>1. stale \in BOOLEAN
    BY DEF PullInv, Typed
  <2>2. stale' \in BOOLEAN
    BY <1>1, <2>1, Zenon
  <2>3. log' \in {log, 0} /\ acked' \in {acked, 0} /\ wrong' \in {wrong, {}}
    BY <1>1
  <2> QED BY <2>2, <2>3 DEF PullInv, Typed
<1>4. Typed' /\ Phases'
  BY <1>1, <1>2, <1>3 DEF PullInv, Typed, Phases
<1>5. WireBehind'
  BY <1>1, <1>2, <1>3 DEF WireBehind, SeqRises
<1>6. CaptureBehind'
  <2>1. ASSUME ~stale', NEW i \in 1..Len(capture) PROVE capture[i].watermark <= acked'
    <3>1. CASE acked' = acked /\ stale' = stale
      BY <2>1, <3>1 DEF PullInv, CaptureBehind
    <3>2. CASE stale' = (stale \/ capture # <<>>)
      BY <1>2, <2>1, <3>2
    <3> QED BY <1>1, <3>1, <3>2
  <2> QED BY <1>1, <2>1 DEF CaptureBehind
<1>7. NoFalseAlarm' /\ NoVacuousPassAlone'
  BY <1>1 DEF NoFalseAlarm, NoVacuousPassAlone
<1> QED BY <1>4, <1>5, <1>6, <1>7 DEF PullInv

LEMMA PullStep ==
    ASSUME PullInv, [Next]_vars PROVE PullInv'
<1>1. CASE UNCHANGED vars
  <2>1. Typed' /\ Phases' /\ NoFalseAlarm'
    BY <1>1 DEF PullInv, Typed, Phases, NoFalseAlarm, vars, workload, outcome, ghosts
  <2>2. NoVacuousPassAlone'
    BY <1>1 DEF PullInv, NoVacuousPassAlone, Outlasts, ToldIsKept, vars, outcome, ghosts
  <2>3. WireBehind' /\ CaptureBehind'
    BY <1>1 DEF PullInv, WireBehind, CaptureBehind, vars, workload, ghosts
  <2> QED BY <2>1, <2>2, <2>3 DEF PullInv
<1> QED BY <1>1, PullStartUp, PullLocal, PullRecord, PullDeliver, PullRunOn, PullDrop, PullCut,
           PullVerify, PullNextCycle DEF Next

-----------------------------------------------------------------------------
(* FAIL is never said of a log that kept what was acknowledged, over any    *)
(* number of cycles on one capture file, unless the log was reset under     *)
(* lines already captured: a line of the side channel (Sink::record) is     *)
(* written after its commit, so no captured watermark, shortened or of an   *)
(* earlier cycle, is above what was acknowledged.                           *)
THEOREM FailIsReal == Spec => []NoFalseAlarm
<1>1. PullInv /\ [Next]_vars => PullInv'
  BY PullStep
<1>2. PullInv => NoFalseAlarm
  BY DEF PullInv
<1> QED BY PullStart, <1>1, <1>2, PTL DEF Spec

(* PASS is never said of a log that lost a record this cycle has told of,   *)
(* when the lines of the cycle reach the highest number in the capture and  *)
(* no piece of a line was captured: by_seq then holds this cycle's line     *)
(* under that number, and a lost line is a gap or lies below it.            *)
THEOREM PassIsEarned == Spec => []NoVacuousPassAlone
<1>1. PullInv /\ [Next]_vars => PullInv'
  BY PullStep
<1>2. PullInv => NoVacuousPassAlone
  BY DEF PullInv
<1> QED BY PullStart, <1>1, <1>2, PTL DEF Spec
=============================================================================
