---------------------------- MODULE SegmentProofs ---------------------------
(***************************************************************************)
(* One segment file, for every segment size, record size, page size and     *)
(* number of crashes, kills and cuts.                                       *)
(*                                                                          *)
(* What an open accepts, what the handle believes and what was acknowledged *)
(* is in the file, whatever order pages persist in (CoreInv).  On a device  *)
(* that persists them in order (OrderedDevice) the file is moreover the     *)
(* beginning of the log and zeros (OrderInv), so an open neither fails nor  *)
(* brings back what an earlier one gave up.                                 *)
(***************************************************************************)
EXTENDS Segment, SequenceTheorems, WellFoundedInduction, TLAPS

-----------------------------------------------------------------------------
(* Induction, with a set for the property.                                  *)
LEMMA Induct ==
    ASSUME NEW S, 0 \in S, \A n \in Nat : n \in S => n + 1 \in S
    PROVE  Nat \subseteq S
<1> DEFINE R == {ss \in Nat \X Nat : ss[1] < ss[2]}
           T == Nat \ S
<1>1. IsWellFoundedOn(R, Nat)
  BY NatLessThanWellFounded DEF OpToRel
<1>2. SUFFICES ASSUME T # {} PROVE FALSE
  OBVIOUS
<1>3. PICK m \in T : \A y \in T : ~(<<y, m>> \in R)
  <2> HIDE DEF R
  <2> QED BY <1>1, <1>2, WFMin
<1>4. m - 1 \in Nat /\ m - 1 \in T
  OBVIOUS
<1>5. <<m - 1, m>> \in R
  BY <1>4
<1> QED BY <1>3, <1>4, <1>5

-----------------------------------------------------------------------------
(* The encoding of records i+1 .. j of s, under LSNs that start at b.       *)
Rec(s, b, n) == [k \in 1..Frame(s[n]) |-> Piece(b + n - 1, s[n], k - 1)]

Enc(s, b, i, j) ==
    LET F[n \in i..j] == IF n = i THEN <<>> ELSE F[n - 1] \o Rec(s, b, n) IN F[j]

LEMMA EncodeIntoIsEnc ==
    ASSUME NEW i, NEW j PROVE EncodeInto(i, j) = Enc(log, env.base, i, j)
BY DEF EncodeInto, Enc, Rec

(* The function behind the recursion.                                       *)
EncFcn(s, b, i, j) ==
    CHOOSE F : F = [n \in i..j |-> IF n = i THEN <<>> ELSE F[n - 1] \o Rec(s, b, n)]

LEMMA EncIsFcn ==
    ASSUME NEW s, NEW b, NEW i, NEW j PROVE Enc(s, b, i, j) = EncFcn(s, b, i, j)[j]
BY DEF Enc, EncFcn

(* The recursion has a solution.                                            *)
LEMMA EncDefined ==
    ASSUME NEW s, NEW b, NEW i \in Nat, NEW j \in Nat, i <= j
    PROVE  \A n \in i..j : EncFcn(s, b, i, j)[n] =
               IF n = i THEN <<>> ELSE EncFcn(s, b, i, j)[n - 1] \o Rec(s, b, n)
<1> DEFINE Body(F, n) == IF n = i THEN <<>> ELSE F[n - 1] \o Rec(s, b, n)
           Def(F, m) == F = [n \in i..m |-> F[n]] /\ \A n \in i..m : F[n] = Body(F, n)
           S == {d \in Nat : \E F : Def(F, i + d)}
<1>1. 0 \in S
  <2> DEFINE F == [n \in i..i |-> <<>>]
  <2>1. \A n \in i..i : n = i /\ F[n] = <<>>
    OBVIOUS
  <2>2. Def(F, i + 0)
    BY <2>1
  <2> QED BY <2>2
<1>2. ASSUME NEW d \in Nat, d \in S PROVE d + 1 \in S
  <2>1. PICK F : Def(F, i + d)
    BY <1>2
  <2> DEFINE m == i + d
             G == [n \in i..(m + 1) |-> IF n <= m THEN F[n] ELSE F[m] \o Rec(s, b, m + 1)]
  <2>2. ASSUME NEW n \in i..(m + 1) PROVE G[n] = Body(G, n)
    <3>1. CASE n <= m
      <4>1. n \in i..m /\ G[n] = F[n]
        BY <3>1
      <4>3. F[n] = Body(F, n)
        <5> HIDE DEF Body
        <5> QED BY <2>1, <4>1
      <4>2. n # i => G[n - 1] = F[n - 1]
        BY <3>1
      <4> QED BY <4>1, <4>2, <4>3
    <3>2. CASE n = m + 1
      <4>1. n # i /\ n - 1 = m /\ m \in i..(m + 1) /\ m <= m /\ ~(n <= m) /\ m \in Int
        BY <3>2
      <4>2. G[n - 1] = F[m]
        BY <4>1
      <4>3. G[n] = F[m] \o Rec(s, b, m + 1)
        BY <4>1
      <4>4. Rec(s, b, m + 1) = Rec(s, b, n)
        BY <3>2
      <4> QED BY <4>1, <4>2, <4>3, <4>4
    <3> QED BY <3>1, <3>2
  <2>3. G = [n \in i..(m + 1) |-> G[n]]
    OBVIOUS
  <2>4. Def(G, m + 1)
    <3> HIDE DEF G, Body
    <3> QED BY <2>2, <2>3
  <2>5. m + 1 = i + (d + 1)
    OBVIOUS
  <2>6. Def(G, i + (d + 1))
    <3> HIDE DEF G, Body
    <3> QED BY <2>4, <2>5
  <2> HIDE DEF G, Def
  <2> QED BY <2>6
<1>3. j - i \in S
  <2> HIDE DEF S
  <2> QED BY <1>1, <1>2, Induct
<1>4. PICK F : Def(F, j)
  <2> HIDE DEF Def
  <2> QED BY <1>3
<1>5. F = [n \in i..j |-> Body(F, n)]
  <2> HIDE DEF Body
  <2> QED BY <1>4
<1>6. EncFcn(s, b, i, j) = [n \in i..j |-> Body(EncFcn(s, b, i, j), n)]
  BY <1>5 DEF EncFcn
<1> HIDE DEF Body
<1>7. \A n \in i..j : EncFcn(s, b, i, j)[n] = Body(EncFcn(s, b, i, j), n)
  BY <1>6
<1> QED BY <1>7 DEF Body

(* It depends on the records it encodes only.                               *)
LEMMA EncAgree ==
    ASSUME NEW s, NEW r, NEW b, NEW i \in Nat, NEW j \in Nat, NEW m \in Nat, NEW n \in Nat,
           i <= n, n <= j, n <= m, \A k \in (i + 1)..n : s[k] = r[k]
    PROVE  EncFcn(s, b, i, j)[n] = EncFcn(r, b, i, m)[n]
<1> DEFINE F == EncFcn(s, b, i, j)
           G == EncFcn(r, b, i, m)
           S == {d \in Nat : i + d <= n => F[i + d] = G[i + d]}
<1>0. i <= j /\ i <= m
  OBVIOUS
<1>1. /\ \A k \in i..j : F[k] = IF k = i THEN <<>> ELSE F[k - 1] \o Rec(s, b, k)
      /\ \A k \in i..m : G[k] = IF k = i THEN <<>> ELSE G[k - 1] \o Rec(r, b, k)
  BY <1>0, EncDefined
<1> HIDE DEF F, G
<1>2. 0 \in S
  <2>1. i + 0 = i /\ i \in i..j /\ i \in i..m
    OBVIOUS
  <2> QED BY <1>1, <2>1
<1>3. ASSUME NEW d \in Nat, d \in S PROVE d + 1 \in S
  <2> SUFFICES ASSUME i + (d + 1) <= n PROVE F[i + (d + 1)] = G[i + (d + 1)]
    OBVIOUS
  <2> DEFINE k == i + (d + 1)
  <2>1. k \in i..j /\ k \in i..m /\ k # i /\ k \in (i + 1)..n /\ k - 1 = i + d /\ i + d <= n
    OBVIOUS
  <2>2. F[k - 1] = G[k - 1]
    BY <1>3, <2>1
  <2>3. Rec(s, b, k) = Rec(r, b, k)
    BY <2>1 DEF Rec
  <2> HIDE DEF k
  <2>4. F[k] = F[k - 1] \o Rec(s, b, k) /\ G[k] = G[k - 1] \o Rec(r, b, k)
    BY <1>1, <2>1
  <2>5. F[k] = G[k]
    BY <2>2, <2>3, <2>4
  <2> QED BY <2>5 DEF k
<1>4. n - i \in S
  <2> HIDE DEF S
  <2> QED BY <1>2, <1>3, Induct
<1>5. i + (n - i) = n /\ n \in Nat
  OBVIOUS
<1>6. F[n] = G[n]
  BY <1>4, <1>5
<1> QED BY <1>6 DEF F, G

LEMMA EncEqual ==
    ASSUME NEW s, NEW r, NEW b, NEW i \in Nat, NEW n \in Nat, i <= n,
           \A k \in (i + 1)..n : s[k] = r[k]
    PROVE  Enc(s, b, i, n) = Enc(r, b, i, n)
BY EncAgree, EncIsFcn

LEMMA EncNext ==
    ASSUME NEW s, NEW b, NEW i \in Nat
    PROVE  /\ Enc(s, b, i, i) = <<>>
           /\ \A n \in Nat : i < n => Enc(s, b, i, n) = Enc(s, b, i, n - 1) \o Rec(s, b, n)
<1>1. Enc(s, b, i, i) = <<>>
  <2>1. i \in i..i /\ i <= i
    OBVIOUS
  <2>2. EncFcn(s, b, i, i)[i] = IF i = i THEN <<>> ELSE EncFcn(s, b, i, i)[i - 1] \o Rec(s, b, i)
    BY <2>1, EncDefined
  <2> QED BY <2>2, EncIsFcn
<1>2. ASSUME NEW n \in Nat, i < n PROVE Enc(s, b, i, n) = Enc(s, b, i, n - 1) \o Rec(s, b, n)
  <2>1. n \in i..n /\ n # i /\ n - 1 \in Nat /\ i <= n - 1 /\ i <= n
    BY <1>2
  <2>2. EncFcn(s, b, i, n)[n] = EncFcn(s, b, i, n)[n - 1] \o Rec(s, b, n)
    BY <2>1, EncDefined
  <2>3. EncFcn(s, b, i, n)[n - 1] = EncFcn(s, b, i, n - 1)[n - 1]
    BY <2>1, EncAgree
  <2> QED BY <2>2, <2>3, EncIsFcn
<1> QED BY <1>1, <1>2

(* A frame takes the cells of the header at least.                          *)
LEMMA FrameType ==
    ASSUME NEW p \in Payloads
    PROVE  /\ Frame(p) \in Nat /\ Frame(p) >= HeaderCells /\ HeaderCells = 3
           /\ \A m \in Nat : Length[p] <= m /\ ValidConfig(m) => Frame(p) <= SegmentCells
<1>1. Length[p] \in Nat /\ SegmentCells \in Nat
  BY SegmentAssumption
<1> QED BY <1>1 DEF Frame, HeaderCells, ValidConfig

Pieces == {Zero} \cup {<<l, p, k>> : l \in Nat, p \in Payloads, k \in Nat}

LEMMA RecType ==
    ASSUME NEW s \in Seq(Payloads), NEW b \in Nat \ {0}, NEW n \in 1..Len(s)
    PROVE  /\ Rec(s, b, n) \in Seq(Pieces) /\ Len(Rec(s, b, n)) = Frame(s[n])
           /\ s[n] \in Payloads
           /\ \A k \in 1..Frame(s[n]) : Rec(s, b, n)[k] = Piece(b + n - 1, s[n], k - 1)
<1>1. s[n] \in Payloads /\ Frame(s[n]) \in Nat
  BY FrameType
<1>2. \A k \in 1..Frame(s[n]) : Piece(b + n - 1, s[n], k - 1) \in Pieces
  <2> TAKE k \in 1..Frame(s[n])
  <2>1. b + n - 1 \in Nat /\ k - 1 \in Nat
    BY <1>1
  <2> QED BY <1>1, <2>1 DEF Piece, Pieces
<1> HIDE DEF Pieces
<1>3. Rec(s, b, n) \in [1..Frame(s[n]) -> Pieces]
  BY <1>2 DEF Rec
<1>4. Rec(s, b, n) \in Seq(Pieces) /\ Len(Rec(s, b, n)) = Frame(s[n])
  BY <1>1, <1>3
<1> QED BY <1>1, <1>4 DEF Rec

LEMMA EncType ==
    ASSUME NEW s \in Seq(Payloads), NEW b \in Nat \ {0}, NEW i \in Nat, NEW n \in Nat,
           i <= n, n <= Len(s)
    PROVE  Enc(s, b, i, n) \in Seq(Pieces)
<1> DEFINE S == {d \in Nat : i + d <= n => Enc(s, b, i, i + d) \in Seq(Pieces)}
<1>1. 0 \in S
  <2>1. i + 0 = i
    OBVIOUS
  <2>2. Enc(s, b, i, i) = <<>> /\ <<>> \in Seq(Pieces)
    BY EncNext
  <2> QED BY <2>1, <2>2
<1>2. ASSUME NEW d \in Nat, d \in S PROVE d + 1 \in S
  <2> SUFFICES ASSUME i + (d + 1) <= n PROVE Enc(s, b, i, i + (d + 1)) \in Seq(Pieces)
    OBVIOUS
  <2> DEFINE k == i + (d + 1)
  <2>1. k \in Nat /\ i < k /\ k - 1 = i + d /\ i + d <= n /\ k \in 1..Len(s)
    OBVIOUS
  <2>2. Enc(s, b, i, k - 1) \in Seq(Pieces)
    BY <1>2, <2>1
  <2> HIDE DEF k
  <2>3. Enc(s, b, i, k) = Enc(s, b, i, k - 1) \o Rec(s, b, k)
    BY <2>1, EncNext
  <2>4. Rec(s, b, k) \in Seq(Pieces)
    BY <2>1, RecType
  <2>5. Enc(s, b, i, k) \in Seq(Pieces)
    BY <2>2, <2>3, <2>4, ConcatProperties
  <2> QED BY <2>5 DEF k
<1>3. n - i \in S
  <2> HIDE DEF S
  <2> QED BY <1>1, <1>2, Induct
<1>4. i + (n - i) = n
  OBVIOUS
<1> QED BY <1>3, <1>4

(* Two encodings one after the other are one.                               *)
LEMMA EncCat ==
    ASSUME NEW s \in Seq(Payloads), NEW b \in Nat \ {0}, NEW i \in Nat, NEW j \in Nat,
           NEW n \in Nat, i <= j, j <= n, n <= Len(s)
    PROVE  Enc(s, b, i, n) = Enc(s, b, i, j) \o Enc(s, b, j, n)
<1> DEFINE P(k) == Enc(s, b, i, k) = Enc(s, b, i, j) \o Enc(s, b, j, k)
           S == {d \in Nat : j + d <= n => P(j + d)}
<1>0. Enc(s, b, i, j) \in Seq(Pieces)
  BY EncType
<1>1. 0 \in S
  <2>1. j + 0 = j
    OBVIOUS
  <2>2. P(j)
    BY <1>0, EncNext, ConcatEmptySeq
  <2> QED BY <2>1, <2>2
<1>2. ASSUME NEW d \in Nat, d \in S PROVE d + 1 \in S
  <2> SUFFICES ASSUME j + (d + 1) <= n PROVE P(j + (d + 1))
    OBVIOUS
  <2> DEFINE k == j + (d + 1)
  <2>1. /\ k \in Nat /\ i < k /\ j < k /\ k - 1 = j + d /\ j + d <= n /\ k \in 1..Len(s)
        /\ k - 1 \in Nat /\ j <= k - 1 /\ k - 1 <= Len(s)
    OBVIOUS
  <2>2. P(k - 1)
    BY <1>2, <2>1
  <2> HIDE DEF k
  <2>3. /\ Enc(s, b, i, k) = Enc(s, b, i, k - 1) \o Rec(s, b, k)
        /\ Enc(s, b, j, k) = Enc(s, b, j, k - 1) \o Rec(s, b, k)
    <3>1. Enc(s, b, i, k) = Enc(s, b, i, k - 1) \o Rec(s, b, k)
      BY <2>1, EncNext
    <3>2. Enc(s, b, j, k) = Enc(s, b, j, k - 1) \o Rec(s, b, k)
      BY <2>1, EncNext
    <3> QED BY <3>1, <3>2
  <2>4. Enc(s, b, j, k - 1) \in Seq(Pieces) /\ Rec(s, b, k) \in Seq(Pieces)
    BY <2>1, EncType, RecType
  <2>5. (Enc(s, b, i, j) \o Enc(s, b, j, k - 1)) \o Rec(s, b, k)
          = Enc(s, b, i, j) \o (Enc(s, b, j, k - 1) \o Rec(s, b, k))
    <3> DEFINE x == Enc(s, b, i, j)
               y == Enc(s, b, j, k - 1)
               z == Rec(s, b, k)
    <3>1. x \in Seq(Pieces) /\ y \in Seq(Pieces) /\ z \in Seq(Pieces)
      BY <1>0, <2>4
    <3> HIDE DEF x, y, z
    <3>2. (x \o y) \o z = x \o (y \o z)
      BY <3>1, ConcatAssociative
    <3> QED BY <3>2 DEF x, y, z
  <2>6. P(k)
    BY <2>2, <2>3, <2>5
  <2> QED BY <2>6 DEF k
<1>3. n - j \in S
  <2> HIDE DEF S
  <2> QED BY <1>1, <1>2, Induct
<1>4. j + (n - j) = n
  OBVIOUS
<1> QED BY <1>3, <1>4

-----------------------------------------------------------------------------
(* Where the first n records of s end.                                      *)
Pos(s, b, n) == Len(Enc(s, b, 0, n))

(* The encoding of fewer records is the beginning of that of more.          *)
LEMMA EncPrefix ==
    ASSUME NEW s \in Seq(Payloads), NEW b \in Nat \ {0}, NEW i \in Nat, NEW j \in Nat,
           i <= j, j <= Len(s)
    PROVE  /\ Pos(s, b, i) \in Nat /\ Pos(s, b, j) \in Nat /\ Len(Enc(s, b, i, j)) \in Nat
           /\ Pos(s, b, j) = Pos(s, b, i) + Len(Enc(s, b, i, j))
           /\ \A c \in 1..Pos(s, b, i) : Enc(s, b, 0, j)[c] = Enc(s, b, 0, i)[c]
           /\ \A c \in 1..Len(Enc(s, b, i, j)) :
                 Enc(s, b, 0, j)[Pos(s, b, i) + c] = Enc(s, b, i, j)[c]
<1> DEFINE x == Enc(s, b, 0, i)
           y == Enc(s, b, i, j)
           z == Enc(s, b, 0, j)
<1>1. i <= Len(s) /\ 0 <= i /\ 0 <= j /\ 0 \in Nat
  OBVIOUS
<1>2. x \in Seq(Pieces) /\ y \in Seq(Pieces) /\ z \in Seq(Pieces)
  BY <1>1, EncType
<1>3. z = x \o y
  BY <1>1, EncCat
<1> HIDE DEF x, y, z
<1>4. /\ Len(x) \in Nat /\ Len(y) \in Nat /\ Len(z) = Len(x) + Len(y)
      /\ \A c \in 1..(Len(x) + Len(y)) : z[c] = IF c <= Len(x) THEN x[c] ELSE y[c - Len(x)]
  BY <1>2, <1>3, ConcatProperties, LenProperties
<1>5. \A c \in 1..Len(x) : z[c] = x[c]
  BY <1>4
<1>6. \A c \in 1..Len(y) : z[Len(x) + c] = y[c]
  <2> TAKE c \in 1..Len(y)
  <2>1. Len(x) + c \in 1..(Len(x) + Len(y)) /\ ~(Len(x) + c <= Len(x)) /\ Len(x) + c - Len(x) = c
    BY <1>4
  <2> QED BY <1>4, <2>1
<1> QED BY <1>4, <1>5, <1>6 DEF Pos, x, y, z

(* Record n begins where n-1 records end.                                   *)
LEMMA EncPlace ==
    ASSUME NEW s \in Seq(Payloads), NEW b \in Nat \ {0}, NEW j \in Nat, j <= Len(s),
           NEW n \in 1..j
    PROVE  /\ Pos(s, b, n - 1) \in Nat /\ s[n] \in Payloads
           /\ Pos(s, b, n) = Pos(s, b, n - 1) + Frame(s[n])
           /\ \A k \in 0..(Frame(s[n]) - 1) :
                 Enc(s, b, 0, j)[Pos(s, b, n - 1) + k + 1] = Piece(b + n - 1, s[n], k)
<1>1. /\ n \in Nat /\ n - 1 \in Nat /\ n - 1 <= n /\ n <= j /\ n <= Len(s) /\ n \in 1..Len(s)
      /\ n - 1 < n
  OBVIOUS
<1>2. Rec(s, b, n) \in Seq(Pieces) /\ Len(Rec(s, b, n)) = Frame(s[n]) /\ s[n] \in Payloads
  BY <1>1, RecType
<1>3. Enc(s, b, n - 1, n) = Rec(s, b, n)
  <2>1. Enc(s, b, n - 1, n) = Enc(s, b, n - 1, n - 1) \o Rec(s, b, n)
    BY <1>1, EncNext
  <2>2. Enc(s, b, n - 1, n - 1) = <<>>
    BY <1>1, EncNext
  <2> QED BY <1>2, <2>1, <2>2, ConcatEmptySeq
<1>4. /\ Pos(s, b, n - 1) \in Nat /\ Pos(s, b, n) = Pos(s, b, n - 1) + Frame(s[n])
      /\ \A c \in 1..Frame(s[n]) : Enc(s, b, 0, n)[Pos(s, b, n - 1) + c] = Rec(s, b, n)[c]
  <2> DEFINE m == n - 1
  <2>1. m \in Nat /\ n \in Nat /\ m <= n /\ n <= Len(s)
    BY <1>1
  <2> HIDE DEF m
  <2>2. /\ Pos(s, b, m) \in Nat /\ Pos(s, b, n) = Pos(s, b, m) + Len(Enc(s, b, m, n))
        /\ \A c \in 1..Len(Enc(s, b, m, n)) :
              Enc(s, b, 0, n)[Pos(s, b, m) + c] = Enc(s, b, m, n)[c]
    BY <2>1, EncPrefix
  <2> QED BY <1>2, <1>3, <2>2 DEF m
<1>5. \A c \in 1..Pos(s, b, n) : Enc(s, b, 0, j)[c] = Enc(s, b, 0, n)[c]
  <2>1. n \in Nat /\ n <= j /\ j <= Len(s)
    BY <1>1
  <2> QED BY <2>1, EncPrefix
<1>6. Frame(s[n]) \in Nat
  BY <1>2, FrameType
<1>7. ASSUME NEW k \in 0..(Frame(s[n]) - 1)
      PROVE  Enc(s, b, 0, j)[Pos(s, b, n - 1) + k + 1] = Piece(b + n - 1, s[n], k)
  <2>1. k + 1 \in 1..Frame(s[n]) /\ (k + 1) - 1 = k
    BY <1>6
  <2>2. Pos(s, b, n - 1) + (k + 1) \in 1..Pos(s, b, n)
    BY <1>4, <1>6
  <2>3. Enc(s, b, 0, j)[Pos(s, b, n - 1) + (k + 1)] = Rec(s, b, n)[k + 1]
    BY <1>4, <1>5, <2>1, <2>2
  <2>4. Rec(s, b, n)[k + 1] = Piece(b + n - 1, s[n], k)
    BY <2>1 DEF Rec
  <2>5. Pos(s, b, n - 1) + (k + 1) = Pos(s, b, n - 1) + k + 1
    BY <1>4
  <2> QED BY <2>3, <2>4, <2>5
<1> QED BY <1>2, <1>4, <1>7

LEMMA EncStart == ASSUME NEW s, NEW b PROVE Pos(s, b, 0) = 0
BY EncNext DEF Pos

(* Ends grow with the records, by a header at least.                        *)
LEMMA PosGrows ==
    ASSUME NEW s \in Seq(Payloads), NEW b \in Nat \ {0}, NEW i \in Nat, NEW j \in Nat,
           i <= j, j <= Len(s)
    PROVE  /\ Pos(s, b, i) \in Nat /\ Pos(s, b, j) \in Nat /\ Pos(s, b, i) <= Pos(s, b, j)
           /\ i < j => Pos(s, b, i) + HeaderCells <= Pos(s, b, j)
<1>1. /\ Pos(s, b, i) \in Nat /\ Pos(s, b, j) \in Nat /\ Pos(s, b, i) <= Pos(s, b, j)
  BY EncPrefix
<1>2. ASSUME i < j PROVE Pos(s, b, i) + HeaderCells <= Pos(s, b, j)
  <2>1. i + 1 \in 1..j /\ i + 1 <= j /\ (i + 1) - 1 = i /\ i + 1 \in Nat
    BY <1>2
  <2>2. Pos(s, b, i + 1) = Pos(s, b, i) + Frame(s[i + 1]) /\ s[i + 1] \in Payloads
    BY <2>1, EncPlace
  <2>3. Pos(s, b, i + 1) \in Nat /\ Pos(s, b, i + 1) <= Pos(s, b, j)
    BY <2>1, EncPrefix
  <2> QED BY <1>1, <2>2, <2>3, FrameType
<1> QED BY <1>1, <1>2

(* Every cell of an encoding belongs to a record.                           *)
LEMMA EncWhere ==
    ASSUME NEW s \in Seq(Payloads), NEW b \in Nat \ {0}, NEW j \in Nat, j <= Len(s),
           NEW c \in 0..(Pos(s, b, j) - 1)
    PROVE  \E n \in 1..j : \E k \in 0..(Frame(s[n]) - 1) :
             /\ c = Pos(s, b, n - 1) + k
             /\ Enc(s, b, 0, j)[c + 1] = Piece(b + n - 1, s[n], k)
<1> DEFINE S == {n \in Nat : n <= j => Pos(s, b, n) <= c}
<1>1. 0 \in S
  BY EncStart
<1>2. ~(j \in S)
  <2>1. Pos(s, b, j) \in Nat
    BY PosGrows
  <2> QED BY <2>1
<1>3. PICK n \in Nat : n \in S /\ n + 1 \notin S
  <2> HIDE DEF S
  <2> QED BY <1>1, <1>2, Induct
<1>4. n + 1 \in 1..j /\ n + 1 <= j /\ n <= j /\ (n + 1) - 1 = n
  BY <1>3
<1>5. Pos(s, b, n) <= c /\ ~(Pos(s, b, n + 1) <= c)
  BY <1>3, <1>4
<1>6. /\ Pos(s, b, n) \in Nat /\ s[n + 1] \in Payloads
      /\ Pos(s, b, n + 1) = Pos(s, b, n) + Frame(s[n + 1])
      /\ \A k \in 0..(Frame(s[n + 1]) - 1) :
            Enc(s, b, 0, j)[Pos(s, b, n) + k + 1] = Piece(b + (n + 1) - 1, s[n + 1], k)
  BY <1>4, EncPlace
<1>7. c - Pos(s, b, n) \in 0..(Frame(s[n + 1]) - 1) /\ c \in Nat
  BY <1>5, <1>6, FrameType
<1>8. Pos(s, b, n) + (c - Pos(s, b, n)) + 1 = c + 1 /\ c = Pos(s, b, n) + (c - Pos(s, b, n))
  BY <1>6, <1>7
<1> QED BY <1>4, <1>6, <1>7, <1>8

-----------------------------------------------------------------------------
(* f begins with the first n records of s.                                  *)
Begins(f, s, b, n) ==
    /\ Pos(s, b, n) <= SegmentCells
    /\ \A c \in 0..(Pos(s, b, n) - 1) : f.cells[c] = Enc(s, b, 0, n)[c + 1]

ZeroFrom(f, t) == \A c \in t..(SegmentCells - 1) : f.cells[c] = Zero

SegType ==
    /\ cache \in File /\ disk \in File
    /\ pc \in {"closed", "scan", "zero", "idle", "commit", "sync", "failed"}
    /\ max \in Nat /\ (pc # "closed" => max \in Limits)
    /\ offset \in 0..SegmentCells /\ cursor \in 0..SegmentCells
    /\ found \in Seq(Payloads) /\ Len(found) <= Capacity
    /\ log \in Seq(Payloads) /\ Len(log) <= Capacity
    /\ \A i \in 1..Len(log) : Length[log[i]] <= max
    /\ durable \in Nat /\ sealed \in Nat /\ acked \in Nat /\ cuts \in Nat
    /\ poisoned \in BOOLEAN /\ (poisoned => pc = "idle")
    /\ env \in Settings

(* What recovery has accepted, and what the handle believes, is in the file.*)
Serving == pc \in {"idle", "commit", "sync"} /\ ~poisoned

Handle ==
    /\ pc \in Recovering =>
         /\ offset = Pos(found, env.base, Len(found)) /\ Begins(cache, found, env.base, Len(found))
         /\ \A i \in 1..Len(found) : Length[found[i]] <= max
    /\ pc = "zero" => offset <= cursor
    /\ Serving =>
         /\ durable <= Len(log)
         /\ offset = Pos(log, env.base, durable) /\ Begins(cache, log, env.base, durable)
    /\ pc = "sync" =>
         /\ Prefix > durable /\ Begins(cache, log, env.base, Prefix)
         /\ Pos(log, env.base, Prefix) <= cache.size

(* What was acknowledged is in the file, on the device too, and no scan     *)
(* stops in front of its end.                                               *)
Kept ==
    /\ acked <= Len(log)
    /\ \A f \in {cache, disk} : Begins(f, log, env.base, acked) /\ Pos(log, env.base, acked) <= f.size
    /\ pc \in Recovering => \A i \in 1..acked : i <= Len(found) => found[i] = log[i]
    /\ pc = "zero" => acked <= Len(found)
    /\ pc \in {"idle", "commit", "sync"} => acked <= durable /\ durable <= Len(log)

CoreInv == SegType /\ Handle /\ Kept

(* With pages that persist in order: the file is the encoding of the log,   *)
(* cut off somewhere, and zeros.                                            *)
Shape(f, s, b, t) ==
    /\ \E k \in 0..Len(s) :
          /\ t <= Pos(s, b, k) /\ Pos(s, b, k) <= SegmentCells
          /\ \A c \in 0..(t - 1) : f.cells[c] = Enc(s, b, 0, k)[c + 1]
    /\ ZeroFrom(f, t)

Shaped(f, s, b) == \E t \in 0..SegmentCells : Shape(f, s, b, t)

Ready == pc \in {"idle", "commit"} /\ ~poisoned

Tidy ==
    /\ Shaped(cache, log, env.base) /\ (env.powerLoss => Shaped(disk, log, env.base))
    /\ env.powerLoss /\ (pc = "scan" \/ Ready) => cache = disk
    /\ pc \in Recovering =>
         Len(found) <= Len(log) /\ \A i \in 1..Len(found) : found[i] = log[i]
    /\ pc = "zero" => /\ cursor \in {offset, SegmentCells}
                      /\ cursor = SegmentCells => ZeroFrom(cache, offset)
    /\ Ready => ZeroFrom(cache, offset)
    /\ pc = "sync" => ZeroFrom(cache, Pos(log, env.base, Prefix))
    /\ pc = "failed" => sealed > 0

SealedWhole ==
    /\ sealed = Len(log) /\ Begins(cache, log, env.base, sealed)
    /\ ZeroFrom(cache, Pos(log, env.base, sealed))
    /\ env.powerLoss => cache = disk
    /\ pc # "failed"

OrderInv ==
    /\ sealed > 0 => pc \in {"closed", "scan", "failed"}
    /\ cuts = 0 => cache.size = SegmentCells /\ disk.size = SegmentCells
    /\ InOrderWrites => Tidy
    /\ InOrderWrites /\ Intact /\ sealed > 0 => SealedWhole

-----------------------------------------------------------------------------
(* Reading a file.                                                          *)

LEMMA BaseType ==
    ASSUME env \in Settings
    PROVE  /\ env.base \in Nat \ {0} /\ env.base \in 1..MaxLsn /\ MaxLsn \in Nat
           /\ env.powerLoss \in BOOLEAN /\ env.anyOrder \in BOOLEAN
           /\ env.zeroStep \in 1..SegmentCells /\ env.maxCuts \in Nat
           /\ SegmentCells \in Nat \ {0}
BY SegmentAssumption, SettingsAssumption

(* Records that agree have the same encoding.                               *)
LEMMA BeginsEqual ==
    ASSUME NEW b, NEW s, NEW r, NEW n \in Nat, \A i \in 1..n : s[i] = r[i]
    PROVE  /\ Pos(s, b, n) = Pos(r, b, n)
           /\ Enc(s, b, 0, n) = Enc(r, b, 0, n)
           /\ \A f : Begins(f, s, b, n) <=> Begins(f, r, b, n)
<1>1. Enc(s, b, 0, n) = Enc(r, b, 0, n)
  <2>1. \A k \in (0 + 1)..n : s[k] = r[k]
    OBVIOUS
  <2>2. 0 <= n /\ 0 \in Nat
    OBVIOUS
  <2> QED BY <2>1, <2>2, EncEqual
<1> QED BY <1>1 DEF Begins, Pos

(* A file that begins with n records begins with fewer.                     *)
LEMMA BeginsLess ==
    ASSUME NEW b \in Nat \ {0}, NEW s \in Seq(Payloads), NEW n \in Nat, n <= Len(s),
           NEW i \in Nat, i <= n, NEW f, Begins(f, s, b, n)
    PROVE  Begins(f, s, b, i)
<1>1. /\ Pos(s, b, i) \in Nat /\ Pos(s, b, n) \in Nat
      /\ Pos(s, b, i) <= Pos(s, b, n)
  BY PosGrows
<1>2. \A c \in 1..Pos(s, b, i) : Enc(s, b, 0, n)[c] = Enc(s, b, 0, i)[c]
  BY EncPrefix
<1>3. ASSUME NEW c \in 0..(Pos(s, b, i) - 1)
      PROVE  f.cells[c] = Enc(s, b, 0, i)[c + 1]
  <2>1. c \in 0..(Pos(s, b, n) - 1) /\ c + 1 \in 1..Pos(s, b, i)
    BY <1>1
  <2> QED BY <1>2, <2>1 DEF Begins
<1>4. Pos(s, b, i) <= SegmentCells
  BY <1>1, SegmentAssumption DEF Begins
<1> QED BY <1>3, <1>4 DEF Begins

(* The cells of record n, where it is in the file.                          *)
RecordIn(f, s, b, n) ==
    \A k \in 0..(Frame(s[n]) - 1) :
        f.cells[Pos(s, b, n - 1) + k] = Piece(b + n - 1, s[n], k)

LEMMA BeginsHas ==
    ASSUME NEW b \in Nat \ {0}, NEW s \in Seq(Payloads), NEW j \in Nat, j <= Len(s),
           NEW f, Begins(f, s, b, j), NEW n \in 1..j
    PROVE  RecordIn(f, s, b, n)
<1> SUFFICES ASSUME NEW k \in 0..(Frame(s[n]) - 1)
             PROVE  f.cells[Pos(s, b, n - 1) + k] = Piece(b + n - 1, s[n], k)
  BY DEF RecordIn
<1>1. /\ Pos(s, b, n - 1) \in Nat /\ s[n] \in Payloads
      /\ Pos(s, b, n) = Pos(s, b, n - 1) + Frame(s[n])
      /\ Enc(s, b, 0, j)[Pos(s, b, n - 1) + k + 1] = Piece(b + n - 1, s[n], k)
  BY EncPlace
<1>2. Pos(s, b, n) <= Pos(s, b, j) /\ Pos(s, b, j) \in Nat
  <2>1. n \in Nat /\ n <= j
    OBVIOUS
  <2> QED BY <2>1, PosGrows
<1>3. Pos(s, b, n - 1) + k \in 0..(Pos(s, b, j) - 1)
  <2>1. Frame(s[n]) \in Nat
    BY <1>1, FrameType
  <2> QED BY <1>1, <1>2, <2>1
<1> QED BY <1>1, <1>3 DEF Begins

(* The header of an encoding is not zero.                                   *)
LEMMA PieceStarts ==
    ASSUME NEW l, NEW p
    PROVE  Piece(l, p, 0) = <<l, p, 0>> /\ Piece(l, p, 0) # Zero /\ Starts(Piece(l, p, 0))
           /\ \A k \in 1..2 : ~Starts(Piece(l, p, k))
           /\ Piece(l, p, 0)[1] = l /\ Piece(l, p, 0)[2] = p
<1>1. Piece(l, p, 0) = <<l, p, 0>>
  BY DEF Piece, HeaderCells
<1>2. Len(<<l, p, 0>>) = 3 /\ Len(Zero) = 1 /\ <<l, p, 0>>[3] = 0
      /\ <<l, p, 0>>[1] = l /\ <<l, p, 0>>[2] = p
  BY DEF Zero
<1>3. \A k \in 1..2 : Piece(l, p, k) = <<l, p, k>> /\ <<l, p, k>>[3] # 0
  BY DEF Piece, HeaderCells
<1> QED BY <1>1, <1>2, <1>3 DEF Starts

LEMMA PieceGoesOn ==
    ASSUME NEW l, NEW p, NEW k \in Nat \ {0} PROVE ~Starts(Piece(l, p, k))
<1>1. Piece(l, p, k) = Zero \/ Piece(l, p, k) = <<l, p, k>>
  BY DEF Piece
<1>2. Len(Zero) = 1
  BY DEF Zero
<1>3. <<l, p, k>>[3] = k
  OBVIOUS
<1> QED BY <1>1, <1>2, <1>3 DEF Starts

(* A record that is in the file is read.                                    *)
LEMMA Decodes ==
    ASSUME NEW b \in Nat \ {0}, NEW s \in Seq(Payloads), NEW n \in 1..Len(s), NEW f \in File,
           RecordIn(f, s, b, n), Pos(s, b, n) <= SegmentCells, Pos(s, b, n) <= f.size,
           NEW m, Length[s[n]] <= m
    PROVE  LET o == Pos(s, b, n - 1) IN
           /\ RecordAt(f, o, m) /\ ~CleanEnd(f, o)
           /\ f.cells[o][1] = b + n - 1 /\ f.cells[o][2] = s[n]
<1> DEFINE o == Pos(s, b, n - 1)
           l == b + n - 1
<1>1. /\ o \in Nat /\ s[n] \in Payloads /\ Pos(s, b, n) = o + Frame(s[n])
      /\ Frame(s[n]) \in Nat /\ Frame(s[n]) >= 3 /\ HeaderCells = 3
  <2>1. Len(s) \in Nat /\ Len(s) <= Len(s)
    OBVIOUS
  <2>2. o \in Nat /\ s[n] \in Payloads /\ Pos(s, b, n) = o + Frame(s[n])
    BY <2>1, EncPlace
  <2> HIDE DEF o
  <2> QED BY <2>2, FrameType
<1>2. \A k \in 0..(Frame(s[n]) - 1) : f.cells[o + k] = Piece(l, s[n], k)
  BY DEF RecordIn
<1> HIDE DEF o, l
<1>3. f.cells[o] = <<l, s[n], 0>> /\ f.cells[o] # Zero
  <2>1. 0 \in 0..(Frame(s[n]) - 1) /\ o + 0 = o
    BY <1>1
  <2> QED BY <1>2, <2>1, PieceStarts
<1>4. f.cells[o][1] = l /\ f.cells[o][2] = s[n] /\ Starts(f.cells[o])
  BY <1>3 DEF Starts
<1>5. f.size \in Nat /\ SegmentCells \in Nat
  BY SegmentAssumption DEF File
<1>6. o < SegmentCells /\ o + Frame(s[n]) <= SegmentCells /\ o + Frame(s[n]) <= f.size
  BY <1>1, <1>5
<1>7. RecordAt(f, o, m)
  BY <1>2, <1>4, <1>6 DEF RecordAt
<1>8. ~(SegmentCells - o < HeaderCells)
  BY <1>1, <1>5, <1>6
<1>9. ~ZeroHeader(f, o)
  <2>1. 0 \in 0..(HeaderCells - 1) /\ o + 0 = o
    BY <1>1
  <2> QED BY <1>3, <2>1 DEF ZeroHeader
<1>10. ~CleanEnd(f, o)
  BY <1>8, <1>9 DEF CleanEnd
<1> QED BY <1>4, <1>7, <1>10 DEF o, l

(* A record that decodes has a payload and fits.                            *)
LEMMA DecodesTo ==
    ASSUME NEW f \in File, NEW o \in Nat, NEW m \in Nat, RecordAt(f, o, m)
    PROVE  LET p == f.cells[o][2] IN
           /\ p \in Payloads /\ f.cells[o][1] \in 1..MaxLsn /\ Length[p] <= m
           /\ o + Frame(p) <= SegmentCells /\ o + Frame(p) <= f.size
           /\ \A k \in 0..(Frame(p) - 1) : f.cells[o + k] = Piece(f.cells[o][1], p, k)
<1>1. o \in Cells /\ f.cells[o] \in Cell /\ Starts(f.cells[o])
  BY SegmentAssumption DEF RecordAt, File, Cells
<1>2. Len(Zero) = 1 /\ Len(Junk) = 1
  BY DEF Zero, Junk
<1>3. PICK l \in 1..MaxLsn, p \in Payloads, k \in Cells : f.cells[o] = <<l, p, k>>
  BY <1>1, <1>2 DEF Cell, Starts
<1>4. f.cells[o][1] = l /\ f.cells[o][2] = p
  BY <1>3
<1> QED BY <1>3, <1>4 DEF RecordAt

(* A file that begins with the records of s, and with one more behind them. *)
LEMMA BeginsMore ==
    ASSUME NEW b \in Nat \ {0}, NEW s \in Seq(Payloads), NEW p \in Payloads, NEW f,
           Begins(f, s, b, Len(s)), Pos(s, b, Len(s)) + Frame(p) <= SegmentCells,
           \A k \in 0..(Frame(p) - 1) :
               f.cells[Pos(s, b, Len(s)) + k] = Piece(b + Len(s), p, k)
    PROVE  /\ Pos(Append(s, p), b, Len(s) + 1) = Pos(s, b, Len(s)) + Frame(p)
           /\ Begins(f, Append(s, p), b, Len(s) + 1)
<1> DEFINE r == Append(s, p)
           n == Len(s) + 1
           q == Pos(s, b, Len(s))
<1>1. /\ n \in Nat \ {0} /\ n \in 1..n /\ n - 1 = Len(s) /\ n - 1 \in Nat /\ n - 1 <= n
      /\ r \in Seq(Payloads) /\ Len(r) = n /\ n <= Len(r) /\ r[n] = p
      /\ \A i \in 1..Len(s) : r[i] = s[i]
  OBVIOUS
<1>2. Len(s) \in Nat /\ b + n - 1 = b + Len(s)
  OBVIOUS
<1> HIDE DEF r, n
<1>3. Pos(r, b, n - 1) = q /\ Enc(r, b, 0, n - 1) = Enc(s, b, 0, Len(s)) /\ Begins(f, r, b, n - 1)
  <2> DEFINE m == Len(s)
  <2>1. m \in Nat /\ m = n - 1 /\ (\A i \in 1..m : r[i] = s[i]) /\ Begins(f, s, b, m)
    BY <1>1, <1>2
  <2>2. q = Pos(s, b, m) /\ Enc(s, b, 0, Len(s)) = Enc(s, b, 0, m)
    OBVIOUS
  <2> HIDE DEF m, q
  <2>3. Pos(r, b, m) = Pos(s, b, m) /\ Enc(r, b, 0, m) = Enc(s, b, 0, m)
    BY <2>1, BeginsEqual
  <2>4. Begins(f, r, b, m)
    BY <2>1, BeginsEqual
  <2> QED BY <2>1, <2>2, <2>3, <2>4
<1>4. /\ q \in Nat /\ Pos(r, b, n) = q + Frame(p)
      /\ \A k \in 0..(Frame(p) - 1) : Enc(r, b, 0, n)[q + k + 1] = Piece(b + n - 1, p, k)
  <2>1. r \in Seq(Payloads) /\ n \in Nat /\ n <= Len(r) /\ n \in 1..n
    BY <1>1
  <2>2. /\ Pos(r, b, n - 1) \in Nat /\ Pos(r, b, n) = Pos(r, b, n - 1) + Frame(r[n])
        /\ \A k \in 0..(Frame(r[n]) - 1) :
              Enc(r, b, 0, n)[Pos(r, b, n - 1) + k + 1] = Piece(b + n - 1, r[n], k)
    BY <2>1, EncPlace
  <2>3. r[n] = p
    BY <1>1
  <2> QED BY <1>3, <2>2, <2>3
<1>5. \A c \in 1..q : Enc(r, b, 0, n)[c] = Enc(r, b, 0, n - 1)[c]
  <2> DEFINE m == n - 1
  <2>1. r \in Seq(Payloads) /\ m \in Nat /\ m <= n /\ n <= Len(r) /\ n \in Nat
    BY <1>1
  <2> HIDE DEF m
  <2>2. /\ Pos(r, b, m) \in Nat
        /\ \A c \in 1..Pos(r, b, m) : Enc(r, b, 0, n)[c] = Enc(r, b, 0, m)[c]
    BY <2>1, EncPrefix
  <2> QED BY <1>3, <2>2 DEF m
<1>6. ASSUME NEW c \in 0..(Pos(r, b, n) - 1) PROVE f.cells[c] = Enc(r, b, 0, n)[c + 1]
  <2>1. Frame(p) \in Nat
    BY FrameType
  <2>2. CASE c < q
    <3>1. c \in 0..(q - 1) /\ c + 1 \in 1..q
      BY <1>4, <2>1, <2>2
    <3> QED BY <1>3, <1>5, <3>1 DEF Begins
  <2>3. CASE ~(c < q)
    <3> DEFINE k == c - q
    <3>1. k \in 0..(Frame(p) - 1) /\ q + k = c
      BY <1>4, <2>1, <2>3
    <3> HIDE DEF k
    <3>2. f.cells[q + k] = Piece(b + Len(s), p, k)
      BY <3>1
    <3>3. Enc(r, b, 0, n)[q + k + 1] = Piece(b + n - 1, p, k)
      BY <1>4, <3>1
    <3> QED BY <1>2, <3>1, <3>2, <3>3
  <2> QED BY <2>2, <2>3
<1>7. Pos(r, b, n) <= SegmentCells
  BY <1>4
<1> HIDE DEF q
<1>8. Begins(f, r, b, n)
  BY <1>6, <1>7 DEF Begins
<1> QED BY <1>4, <1>8 DEF r, n, q

-----------------------------------------------------------------------------
(* Writing a file.                                                          *)

(* As many records as there is room for.                                    *)
LEMMA Fits ==
    ASSUME NEW b \in Nat \ {0}, NEW s \in Seq(Payloads), NEW i \in Nat, i <= Len(s),
           NEW room \in Nat
    PROVE  \E n \in i..Len(s) :
             /\ Len(Enc(s, b, i, n)) <= room
             /\ n = Len(s) \/ Len(Enc(s, b, i, n + 1)) > room
<1> DEFINE S == {d \in Nat : i + d <= Len(s) /\ Len(Enc(s, b, i, i + d)) <= room}
<1>1. 0 \in S
  <2>1. i + 0 = i /\ Enc(s, b, i, i) = <<>>
    BY EncNext
  <2> QED BY <2>1
<1>2. Len(s) - i + 1 \in Nat /\ Len(s) - i + 1 \notin S
  OBVIOUS
<1>3. PICK d \in Nat : d \in S /\ d + 1 \notin S
  <2> HIDE DEF S
  <2> QED BY <1>1, <1>2, Induct
<1> DEFINE n == i + d
<1>4. n \in i..Len(s) /\ n \in Nat /\ i <= n /\ n <= Len(s) /\ Len(Enc(s, b, i, n)) <= room
  BY <1>3
<1>5. n = Len(s) \/ Len(Enc(s, b, i, n + 1)) > room
  <2> SUFFICES ASSUME n # Len(s) PROVE Len(Enc(s, b, i, n + 1)) > room
    OBVIOUS
  <2>1. i + (d + 1) = n + 1 /\ i + (d + 1) <= Len(s)
    BY <1>4
  <2>2. n + 1 \in Nat /\ i <= n + 1 /\ n + 1 <= Len(s)
    BY <1>4, <2>1
  <2>3. ~(Len(Enc(s, b, i, n + 1)) <= room)
    BY <1>3, <2>1
  <2> HIDE DEF n
  <2>4. Len(Enc(s, b, i, n + 1)) \in Nat
    <3> DEFINE m == n + 1
    <3>1. m \in Nat /\ i <= m /\ m <= Len(s)
      BY <2>2
    <3> HIDE DEF m
    <3>2. Enc(s, b, i, m) \in Seq(Pieces)
      BY <3>1, EncType
    <3> QED BY <3>2, LenProperties DEF m
  <2> QED BY <2>3, <2>4
<1> HIDE DEF n
<1> QED BY <1>4, <1>5

(* The encoding of records a log may hold fits the cells of a file.         *)
LEMMA EncCells ==
    ASSUME NEW b \in Nat \ {0}, NEW s \in Seq(Payloads), b + Len(s) <= MaxLsn + 1,
           NEW m \in Limits, \A k \in 1..Len(s) : Length[s[k]] <= m,
           NEW i \in Nat, NEW j \in Nat, i <= j, j <= Len(s)
    PROVE  Enc(s, b, i, j) \in Seq(Cell)
<1> DEFINE y == Enc(s, b, i, j)
<1>1. y \in Seq(Pieces) /\ Len(y) \in Nat
  BY EncType, LenProperties
<1>2. /\ Pos(s, b, i) \in Nat /\ Pos(s, b, j) = Pos(s, b, i) + Len(y)
      /\ \A c \in 1..Len(y) : Enc(s, b, 0, j)[Pos(s, b, i) + c] = y[c]
  BY EncPrefix
<1> HIDE DEF y
<1>3. ASSUME NEW c \in 1..Len(y) PROVE y[c] \in Cell
  <2> DEFINE d == Pos(s, b, i) + c - 1
  <2>1. d \in 0..(Pos(s, b, j) - 1) /\ d + 1 = Pos(s, b, i) + c
    BY <1>1, <1>2
  <2> HIDE DEF d
  <2>2. PICK n \in 1..j : \E k \in 0..(Frame(s[n]) - 1) :
               /\ d = Pos(s, b, n - 1) + k
               /\ Enc(s, b, 0, j)[d + 1] = Piece(b + n - 1, s[n], k)
    BY <2>1, EncWhere
  <2>3. PICK k \in 0..(Frame(s[n]) - 1) : Enc(s, b, 0, j)[d + 1] = Piece(b + n - 1, s[n], k)
    BY <2>2
  <2>4. n \in 1..Len(s) /\ s[n] \in Payloads /\ m \in Nat /\ ValidConfig(m) /\ Length[s[n]] <= m
    BY SegmentAssumption
  <2>5. Frame(s[n]) \in Nat /\ Frame(s[n]) <= SegmentCells
    BY <2>4, FrameType
  <2>6. k \in Cells /\ b + n - 1 \in 1..MaxLsn
    BY <2>4, <2>5, SegmentAssumption DEF Cells
  <2>7. Piece(b + n - 1, s[n], k) \in Cell
    BY <2>4, <2>6 DEF Piece, Cell
  <2> QED BY <1>2, <2>1, <2>3, <2>7
<1> HIDE DEF Pieces, Cell
<1>4. y \in [1..Len(y) -> Cell]
  BY <1>1, <1>3
<1> QED BY <1>1, <1>4 DEF y

LEMMA WriteFacts ==
    ASSUME NEW f \in File, NEW o \in 0..SegmentCells, NEW x \in Seq(Cell),
           o + Len(x) <= SegmentCells
    PROVE  /\ Write(f, o, x) \in File
           /\ f.size <= Write(f, o, x).size
           /\ x # <<>> => o + Len(x) <= Write(f, o, x).size
           /\ f.size = SegmentCells => Write(f, o, x).size = SegmentCells
           /\ \A c \in Cells : c < o => Write(f, o, x).cells[c] = f.cells[c]
           /\ \A c \in 1..Len(x) : Write(f, o, x).cells[o + c - 1] = x[c]
           /\ \A c \in Cells : c >= o + Len(x) => Write(f, o, x).cells[c] = f.cells[c]
<1> DEFINE g == [c \in Cells |-> IF c \in o..(o + Len(x) - 1) THEN x[c - o + 1] ELSE f.cells[c]]
           z == IF x = <<>> THEN f.size ELSE MaxOf(f.size, o + Len(x))
<1>0. SegmentCells \in Nat /\ Len(x) \in Nat /\ f.size \in 0..SegmentCells /\ f.cells \in [Cells -> Cell]
  BY SegmentAssumption DEF File
<1>1. /\ z \in 0..SegmentCells /\ f.size <= z /\ (x # <<>> => o + Len(x) <= z)
      /\ f.size = SegmentCells => z = SegmentCells
  BY <1>0 DEF MaxOf
<1> HIDE DEF Cell
<1>2. \A c \in 1..Len(x) : x[c] \in Cell
  OBVIOUS
<1>3. ASSUME NEW c \in Cells PROVE g[c] \in Cell
  <2>1. CASE c \in o..(o + Len(x) - 1)
    <3>1. c - o + 1 \in 1..Len(x) /\ g[c] = x[c - o + 1]
      BY <1>0, <2>1
    <3> HIDE DEF g
    <3> QED BY <1>2, <3>1
  <2>2. CASE c \notin o..(o + Len(x) - 1)
    BY <1>0, <2>2
  <2> QED BY <2>1, <2>2
<1>4. /\ \A c \in Cells : c < o => g[c] = f.cells[c]
      /\ \A c \in Cells : c >= o + Len(x) => g[c] = f.cells[c]
  BY <1>0
<1>5. ASSUME NEW c \in 1..Len(x) PROVE g[o + c - 1] = x[c]
  <2>1. o + c - 1 \in Cells /\ o + c - 1 \in o..(o + Len(x) - 1) /\ (o + c - 1) - o + 1 = c
    BY <1>0 DEF Cells
  <2> QED BY <2>1
<1>6. g \in [Cells -> Cell]
  <2>1. g = [c \in Cells |-> g[c]]
    OBVIOUS
  <2> HIDE DEF g
  <2> QED BY <1>3, <2>1
<1>7. Write(f, o, x) = [cells |-> g, size |-> z]
  BY DEF Write
<1> HIDE DEF g, z
<1> QED BY <1>1, <1>4, <1>5, <1>6, <1>7 DEF File

(* A file that is not changed in front of the end of n records keeps them.  *)
LEMMA BeginsKept ==
    ASSUME NEW b, NEW s, NEW n, Pos(s, b, n) \in Nat, NEW f, NEW g, Begins(f, s, b, n),
           \A c \in Cells : c < Pos(s, b, n) => g.cells[c] = f.cells[c]
    PROVE  Begins(g, s, b, n)
<1>1. ASSUME NEW c \in 0..(Pos(s, b, n) - 1) PROVE g.cells[c] = Enc(s, b, 0, n)[c + 1]
  <2>1. c \in Cells /\ c < Pos(s, b, n)
    BY SegmentAssumption DEF Begins, Cells
  <2> QED BY <2>1 DEF Begins
<1> QED BY <1>1 DEF Begins

(* The beginning of the encoding of records i+1..j, written behind i records.*)
LEMMA WriteRecords ==
    ASSUME NEW b \in Nat \ {0}, NEW s \in Seq(Payloads), NEW i \in Nat, NEW j \in Nat,
           i <= j, j <= Len(s), Pos(s, b, j) <= SegmentCells,
           NEW f \in File, Begins(f, s, b, i), NEW x \in Seq(Cell),
           Len(x) <= Len(Enc(s, b, i, j)), \A c \in 1..Len(x) : x[c] = Enc(s, b, i, j)[c]
    PROVE  LET o == Pos(s, b, i)
               g == Write(f, o, x)
           IN  /\ o \in 0..SegmentCells /\ o + Len(x) <= SegmentCells
               /\ g \in File /\ f.size <= g.size
               /\ x # <<>> => o + Len(x) <= g.size
               /\ f.size = SegmentCells => g.size = SegmentCells
               /\ \A c \in Cells : c < o => g.cells[c] = f.cells[c]
               /\ \A c \in Cells : c >= o + Len(x) => g.cells[c] = f.cells[c]
               /\ \A c \in 0..(o + Len(x) - 1) : g.cells[c] = Enc(s, b, 0, j)[c + 1]
<1> DEFINE o == Pos(s, b, i)
           g == Write(f, o, x)
           y == Enc(s, b, i, j)
<1>1. /\ o \in Nat /\ Pos(s, b, j) = o + Len(y) /\ Len(y) \in Nat /\ Len(x) \in Nat
      /\ \A c \in 1..o : Enc(s, b, 0, j)[c] = Enc(s, b, 0, i)[c]
      /\ \A c \in 1..Len(y) : Enc(s, b, 0, j)[o + c] = y[c]
  BY EncPrefix, LenProperties
<1>2. \A c \in 0..(o - 1) : f.cells[c] = Enc(s, b, 0, i)[c + 1]
  BY DEF Begins
<1>3. Len(x) <= Len(y) /\ \A c \in 1..Len(x) : x[c] = y[c]
  OBVIOUS
<1>4. Pos(s, b, j) <= SegmentCells
  OBVIOUS
<1> HIDE DEF o, y
<1>5. o \in 0..SegmentCells /\ o + Len(x) <= SegmentCells
  BY <1>1, <1>3, <1>4, SegmentAssumption
<1>6. /\ g \in File /\ f.size <= g.size
      /\ x # <<>> => o + Len(x) <= g.size
      /\ f.size = SegmentCells => g.size = SegmentCells
      /\ \A c \in Cells : c < o => g.cells[c] = f.cells[c]
      /\ \A c \in 1..Len(x) : g.cells[o + c - 1] = x[c]
      /\ \A c \in Cells : c >= o + Len(x) => g.cells[c] = f.cells[c]
  BY <1>5, WriteFacts
<1> HIDE DEF g
<1>7. ASSUME NEW c \in 0..(o + Len(x) - 1) PROVE g.cells[c] = Enc(s, b, 0, j)[c + 1]
  <2>1. CASE c < o
    <3>1. c \in 0..(o - 1) /\ c + 1 \in 1..o /\ c \in Cells
      BY <1>1, <1>5, <2>1, SegmentAssumption DEF Cells
    <3> QED BY <1>1, <1>2, <1>6, <2>1, <3>1
  <2>2. CASE ~(c < o)
    <3> DEFINE k == c - o + 1
    <3>1. k \in 1..Len(x) /\ k \in 1..Len(y) /\ o + k - 1 = c /\ o + k = c + 1
      BY <1>1, <1>3, <2>2
    <3> HIDE DEF k
    <3>2. g.cells[o + k - 1] = x[k] /\ x[k] = y[k] /\ Enc(s, b, 0, j)[o + k] = y[k]
      BY <1>1, <1>3, <1>6, <3>1
    <3> QED BY <3>1, <3>2
  <2> QED BY <2>1, <2>2
<1> QED BY <1>5, <1>6, <1>7 DEF o, g

(* What the loop of commit writes next.                                     *)
LEMMA PrefixFacts ==
    ASSUME SegType, durable <= Len(log), offset = Pos(log, env.base, durable)
    PROVE  /\ Prefix \in Nat /\ durable <= Prefix /\ Prefix <= Len(log)
           /\ Pos(log, env.base, Prefix) = offset + Len(EncodeInto(durable, Prefix))
           /\ Len(EncodeInto(durable, Prefix)) \in Nat
           /\ Pos(log, env.base, Prefix) <= SegmentCells
           /\ env.base \in Nat \ {0} /\ log \in Seq(Payloads)
           /\ EncodeInto(durable, Prefix) = Enc(log, env.base, durable, Prefix)
<1> DEFINE b == env.base
           room == SegmentCells - offset
           P(n) == /\ Len(Enc(log, b, durable, n)) <= room
                   /\ n = Len(log) \/ Len(Enc(log, b, durable, n + 1)) > room
<1>1. /\ b \in Nat \ {0} /\ log \in Seq(Payloads) /\ durable \in Nat /\ room \in Nat
      /\ SegmentCells \in Nat /\ offset \in Nat
  BY BaseType DEF SegType
<1>2. \E n \in durable..Len(log) : P(n)
  <2> HIDE DEF b, room
  <2> QED BY <1>1, Fits
<1>3. Prefix = CHOOSE n \in durable..Len(log) : P(n)
  BY EncodeIntoIsEnc DEF Prefix
<1>4. Prefix \in durable..Len(log) /\ P(Prefix)
  <2> HIDE DEF P
  <2> QED BY <1>2, <1>3
<1>5. Prefix \in Nat /\ durable <= Prefix /\ Prefix <= Len(log)
  BY <1>1, <1>4
<1>6. /\ Len(Enc(log, b, durable, Prefix)) \in Nat
      /\ Pos(log, b, Prefix) = Pos(log, b, durable) + Len(Enc(log, b, durable, Prefix))
  <2> DEFINE n == Prefix
  <2>1. n \in Nat /\ durable <= n /\ n <= Len(log)
    BY <1>5
  <2> HIDE DEF n, b
  <2>2. /\ Len(Enc(log, b, durable, n)) \in Nat
        /\ Pos(log, b, n) = Pos(log, b, durable) + Len(Enc(log, b, durable, n))
    BY <1>1, <2>1, EncPrefix
  <2> QED BY <2>2 DEF n
<1>7. EncodeInto(durable, Prefix) = Enc(log, b, durable, Prefix)
  BY EncodeIntoIsEnc
<1>8. Len(Enc(log, b, durable, Prefix)) <= room
  BY <1>4
<1> QED BY <1>1, <1>5, <1>6, <1>7, <1>8

(* How many records a file that was cut short has left.                     *)
LEMMA BelowFacts ==
    ASSUME env \in Settings, log \in Seq(Payloads), NEW n \in Nat
    PROVE  Below(n) \in 0..Len(log) /\ Pos(log, env.base, Below(n)) <= n
<1> DEFINE b == env.base
           P(k) == /\ Len(Enc(log, b, 0, k)) <= n
                   /\ k = Len(log) \/ Len(Enc(log, b, 0, k + 1)) > n
<1>1. \E k \in 0..Len(log) : P(k)
  <2>1. b \in Nat \ {0} /\ 0 \in Nat /\ 0 <= Len(log)
    BY BaseType
  <2> HIDE DEF b
  <2> QED BY <2>1, Fits
<1>2. Below(n) = CHOOSE k \in 0..Len(log) : P(k)
  BY EncodeIntoIsEnc DEF Below
<1>3. Below(n) \in 0..Len(log) /\ P(Below(n))
  <2> HIDE DEF P
  <2> QED BY <1>1, <1>2
<1> QED BY <1>3 DEF Pos

-----------------------------------------------------------------------------
(* The scan.                                                                *)

LEMMA CoreTypes ==
    ASSUME CoreInv
    PROVE  /\ env.base \in Nat \ {0} /\ MaxLsn \in Nat /\ SegmentCells \in Nat \ {0}
           /\ cache \in File /\ disk \in File /\ cache.size \in Nat /\ disk.size \in Nat
           /\ log \in Seq(Payloads) /\ found \in Seq(Payloads) /\ Len(log) \in Nat /\ Len(found) \in Nat
           /\ acked \in Nat /\ durable \in Nat /\ acked <= Len(log)
           /\ Pos(log, env.base, acked) \in Nat
           /\ Begins(cache, log, env.base, acked) /\ Pos(log, env.base, acked) <= cache.size
           /\ Begins(disk, log, env.base, acked) /\ Pos(log, env.base, acked) <= disk.size
           /\ Len(log) <= Capacity /\ Len(found) <= Capacity /\ env.base + Capacity = MaxLsn + 1
<1>1. /\ env \in Settings /\ cache \in File /\ disk \in File /\ log \in Seq(Payloads)
      /\ found \in Seq(Payloads) /\ acked \in Nat /\ durable \in Nat
      /\ Len(log) <= Capacity /\ Len(found) <= Capacity
  BY DEF CoreInv, SegType
<1>2. /\ acked <= Len(log)
      /\ Begins(cache, log, env.base, acked) /\ Pos(log, env.base, acked) <= cache.size
      /\ Begins(disk, log, env.base, acked) /\ Pos(log, env.base, acked) <= disk.size
  BY DEF CoreInv, Kept
<1>3. env.base \in Nat \ {0} /\ MaxLsn \in Nat /\ SegmentCells \in Nat \ {0}
  BY <1>1, BaseType
<1>4. Pos(log, env.base, acked) \in Nat
  <2> DEFINE b == env.base
  <2>1. acked <= acked /\ b \in Nat \ {0}
    BY <1>1, <1>3
  <2> HIDE DEF b
  <2>2. Pos(log, b, acked) \in Nat
    BY <1>1, <1>2, <2>1, PosGrows
  <2> QED BY <2>2 DEF b
<1>5. cache.size \in Nat /\ disk.size \in Nat
  BY <1>1, <1>3 DEF File
<1>6. env.base + Capacity = MaxLsn + 1
  BY <1>3 DEF Capacity
<1>7. Len(log) \in Nat /\ Len(found) \in Nat
  BY <1>1
<1> QED BY <1>1, <1>2, <1>3, <1>4, <1>5, <1>6, <1>7

(* The scan is where the records it has found end.                          *)
LEMMA ScanPlace ==
    ASSUME CoreInv, pc \in Recovering
    PROVE  /\ offset \in Nat /\ offset <= SegmentCells
           /\ offset = Pos(found, env.base, Len(found))
           /\ Begins(cache, found, env.base, Len(found))
           /\ max \in Limits /\ max \in Nat
           /\ \A i \in 1..Len(found) : Length[found[i]] <= max
           /\ \A i \in 1..acked : i <= Len(found) => found[i] = log[i]
<1>1. offset \in 0..SegmentCells /\ max \in Limits /\ max \in Nat
  BY DEF CoreInv, SegType, Recovering
<1>2. offset \in Nat /\ offset <= SegmentCells
  BY <1>1, SegmentAssumption
<1> QED BY <1>1, <1>2 DEF CoreInv, Handle, Kept

(* It does not stop in front of the end of what was acknowledged.           *)
LEMMA ScanGoesOn ==
    ASSUME CoreInv, pc = "scan", Len(found) < acked
    PROVE  /\ InOrder /\ ~CleanEnd(cache, offset) /\ ~Exhausted
           /\ cache.cells[offset][2] = log[Len(found) + 1]
<1> DEFINE b == env.base
           n == Len(found) + 1
<1>1. /\ b \in Nat \ {0} /\ cache \in File /\ log \in Seq(Payloads) /\ acked \in Nat
      /\ acked <= Len(log) /\ Begins(cache, log, b, acked) /\ Pos(log, b, acked) <= cache.size
      /\ Len(found) \in Nat /\ Len(log) \in Nat /\ cache.size \in Nat /\ SegmentCells \in Nat
      /\ Pos(log, b, acked) \in Nat
  BY CoreTypes
<1>2. ~Exhausted
  <2>1. Len(log) <= Capacity /\ Capacity \in Int
    BY CoreTypes DEF Capacity
  <2> QED BY <1>1, <2>1 DEF Exhausted
<1>3. /\ n \in 1..acked /\ n \in 1..Len(log) /\ n \in Nat /\ n <= acked /\ n - 1 = Len(found)
      /\ b + n - 1 = Expected
  BY <1>1 DEF Expected
<1>4. offset = Pos(found, b, Len(found)) /\ \A i \in 1..Len(found) : found[i] = log[i]
  BY <1>1, ScanPlace DEF Recovering
<1>5. Pos(found, b, Len(found)) = Pos(log, b, Len(found))
  <2> DEFINE k == Len(found)
  <2>1. k \in Nat /\ \A i \in 1..k : found[i] = log[i]
    BY <1>1, <1>4
  <2> HIDE DEF k, b
  <2>2. Pos(found, b, k) = Pos(log, b, k)
    BY <2>1, BeginsEqual
  <2> QED BY <2>2 DEF k
<1>6. offset = Pos(log, b, n - 1)
  BY <1>3, <1>4, <1>5
<1> HIDE DEF b, n
<1>7. RecordIn(cache, log, b, n)
  BY <1>1, <1>3, BeginsHas
<1>8. Pos(log, b, n) <= SegmentCells /\ Pos(log, b, n) <= cache.size
  <2>1. Pos(log, b, n) \in Nat /\ Pos(log, b, n) <= Pos(log, b, acked)
    BY <1>1, <1>3, PosGrows
  <2>2. Pos(log, b, acked) <= SegmentCells
    BY <1>1 DEF Begins
  <2> QED BY <1>1, <2>1, <2>2
<1>9. Length[log[n]] <= max
  BY <1>3 DEF CoreInv, SegType
<1>10. /\ RecordAt(cache, offset, max) /\ ~CleanEnd(cache, offset)
       /\ cache.cells[offset][1] = b + n - 1 /\ cache.cells[offset][2] = log[n]
  BY <1>1, <1>3, <1>6, <1>7, <1>8, <1>9, Decodes
<1> QED BY <1>2, <1>3, <1>10 DEF InOrder, n

LEMMA NextRecord ==
    ASSUME CoreInv, pc = "scan", InOrder
    PROVE  LET p == cache.cells[offset][2] IN
           /\ p \in Payloads /\ Length[p] <= max /\ Frame(p) \in Nat
           /\ offset + Frame(p) <= SegmentCells
           /\ Len(found) + 1 <= Capacity
           /\ offset + Frame(p) = Pos(Append(found, p), env.base, Len(found) + 1)
           /\ Begins(cache, Append(found, p), env.base, Len(found) + 1)
<1> DEFINE p == cache.cells[offset][2]
           b == env.base
<1>1. /\ b \in Nat \ {0} /\ cache \in File /\ found \in Seq(Payloads) /\ Len(found) \in Nat
      /\ Len(found) <= Capacity /\ Capacity \in Int
  BY CoreTypes DEF Capacity
<1>2. /\ offset \in Nat /\ max \in Nat /\ offset = Pos(found, b, Len(found))
      /\ Begins(cache, found, b, Len(found))
  BY ScanPlace DEF Recovering
<1>3. RecordAt(cache, offset, max) /\ cache.cells[offset][1] = b + Len(found) /\ Len(found) # Capacity
  BY DEF InOrder, Exhausted, Expected
<1>4. /\ p \in Payloads /\ Length[p] <= max /\ offset + Frame(p) <= SegmentCells
      /\ \A k \in 0..(Frame(p) - 1) : cache.cells[offset + k] = Piece(cache.cells[offset][1], p, k)
  BY <1>1, <1>2, <1>3, DecodesTo
<1> HIDE DEF p, b
<1>5. /\ Pos(Append(found, p), b, Len(found) + 1) = Pos(found, b, Len(found)) + Frame(p)
      /\ Begins(cache, Append(found, p), b, Len(found) + 1)
  <2>1. /\ Pos(found, b, Len(found)) + Frame(p) <= SegmentCells
        /\ \A k \in 0..(Frame(p) - 1) :
              cache.cells[Pos(found, b, Len(found)) + k] = Piece(b + Len(found), p, k)
    BY <1>2, <1>3, <1>4
  <2> QED BY <1>1, <1>2, <1>4, <2>1, BeginsMore
<1>6. Len(found) + 1 <= Capacity /\ Frame(p) \in Nat
  BY <1>1, <1>3, <1>4, FrameType
<1> QED BY <1>2, <1>4, <1>5, <1>6 DEF p, b

-----------------------------------------------------------------------------
(* The invariant of recovery and of the handle, for every setting: pages in *)
(* any order, power loss, cuts.                                             *)

(* Prefix, as a function of the state it reads.                             *)
PrefixOf(s, b, d, o) ==
    CHOOSE n \in d..Len(s) :
        /\ Len(Enc(s, b, d, n)) <= SegmentCells - o
        /\ n = Len(s) \/ Len(Enc(s, b, d, n + 1)) > SegmentCells - o

LEMMA PrefixIsPrefixOf == Prefix = PrefixOf(log, env.base, durable, offset)
BY EncodeIntoIsEnc DEF Prefix, PrefixOf

LEMMA PrefixSame ==
    ASSUME log' = log, env' = env, durable' = durable, offset' = offset
    PROVE  Prefix' = Prefix
<1>1. (Prefix = PrefixOf(log, env.base, durable, offset))'
  BY PrefixIsPrefixOf, PTL
<1> QED BY <1>1, PrefixIsPrefixOf

LEMMA CoreStart == Init => CoreInv
<1> SUFFICES ASSUME Init PROVE CoreInv
  OBVIOUS
<1>1. /\ env \in Settings /\ env.base \in Nat \ {0} /\ env.base \in 1..MaxLsn /\ MaxLsn \in Nat
      /\ SegmentCells \in Nat \ {0}
  BY BaseType DEF Init
<1>2. NewFile \in File
  BY <1>1 DEF NewFile, File, Cell
<1>3. SegType
  <2>1. Capacity \in Nat /\ <<>> \in Seq(Payloads) /\ Len(<<>>) = 0 /\ 0 \in 0..SegmentCells
    BY <1>1 DEF Capacity
  <2>2. /\ cache \in File /\ disk \in File /\ pc = "closed" /\ max = 0 /\ offset = 0 /\ cursor = 0
        /\ durable = 0 /\ sealed = 0 /\ acked = 0 /\ cuts = 0 /\ poisoned \in BOOLEAN /\ ~poisoned
    BY <1>2 DEF Init
  <2>3. found \in Seq(Payloads) /\ log \in Seq(Payloads) /\ Len(found) = 0 /\ Len(log) = 0
    BY <2>1 DEF Init
  <2>4. \A i \in 1..Len(log) : Length[log[i]] <= max
    BY <2>3
  <2> QED BY <1>1, <2>1, <2>2, <2>3, <2>4 DEF SegType
<1>4. Pos(log, env.base, 0) = 0 /\ \A f : Begins(f, log, env.base, 0)
  <2>1. Pos(log, env.base, 0) = 0
    BY EncStart
  <2> QED BY <1>1, <2>1 DEF Begins
<1>5. Kept
  BY <1>1, <1>4 DEF Init, Kept, Recovering, NewFile
<1>6. Handle
  BY DEF Init, Handle, Recovering, Serving
<1> QED BY <1>3, <1>5, <1>6 DEF CoreInv

LEMMA CoreStutter ==
    ASSUME CoreInv, UNCHANGED vars PROVE CoreInv'
<1>1. Prefix' = Prefix
  BY PrefixSame DEF vars
<1>2. SegType'
  BY DEF CoreInv, SegType, vars, Capacity
<1>3. Handle'
  BY <1>1 DEF CoreInv, Handle, Serving, vars
<1>4. Kept'
  BY DEF CoreInv, Kept, vars
<1> QED BY <1>2, <1>3, <1>4 DEF CoreInv

LEMMA CoreOpen ==
    ASSUME CoreInv, Open PROVE CoreInv'
<1>1. SegType'
  <2>1. 0 \in 0..SegmentCells
    BY SegmentAssumption
  <2>2. max' \in Nat /\ \A i \in 1..Len(log) : Length[log[i]] <= max'
    <3>1. max' \in Nat /\ max \in Nat /\ max <= max'
      BY SegmentAssumption DEF Open, CoreInv, SegType
    <3>2. ASSUME NEW i \in 1..Len(log) PROVE Length[log[i]] <= max'
      <4>1. log[i] \in Payloads /\ Length[log[i]] <= max
        BY DEF CoreInv, SegType
      <4>2. Length[log[i]] \in Nat
        BY <4>1, SegmentAssumption
      <4> QED BY <3>1, <4>1, <4>2
    <3> QED BY <3>1, <3>2
  <2>3. Capacity \in Nat
    BY BaseType DEF Capacity, CoreInv, SegType
  <2> QED BY <2>1, <2>2, <2>3 DEF Open, CoreInv, SegType, fileVars, logVars, Capacity
<1>2. Handle'
  <2>1. Pos(<<>>, env.base, 0) = 0 /\ \A f : Begins(f, <<>>, env.base, 0)
    <3>1. Pos(<<>>, env.base, 0) = 0
      BY EncStart
    <3> QED BY <3>1, SegmentAssumption DEF Begins
  <2>2. found' = <<>> /\ offset' = 0 /\ pc' = "scan" /\ env' = env /\ cache' = cache /\ Len(<<>>) = 0
    BY DEF Open, fileVars
  <2> QED BY <2>1, <2>2 DEF Handle, Serving
<1>3. Kept'
  BY DEF Open, CoreInv, Kept, fileVars, logVars, Recovering
<1> QED BY <1>1, <1>2, <1>3 DEF CoreInv

LEMMA CoreScanRecord ==
    ASSUME CoreInv, ScanRecord PROVE CoreInv'
<1> DEFINE p == cache.cells[offset][2]
<1>1. /\ p \in Payloads /\ Length[p] <= max /\ Frame(p) \in Nat
      /\ offset + Frame(p) <= SegmentCells
      /\ Len(found) + 1 <= Capacity
      /\ offset + Frame(p) = Pos(Append(found, p), env.base, Len(found) + 1)
      /\ Begins(cache, Append(found, p), env.base, Len(found) + 1)
  BY NextRecord DEF ScanRecord
<1>2. /\ pc = "scan" /\ pc' = "scan" /\ found' = Append(found, p) /\ offset' = offset + Frame(p)
      /\ cache' = cache /\ disk' = disk /\ cursor' = cursor /\ log' = log /\ durable' = durable
      /\ acked' = acked /\ poisoned' = poisoned /\ max' = max /\ sealed' = sealed
      /\ cuts' = cuts /\ env' = env
  BY DEF ScanRecord, fileVars, logVars, fixedVars
<1>3. Len(found) < acked => p = log[Len(found) + 1]
  BY <1>2, ScanGoesOn
<1> HIDE DEF p
<1>4. /\ found' \in Seq(Payloads) /\ Len(found') = Len(found) + 1 /\ Len(found) \in Nat
      /\ found'[Len(found) + 1] = p /\ \A i \in 1..Len(found) : found'[i] = found[i]
  BY <1>1, <1>2, CoreTypes
<1>5. SegType'
  <2>1. offset' \in 0..SegmentCells
    BY <1>1, <1>2, SegmentAssumption DEF CoreInv, SegType
  <2> QED BY <1>1, <1>2, <1>4, <2>1 DEF CoreInv, SegType, Capacity
<1>6. \A i \in 1..Len(found') : Length[found'[i]] <= max'
  <2> TAKE i \in 1..Len(found')
  <2>1. CASE i = Len(found) + 1
    BY <1>1, <1>2, <1>4, <2>1
  <2>2. CASE i # Len(found) + 1
    BY <1>2, <1>4, <2>2, ScanPlace DEF Recovering
  <2> QED BY <2>1, <2>2
<1>7. Handle'
  BY <1>1, <1>2, <1>4, <1>6 DEF Handle, Serving
<1>8. \A i \in 1..acked' : i <= Len(found') => found'[i] = log'[i]
  <2> TAKE i \in 1..acked'
  <2>0. acked \in Nat /\ acked' = acked /\ log' = log
    BY <1>2, CoreTypes
  <2>1. CASE i = Len(found) + 1
    BY <1>3, <1>4, <2>0, <2>1
  <2>2. CASE i # Len(found) + 1
    BY <1>2, <1>4, <2>0, <2>2, ScanPlace DEF Recovering
  <2> QED BY <2>1, <2>2
<1>9. Kept'
  BY <1>2, <1>8 DEF CoreInv, Kept
<1> QED BY <1>5, <1>7, <1>9 DEF CoreInv

(* open hands out what the scan found.                                      *)
LEMMA CoreOpened ==
    ASSUME CoreInv, pc \in Recovering, acked <= Len(found), Opened,
           cache' = cache, disk' \in {cache, disk}, acked' = acked, poisoned' = poisoned,
           UNCHANGED fixedVars
    PROVE  CoreInv'
<1>1. /\ env.base \in Nat \ {0} /\ found \in Seq(Payloads) /\ Len(found) \in Nat /\ acked \in Nat
      /\ Len(found) <= Capacity
      /\ cache \in File /\ disk \in File
      /\ Begins(cache, log, env.base, acked) /\ Pos(log, env.base, acked) <= cache.size
      /\ Begins(disk, log, env.base, acked) /\ Pos(log, env.base, acked) <= disk.size
  BY CoreTypes
<1>2. /\ offset = Pos(found, env.base, Len(found)) /\ Begins(cache, found, env.base, Len(found))
      /\ \A i \in 1..Len(found) : Length[found[i]] <= max
      /\ \A i \in 1..acked : found[i] = log[i]
      /\ max \in Limits
  <2>1. ASSUME NEW i \in 1..acked PROVE found[i] = log[i]
    BY <1>1, ScanPlace
  <2> QED BY <2>1, ScanPlace
<1>3. /\ pc' = "idle" /\ log' = found /\ durable' = Len(found) /\ cursor' = 0 /\ found' = <<>>
      /\ offset' = offset /\ max' = max /\ sealed' = sealed /\ cuts' = cuts /\ env' = env
  BY DEF Opened, fixedVars
<1>4. /\ Begins(cache, found, env.base, acked) /\ Begins(disk, found, env.base, acked)
      /\ Pos(found, env.base, acked) = Pos(log, env.base, acked)
  <2> DEFINE b == env.base
  <2>1. b \in Nat \ {0} /\ Begins(cache, log, b, acked) /\ Begins(disk, log, b, acked)
    BY <1>1
  <2> HIDE DEF b
  <2>2. Pos(found, b, acked) = Pos(log, b, acked)
    BY <1>1, <1>2, BeginsEqual
  <2>3. Begins(cache, found, b, acked)
    BY <1>1, <1>2, <2>1, BeginsEqual
  <2>4. Begins(disk, found, b, acked)
    BY <1>1, <1>2, <2>1, BeginsEqual
  <2> QED BY <2>2, <2>3, <2>4 DEF b
<1>5. SegType'
  <2>1. 0 \in 0..SegmentCells /\ <<>> \in Seq(Payloads) /\ Len(<<>>) = 0
    BY SegmentAssumption
  <2>2. Capacity' = Capacity
    BY <1>3 DEF Capacity
  <2>3. disk' \in File
    BY <1>1
  <2>4. Len(found') <= Capacity
    BY <1>1, <1>3, <2>1, CoreTypes DEF Capacity
  <2> QED BY <1>1, <1>2, <1>3, <2>1, <2>2, <2>3, <2>4 DEF CoreInv, SegType
<1>6. Handle'
  <2>1. durable' <= Len(log')
    BY <1>1, <1>3
  <2> QED BY <1>2, <1>3, <2>1 DEF Handle, Recovering, Serving
<1>7. Kept'
  <2>1. acked' <= Len(log') /\ acked' <= durable' /\ durable' <= Len(log')
    BY <1>1, <1>3
  <2>2. \A f \in {cache', disk'} : Begins(f, log', env'.base, acked') /\ Pos(log', env'.base, acked') <= f.size
    BY <1>1, <1>3, <1>4
  <2> QED BY <1>3, <2>1, <2>2 DEF Kept, Recovering
<1> QED BY <1>5, <1>6, <1>7 DEF CoreInv

LEMMA CoreClosed ==
    ASSUME CoreInv, Closed, cache' \in {cache, disk}, disk' = disk, log' = log,
           acked' = acked, UNCHANGED fixedVars
    PROVE  CoreInv'
<1>1. /\ pc' = "closed" /\ ~poisoned' /\ poisoned' \in BOOLEAN
      /\ offset' = 0 /\ cursor' = 0 /\ found' = <<>> /\ durable' = 0
      /\ max' = max /\ sealed' = sealed /\ cuts' = cuts /\ env' = env
  BY DEF Closed, fixedVars
<1>2. SegType'
  <2>1. 0 \in 0..SegmentCells /\ <<>> \in Seq(Payloads) /\ Len(<<>>) = 0
    BY SegmentAssumption
  <2>2. Capacity' = Capacity /\ 0 <= Capacity
    BY <1>1, CoreTypes DEF Capacity
  <2> QED BY <1>1, <2>1, <2>2 DEF CoreInv, SegType
<1>3. Handle'
  BY <1>1 DEF Handle, Recovering, Serving
<1>4. Kept'
  BY <1>1 DEF CoreInv, Kept, Recovering
<1> QED BY <1>2, <1>3, <1>4 DEF CoreInv

LEMMA CoreFail ==
    ASSUME CoreInv, pc # "closed", Fail, cache' = cache, disk' = disk, acked' = acked,
           ~poisoned, poisoned' = poisoned, UNCHANGED fixedVars
    PROVE  CoreInv'
<1>1. /\ pc' = "failed" /\ offset' = offset /\ cursor' = cursor /\ found' = found
      /\ log' = log /\ durable' = durable
      /\ max' = max /\ sealed' = sealed /\ cuts' = cuts /\ env' = env
  BY DEF Fail, scanVars, fixedVars
<1>2. SegType'
  BY <1>1 DEF CoreInv, SegType, Capacity
<1>3. Handle'
  BY <1>1 DEF Handle, Recovering, Serving
<1>4. Kept'
  BY <1>1 DEF CoreInv, Kept, Recovering
<1> QED BY <1>2, <1>3, <1>4 DEF CoreInv

LEMMA CoreTornTail ==
    ASSUME CoreInv, pc = "scan", acked <= Len(found), TornTail, cache' = cache, disk' = disk,
           acked' = acked, poisoned' = poisoned, UNCHANGED fixedVars
    PROVE  CoreInv'
<1>1. /\ pc' = "zero" /\ offset' = offset /\ cursor' = offset /\ found' = found
      /\ log' = log /\ durable' = durable
      /\ max' = max /\ sealed' = sealed /\ cuts' = cuts /\ env' = env
  BY DEF TornTail, fixedVars
<1>2. SegType'
  BY <1>1 DEF CoreInv, SegType, Capacity
<1>3. Handle'
  <2>1. offset <= offset
    BY ScanPlace DEF Recovering
  <2> QED BY <1>1, <2>1 DEF CoreInv, Handle, Recovering, Serving
<1>4. Kept'
  BY <1>1 DEF CoreInv, Kept, Recovering
<1> QED BY <1>2, <1>3, <1>4 DEF CoreInv

LEMMA CoreScanEnds ==
    ASSUME CoreInv, ScanEnd \/ Classify \/ AtCapacity PROVE CoreInv'
<1>1. /\ pc = "scan" /\ pc \in Recovering /\ cache' = cache /\ disk' = disk /\ acked' = acked
      /\ UNCHANGED fixedVars /\ pc # "closed"
  BY DEF ScanEnd, Classify, AtCapacity, fileVars, Recovering
<1>2. ~poisoned
  BY <1>1 DEF CoreInv, SegType
<1>3. acked <= Len(found)
  <2>1. acked \in Nat /\ Len(found) \in Nat
    BY CoreTypes
  <2>2. ~(Len(found) < acked)
    BY <1>1, ScanGoesOn DEF ScanEnd, Classify, AtCapacity
  <2> QED BY <2>1, <2>2
<1>4. CASE ScanEnd
  <2>1. CASE sealed > 0 /\ Len(found) = sealed
    BY <1>1, <1>4, <2>1, CoreClosed DEF ScanEnd
  <2>2. CASE sealed > 0 /\ Len(found) # sealed
    BY <1>1, <1>2, <1>4, <2>2, CoreFail DEF ScanEnd
  <2>3. CASE ~(sealed > 0)
    BY <1>1, <1>3, <1>4, <2>3, CoreOpened DEF ScanEnd
  <2> QED BY <2>1, <2>2, <2>3
<1>5. CASE Classify
  <2>1. Fail \/ TornTail
    BY <1>5 DEF Classify
  <2>2. poisoned' = poisoned
    BY <1>5 DEF Classify
  <2> QED BY <1>1, <1>2, <1>3, <2>1, <2>2, CoreFail, CoreTornTail
<1>6. CASE AtCapacity
  <2>1. Fail \/ TornTail
    BY <1>6 DEF AtCapacity
  <2>2. poisoned' = poisoned
    BY <1>6 DEF AtCapacity
  <2> QED BY <1>1, <1>2, <1>3, <2>1, <2>2, CoreFail, CoreTornTail
<1> QED BY <1>4, <1>5, <1>6

LEMMA CoreCloseHandle ==
    ASSUME CoreInv, CloseHandle \/ LosePower PROVE CoreInv'
BY CoreClosed DEF CloseHandle, LosePower, fileVars

(* The zeroing does not reach what the scan has found.                      *)
LEMMA ZeroPlace ==
    ASSUME CoreInv, pc = "zero"
    PROVE  /\ acked \in Nat /\ Len(found) \in Nat /\ acked <= Len(found) /\ offset <= cursor
           /\ cursor \in 0..SegmentCells /\ cursor \in Nat
           /\ Pos(log, env.base, acked) = Pos(found, env.base, acked)
           /\ Pos(log, env.base, acked) <= offset
<1>1. /\ acked \in Nat /\ Len(found) \in Nat /\ acked <= Len(found) /\ offset <= cursor
      /\ cursor \in 0..SegmentCells /\ cursor \in Nat
  BY CoreTypes DEF CoreInv, Kept, Handle, Recovering, SegType
<1>2. \A i \in 1..acked : log[i] = found[i]
  BY <1>1, ScanPlace DEF Recovering
<1> DEFINE b == env.base
<1>3. b \in Nat \ {0} /\ found \in Seq(Payloads) /\ offset = Pos(found, b, Len(found))
  BY CoreTypes, ScanPlace DEF Recovering
<1> HIDE DEF b
<1>4. Pos(log, b, acked) = Pos(found, b, acked)
  BY <1>1, <1>2, BeginsEqual
<1>5. Pos(found, b, acked) <= Pos(found, b, Len(found))
  <2> DEFINE n == Len(found)
  <2>1. n \in Nat /\ acked <= n /\ n <= Len(found)
    BY <1>1
  <2> HIDE DEF n
  <2>2. Pos(found, b, acked) <= Pos(found, b, n)
    BY <1>1, <1>3, <2>1, PosGrows
  <2> QED BY <2>2 DEF n
<1> QED BY <1>1, <1>3, <1>4, <1>5 DEF b

(* A step that only writes zeros behind the cursor.                         *)
LEMMA ChunkFacts ==
    ASSUME CoreInv, ZeroChunk
    PROVE  /\ cursor' \in 0..SegmentCells /\ cursor' \in Nat /\ cursor < cursor'
           /\ cursor' = MinOf(cursor + env.zeroStep, SegmentCells)
           /\ cache' \in File /\ cache.size <= cache'.size /\ cursor' <= cache'.size
           /\ cache'.size \in Nat
           /\ cache.size = SegmentCells => cache'.size = SegmentCells
           /\ \A c \in Cells : c < cursor => cache'.cells[c] = cache.cells[c]
           /\ \A c \in Cells : c >= cursor /\ c < cursor' => cache'.cells[c] = Zero
           /\ \A c \in Cells : c >= cursor' => cache'.cells[c] = cache.cells[c]
<1> DEFINE d == cursor' - cursor
           x == [k \in 1..d |-> Zero]
<1>1. /\ cursor \in 0..SegmentCells /\ cursor \in Nat /\ SegmentCells \in Nat /\ cursor < SegmentCells
      /\ env.zeroStep \in 1..SegmentCells
      /\ cursor' = MinOf(cursor + env.zeroStep, SegmentCells)
  BY ZeroPlace, BaseType DEF ZeroChunk, CoreInv, SegType
<1>2. /\ cursor' \in 0..SegmentCells /\ cursor' \in Nat /\ cursor < cursor'
      /\ d \in Nat \ {0} /\ cursor + d = cursor'
  BY <1>1 DEF MinOf
<1>3. cache \in File /\ cache' = Write(cache, cursor, x)
  BY CoreTypes DEF ZeroChunk
<1> HIDE DEF d
<1>4. /\ x \in Seq(Cell) /\ Len(x) = d /\ x # <<>> /\ \A c \in 1..d : x[c] = Zero
  <2>1. Zero \in Cell
    BY DEF Cell
  <2> HIDE DEF Cell
  <2>2. x \in [1..d -> Cell]
    BY <2>1
  <2>3. x \in Seq(Cell) /\ Len(x) = d
    BY <1>2, <2>2
  <2> QED BY <1>2, <2>3
<1> HIDE DEF x
<1>5. cursor + Len(x) <= SegmentCells
  BY <1>1, <1>2, <1>4
<1>6. /\ cache' \in File /\ cache.size <= cache'.size /\ cursor + Len(x) <= cache'.size
      /\ cache.size = SegmentCells => cache'.size = SegmentCells
      /\ \A c \in Cells : c < cursor => cache'.cells[c] = cache.cells[c]
      /\ \A c \in 1..Len(x) : cache'.cells[cursor + c - 1] = x[c]
      /\ \A c \in Cells : c >= cursor + Len(x) => cache'.cells[c] = cache.cells[c]
  BY <1>1, <1>3, <1>4, <1>5, WriteFacts
<1>7. ASSUME NEW c \in Cells, c >= cursor, c < cursor' PROVE cache'.cells[c] = Zero
  <2> DEFINE k == c - cursor + 1
  <2>1. k \in 1..d /\ cursor + k - 1 = c
    BY <1>1, <1>2, <1>7 DEF Cells
  <2> HIDE DEF k
  <2> QED BY <1>4, <1>6, <2>1
<1>8. cache'.size \in Nat
  BY <1>1, <1>6 DEF File
<1> QED BY <1>1, <1>2, <1>4, <1>6, <1>7, <1>8

LEMMA CoreZeroChunk ==
    ASSUME CoreInv, ZeroChunk PROVE CoreInv'
<1>1. /\ pc = "zero" /\ pc' = "zero" /\ disk' = disk /\ offset' = offset /\ found' = found
      /\ log' = log /\ durable' = durable /\ acked' = acked /\ poisoned' = poisoned
      /\ max' = max /\ sealed' = sealed /\ cuts' = cuts /\ env' = env
  BY DEF ZeroChunk, logVars, fixedVars
<1>2. /\ cursor' \in 0..SegmentCells /\ cursor' \in Nat /\ cursor < cursor'
      /\ cache' \in File /\ cache.size <= cache'.size /\ cache'.size \in Nat
      /\ \A c \in Cells : c < cursor => cache'.cells[c] = cache.cells[c]
  BY ChunkFacts
<1>3. /\ acked \in Nat /\ Len(found) \in Nat /\ acked <= Len(found) /\ offset <= cursor
      /\ cursor \in Nat /\ Pos(log, env.base, acked) <= offset
  BY <1>1, ZeroPlace
<1>4. /\ offset \in Nat /\ offset = Pos(found, env.base, Len(found))
      /\ Begins(cache, found, env.base, Len(found))
  BY <1>1, ScanPlace DEF Recovering
<1>5. /\ Begins(cache, log, env.base, acked) /\ Pos(log, env.base, acked) \in Nat
      /\ Pos(log, env.base, acked) <= cache.size /\ cache.size \in Nat
  BY CoreTypes
<1>6. Begins(cache', log, env.base, acked)
  <2>1. \A c \in Cells : c < Pos(log, env.base, acked) => cache'.cells[c] = cache.cells[c]
    <3> TAKE c \in Cells
    <3>1. c \in Int
      BY SegmentAssumption DEF Cells
    <3> QED BY <1>2, <1>3, <1>4, <1>5, <3>1
  <2> QED BY <1>5, <2>1, BeginsKept
<1>7. Begins(cache', found, env.base, Len(found))
  <2>1. \A c \in Cells : c < Pos(found, env.base, Len(found)) => cache'.cells[c] = cache.cells[c]
    <3> TAKE c \in Cells
    <3>1. c \in Int
      BY SegmentAssumption DEF Cells
    <3> QED BY <1>2, <1>3, <1>4, <3>1
  <2>2. Pos(found, env.base, Len(found)) \in Nat
    BY <1>4
  <2> QED BY <1>4, <2>1, <2>2, BeginsKept
<1>8. SegType'
  BY <1>1, <1>2 DEF CoreInv, SegType, Capacity
<1>9. Handle'
  <2>1. offset' <= cursor'
    BY <1>1, <1>2, <1>3, <1>4
  <2> QED BY <1>1, <1>4, <1>7, <2>1 DEF CoreInv, Handle, Recovering, Serving
<1>10. Kept'
  <2>1. Pos(log, env.base, acked) <= cache'.size
    BY <1>2, <1>5
  <2> QED BY <1>1, <1>6, <2>1 DEF CoreInv, Kept, Recovering
<1> QED BY <1>8, <1>9, <1>10 DEF CoreInv

LEMMA CoreZeroSync ==
    ASSUME CoreInv, ZeroSync PROVE CoreInv'
BY ZeroPlace, CoreOpened DEF ZeroSync, Recovering

(* A log that keeps the acknowledged records keeps what is in the file.     *)
LEMMA KeptLog ==
    ASSUME CoreInv, NEW s, \A i \in 1..acked : s[i] = log[i]
    PROVE  /\ Pos(s, env.base, acked) = Pos(log, env.base, acked)
           /\ \A f \in {cache, disk} :
                 Begins(f, s, env.base, acked) /\ Pos(s, env.base, acked) <= f.size
<1> DEFINE b == env.base
<1>1. acked \in Nat
  BY CoreTypes
<1>2. /\ Begins(cache, log, b, acked) /\ Pos(log, b, acked) <= cache.size
      /\ Begins(disk, log, b, acked) /\ Pos(log, b, acked) <= disk.size
  BY CoreTypes
<1> HIDE DEF b
<1>3. Pos(s, b, acked) = Pos(log, b, acked)
  BY <1>1, BeginsEqual
<1>4. Begins(cache, s, b, acked)
  BY <1>1, <1>2, BeginsEqual
<1>5. Begins(disk, s, b, acked)
  BY <1>1, <1>2, BeginsEqual
<1> QED BY <1>2, <1>3, <1>4, <1>5 DEF b

(* Where the handle is.                                                     *)
LEMMA HandlePlace ==
    ASSUME CoreInv, Serving
    PROVE  /\ durable \in Nat /\ durable <= Len(log) /\ acked <= durable
           /\ offset \in Nat /\ offset <= SegmentCells
           /\ offset = Pos(log, env.base, durable) /\ Begins(cache, log, env.base, durable)
           /\ Pos(log, env.base, acked) <= offset
           /\ max \in Limits
<1>1. /\ durable \in Nat /\ durable <= Len(log) /\ acked <= durable /\ offset \in Nat
      /\ offset <= SegmentCells /\ max \in Limits
      /\ offset = Pos(log, env.base, durable) /\ Begins(cache, log, env.base, durable)
  <2>1. offset \in 0..SegmentCells /\ max \in Limits /\ durable \in Nat
    BY DEF CoreInv, SegType, Serving
  <2>2. /\ durable <= Len(log) /\ acked <= durable
        /\ offset = Pos(log, env.base, durable) /\ Begins(cache, log, env.base, durable)
    BY DEF CoreInv, Handle, Kept, Serving
  <2> QED BY <2>1, <2>2, SegmentAssumption
<1> DEFINE b == env.base
<1>2. b \in Nat \ {0} /\ log \in Seq(Payloads) /\ acked \in Nat
  BY CoreTypes
<1> HIDE DEF b
<1>3. Pos(log, b, acked) <= Pos(log, b, durable)
  BY <1>1, <1>2, PosGrows
<1> QED BY <1>1, <1>3 DEF b

LEMMA CoreAppend ==
    ASSUME CoreInv, NEW p \in Payloads, AppendRecord(p) PROVE CoreInv'
<1>1. /\ pc = "idle" /\ ~poisoned /\ pc' = pc /\ log' = Append(log, p) /\ cache' = cache
      /\ disk' = disk /\ offset' = offset /\ cursor' = cursor /\ found' = found
      /\ durable' = durable /\ acked' = acked /\ poisoned' = poisoned /\ max' = max
      /\ sealed' = sealed /\ cuts' = cuts /\ env' = env
      /\ Length[p] <= max /\ Len(log) < Capacity
  BY DEF AppendRecord, fileVars, scanVars, fixedVars
<1>2. /\ log' \in Seq(Payloads) /\ Len(log') = Len(log) + 1 /\ Len(log) \in Nat
      /\ log'[Len(log) + 1] = p /\ \A i \in 1..Len(log) : log'[i] = log[i]
  BY <1>1, CoreTypes
<1>3. Serving
  BY <1>1 DEF Serving
<1>4. /\ durable \in Nat /\ durable <= Len(log) /\ acked <= durable /\ acked \in Nat
      /\ offset = Pos(log, env.base, durable) /\ Begins(cache, log, env.base, durable)
  BY <1>3, HandlePlace, CoreTypes
<1>5. SegType'
  <2>1. \A i \in 1..Len(log') : Length[log'[i]] <= max
    <3> TAKE i \in 1..Len(log')
    <3>1. CASE i = Len(log) + 1
      BY <1>1, <1>2, <3>1
    <3>2. CASE i # Len(log) + 1
      BY <1>2, <3>2 DEF CoreInv, SegType
    <3> QED BY <3>1, <3>2
  <2>2. Len(log') <= Capacity
    BY <1>1, <1>2, CoreTypes DEF Capacity
  <2> QED BY <1>1, <1>2, <2>1, <2>2 DEF CoreInv, SegType, Capacity
<1>6. Handle'
  <2> DEFINE b == env.base
  <2>1. \A i \in 1..durable : log'[i] = log[i]
    BY <1>2, <1>4
  <2>2. Begins(cache, log, b, durable)
    BY <1>4
  <2> HIDE DEF b
  <2>3. Pos(log', b, durable) = Pos(log, b, durable)
    BY <1>4, <2>1, BeginsEqual
  <2>4. Begins(cache, log', b, durable)
    BY <1>4, <2>1, <2>2, BeginsEqual
  <2>5. durable <= Len(log')
    BY <1>2, <1>4
  <2> QED BY <1>1, <1>4, <2>3, <2>4, <2>5 DEF Handle, Recovering, Serving, b
<1>7. Kept'
  <2>1. \A i \in 1..acked : log'[i] = log[i]
    BY <1>2, <1>4
  <2>2. \A f \in {cache, disk} :
           Begins(f, log', env.base, acked) /\ Pos(log', env.base, acked) <= f.size
    BY <2>1, KeptLog
  <2>3. acked <= Len(log') /\ durable <= Len(log')
    BY <1>2, <1>4
  <2> QED BY <1>1, <1>4, <2>2, <2>3 DEF Kept, Recovering
<1> QED BY <1>5, <1>6, <1>7 DEF CoreInv

LEMMA CoreCommit ==
    ASSUME CoreInv, Commit PROVE CoreInv'
<1>1. /\ pc = "idle" /\ ~poisoned /\ pc' = "commit" /\ log' = log /\ cache' = cache
      /\ disk' = disk /\ offset' = offset /\ cursor' = cursor /\ found' = found
      /\ durable' = durable /\ acked' = acked /\ poisoned' = poisoned /\ max' = max
      /\ sealed' = sealed /\ cuts' = cuts /\ env' = env
  BY DEF Commit, fileVars, scanVars, logVars, fixedVars
<1>2. SegType'
  BY <1>1 DEF CoreInv, SegType, Capacity
<1>3. Handle'
  BY <1>1 DEF CoreInv, Handle, Recovering, Serving
<1>4. Kept'
  BY <1>1 DEF CoreInv, Kept, Recovering
<1> QED BY <1>2, <1>3, <1>4 DEF CoreInv

(* The sync failed: the handle is poisoned.                                 *)
LEMMA CoreSyncFails ==
    ASSUME CoreInv, CommitSyncFails PROVE CoreInv'
<1>1. /\ pc = "sync" /\ pc' = "idle" /\ poisoned' /\ poisoned' \in BOOLEAN /\ log' = log /\ cache' = cache
      /\ disk' = disk /\ offset' = offset /\ cursor' = cursor /\ found' = found
      /\ durable' = durable /\ acked' = acked /\ max' = max
      /\ sealed' = sealed /\ cuts' = cuts /\ env' = env
  BY DEF CommitSyncFails, fileVars, scanVars, logVars, fixedVars
<1>2. SegType'
  BY <1>1 DEF CoreInv, SegType, Capacity
<1>3. Handle'
  BY <1>1 DEF Handle, Recovering, Serving
<1>4. Kept'
  BY <1>1 DEF CoreInv, Kept, Recovering
<1> QED BY <1>2, <1>3, <1>4 DEF CoreInv

(* The batch that a commit writes.                                          *)
LEMMA BatchFacts ==
    ASSUME CoreInv, pc \in {"commit", "sync"}
    PROVE  /\ Serving /\ Prefix \in Nat /\ durable <= Prefix /\ Prefix <= Len(log)
           /\ EncodeInto(durable, Prefix) \in Seq(Cell)
           /\ EncodeInto(durable, Prefix) = Enc(log, env.base, durable, Prefix)
           /\ Len(EncodeInto(durable, Prefix)) \in Nat
           /\ Pos(log, env.base, Prefix) = offset + Len(EncodeInto(durable, Prefix))
           /\ Pos(log, env.base, Prefix) <= SegmentCells
           /\ durable < Prefix => EncodeInto(durable, Prefix) # <<>>
<1>1. Serving
  BY DEF CoreInv, SegType, Serving
<1>2. /\ durable \in Nat /\ durable <= Len(log) /\ offset = Pos(log, env.base, durable)
      /\ offset \in Nat /\ max \in Limits
  BY <1>1, HandlePlace
<1>3. SegType
  BY DEF CoreInv
<1>4. /\ Prefix \in Nat /\ durable <= Prefix /\ Prefix <= Len(log)
      /\ Pos(log, env.base, Prefix) = offset + Len(EncodeInto(durable, Prefix))
      /\ Len(EncodeInto(durable, Prefix)) \in Nat
      /\ Pos(log, env.base, Prefix) <= SegmentCells
      /\ EncodeInto(durable, Prefix) = Enc(log, env.base, durable, Prefix)
  BY <1>2, <1>3, PrefixFacts
<1> DEFINE b == env.base
           n == Prefix
<1>5. /\ b \in Nat \ {0} /\ log \in Seq(Payloads) /\ n \in Nat /\ durable <= n /\ n <= Len(log)
      /\ b + Len(log) <= MaxLsn + 1
  <2>1. Len(log) <= Capacity /\ b + Capacity = MaxLsn + 1 /\ b \in Nat /\ Len(log) \in Nat /\ MaxLsn \in Nat
    BY CoreTypes
  <2>2. Capacity \in Int
    BY <2>1, CoreTypes DEF Capacity
  <2> QED BY <1>4, <2>1, <2>2, CoreTypes
<1>6. \A k \in 1..Len(log) : Length[log[k]] <= max
  BY <1>3 DEF SegType
<1> HIDE DEF b, n
<1>7. Enc(log, b, durable, n) \in Seq(Cell)
  BY <1>2, <1>5, <1>6, EncCells
<1>8. durable < n => Pos(log, b, durable) + HeaderCells <= Pos(log, b, n) /\ Pos(log, b, n) \in Nat
  BY <1>2, <1>5, PosGrows
<1>9. durable < Prefix => EncodeInto(durable, Prefix) # <<>>
  <2> SUFFICES ASSUME durable < Prefix, EncodeInto(durable, Prefix) = <<>> PROVE FALSE
    OBVIOUS
  <2>1. offset + HeaderCells <= offset + 0
    BY <1>2, <1>4, <1>8 DEF b, n
  <2> QED BY <1>2, <2>1 DEF HeaderCells
<1> QED BY <1>1, <1>4, <1>7, <1>9 DEF b, n

(* A write of its beginning.                                                *)
LEMMA BatchWrite ==
    ASSUME CoreInv, pc = "commit", NEW x \in Seq(Cell),
           Len(x) <= Len(EncodeInto(durable, Prefix)),
           \A c \in 1..Len(x) : x[c] = EncodeInto(durable, Prefix)[c],
           cache' = Write(cache, offset, x)
    PROVE  /\ offset + Len(x) <= SegmentCells /\ Len(x) \in Nat
           /\ cache' \in File /\ cache.size <= cache'.size /\ cache'.size \in Nat
           /\ x # <<>> => offset + Len(x) <= cache'.size
           /\ cache.size = SegmentCells => cache'.size = SegmentCells
           /\ \A c \in Cells : c < offset => cache'.cells[c] = cache.cells[c]
           /\ \A c \in Cells : c >= offset + Len(x) => cache'.cells[c] = cache.cells[c]
           /\ \A c \in 0..(offset + Len(x) - 1) :
                 cache'.cells[c] = Enc(log, env.base, 0, Prefix)[c + 1]
           /\ Begins(cache', log, env.base, acked) /\ Begins(cache', log, env.base, durable)
<1> DEFINE b == env.base
           n == Prefix
<1>1. /\ Serving /\ n \in Nat /\ durable <= n /\ n <= Len(log) /\ Pos(log, b, n) <= SegmentCells
      /\ EncodeInto(durable, Prefix) = Enc(log, b, durable, n)
  BY BatchFacts
<1>2. /\ b \in Nat \ {0} /\ log \in Seq(Payloads) /\ cache \in File /\ cache.size \in Nat
      /\ Begins(cache, log, b, acked)
      /\ Pos(log, b, acked) \in Nat /\ SegmentCells \in Nat
  BY CoreTypes
<1>3. /\ durable \in Nat /\ offset = Pos(log, b, durable) /\ Begins(cache, log, b, durable)
      /\ Pos(log, b, acked) <= offset /\ offset \in Nat
  BY <1>1, HandlePlace
<1>4. Len(x) <= Len(Enc(log, b, durable, n)) /\ \A c \in 1..Len(x) : x[c] = Enc(log, b, durable, n)[c]
  BY <1>1
<1>5. Enc(log, b, 0, n) = Enc(log, env.base, 0, Prefix)
  OBVIOUS
<1>6. cache' = Write(cache, offset, x)
  OBVIOUS
<1> HIDE DEF b, n
<1>7. /\ offset + Len(x) <= SegmentCells
      /\ cache' \in File /\ cache.size <= cache'.size
      /\ x # <<>> => offset + Len(x) <= cache'.size
      /\ cache.size = SegmentCells => cache'.size = SegmentCells
      /\ \A c \in Cells : c < offset => cache'.cells[c] = cache.cells[c]
      /\ \A c \in Cells : c >= offset + Len(x) => cache'.cells[c] = cache.cells[c]
      /\ \A c \in 0..(offset + Len(x) - 1) : cache'.cells[c] = Enc(log, b, 0, n)[c + 1]
  <2>1. LET o == Pos(log, b, durable)
            g == Write(cache, o, x)
        IN  /\ o \in 0..SegmentCells /\ o + Len(x) <= SegmentCells
            /\ g \in File /\ cache.size <= g.size
            /\ x # <<>> => o + Len(x) <= g.size
            /\ cache.size = SegmentCells => g.size = SegmentCells
            /\ \A c \in Cells : c < o => g.cells[c] = cache.cells[c]
            /\ \A c \in Cells : c >= o + Len(x) => g.cells[c] = cache.cells[c]
            /\ \A c \in 0..(o + Len(x) - 1) : g.cells[c] = Enc(log, b, 0, n)[c + 1]
    <3>1. /\ b \in Nat \ {0} /\ log \in Seq(Payloads) /\ durable \in Nat /\ n \in Nat
          /\ durable <= n /\ n <= Len(log) /\ Pos(log, b, n) <= SegmentCells
          /\ cache \in File /\ Begins(cache, log, b, durable)
      BY <1>1, <1>2, <1>3
    <3> QED BY <1>4, <3>1, WriteRecords
  <2> QED BY <1>3, <1>6, <2>1
<1>8. cache'.size \in Nat /\ Len(x) \in Nat
  BY <1>2, <1>7 DEF File
<1>9. Begins(cache', log, b, acked)
  <2>1. \A c \in Cells : c < Pos(log, b, acked) => cache'.cells[c] = cache.cells[c]
    <3> TAKE c \in Cells
    <3>1. c \in Int
      BY <1>2 DEF Cells
    <3> QED BY <1>2, <1>3, <1>7, <3>1
  <2> QED BY <1>2, <2>1, BeginsKept
<1>10. Begins(cache', log, b, durable)
  <2>1. Pos(log, b, durable) \in Nat /\ \A c \in Cells : c < Pos(log, b, durable) => cache'.cells[c] = cache.cells[c]
    BY <1>3, <1>7
  <2> QED BY <1>3, <2>1, BeginsKept
<1> QED BY <1>5, <1>7, <1>8, <1>9, <1>10 DEF b, n

LEMMA WholeBatch ==
    ASSUME CoreInv, CommitWrite
    PROVE  /\ EncodeInto(durable, Prefix) \in Seq(Cell) /\ pc = "commit"
           /\ Prefix > durable /\ Prefix' = Prefix
           /\ cache' = Write(cache, offset, EncodeInto(durable, Prefix))
           /\ Len(EncodeInto(durable, Prefix)) <= Len(EncodeInto(durable, Prefix))
           /\ \A c \in 1..Len(EncodeInto(durable, Prefix)) :
                 EncodeInto(durable, Prefix)[c] = EncodeInto(durable, Prefix)[c]
<1>1. pc = "commit" /\ Prefix > durable /\ cache' = Write(cache, offset, EncodeInto(durable, Prefix))
  BY DEF CommitWrite
<1>2. EncodeInto(durable, Prefix) \in Seq(Cell) /\ Len(EncodeInto(durable, Prefix)) \in Nat
  BY <1>1, BatchFacts
<1>3. Prefix' = Prefix
  BY PrefixSame DEF CommitWrite, scanVars, logVars, fixedVars
<1> QED BY <1>1, <1>2, <1>3

LEMMA CoreCommitWrite ==
    ASSUME CoreInv, CommitWrite PROVE CoreInv'
<1> DEFINE x == EncodeInto(durable, Prefix)
<1>1. /\ pc = "commit" /\ pc' = "sync" /\ poisoned' = poisoned /\ log' = log
      /\ disk' = disk /\ offset' = offset /\ cursor' = cursor /\ found' = found
      /\ durable' = durable /\ acked' = acked /\ max' = max
      /\ sealed' = sealed /\ cuts' = cuts /\ env' = env
  BY DEF CommitWrite, scanVars, logVars, fixedVars
<1>2. /\ x \in Seq(Cell) /\ Prefix > durable /\ Prefix' = Prefix /\ cache' = Write(cache, offset, x)
      /\ Len(x) <= Len(EncodeInto(durable, Prefix))
      /\ \A c \in 1..Len(x) : x[c] = EncodeInto(durable, Prefix)[c]
  BY WholeBatch
<1>3. /\ Serving /\ Prefix \in Nat /\ durable < Prefix /\ durable \in Nat
      /\ Pos(log, env.base, Prefix) = offset + Len(x) /\ x # <<>>
      /\ Pos(log, env.base, Prefix) <= SegmentCells
  <2>1. Prefix \in Nat /\ durable \in Nat
    BY <1>1, BatchFacts, CoreTypes
  <2> QED BY <1>1, <1>2, <2>1, BatchFacts
<1> HIDE DEF x
<1>4. /\ Len(x) \in Nat /\ cache' \in File /\ cache.size <= cache'.size /\ cache'.size \in Nat
      /\ x # <<>> => offset + Len(x) <= cache'.size
      /\ \A c \in 0..(offset + Len(x) - 1) :
            cache'.cells[c] = Enc(log, env.base, 0, Prefix)[c + 1]
      /\ Begins(cache', log, env.base, acked) /\ Begins(cache', log, env.base, durable)
  <2> DEFINE y == EncodeInto(durable, Prefix)
  <2>1. Len(x) <= Len(y) /\ \A c \in 1..Len(x) : x[c] = y[c]
    BY <1>2
  <2> QED BY <1>1, <1>2, <2>1, BatchWrite
<1>5. Begins(cache', log, env.base, Prefix)
  <2> DEFINE z == Enc(log, env.base, 0, Prefix)
  <2>0. \A c \in 0..(offset + Len(x) - 1) : cache'.cells[c] = z[c + 1]
    BY <1>4
  <2>1. \A c \in 0..(Pos(log, env.base, Prefix) - 1) : cache'.cells[c] = z[c + 1]
    <3> HIDE DEF z
    <3> TAKE c \in 0..(Pos(log, env.base, Prefix) - 1)
    <3>1. c \in 0..(offset + Len(x) - 1)
      <4>1. offset \in Nat /\ Len(x) \in Nat
        BY <1>3, <1>4, HandlePlace
      <4> QED BY <1>3, <4>1
    <3> QED BY <2>0, <3>1
  <2> QED BY <1>3, <2>1 DEF Begins
<1>6. SegType'
  BY <1>1, <1>4 DEF CoreInv, SegType, Capacity
<1>7. Handle'
  <2>1. /\ Prefix' > durable' /\ Begins(cache', log', env'.base, Prefix')
        /\ Pos(log', env'.base, Prefix') <= cache'.size
    BY <1>1, <1>2, <1>3, <1>4, <1>5
  <2>2. durable <= Len(log) /\ offset = Pos(log, env.base, durable)
    BY <1>3, HandlePlace
  <2> QED BY <1>1, <1>4, <2>1, <2>2 DEF Handle, Recovering
<1>8. Kept'
  <2>1. Pos(log, env.base, acked) <= cache'.size
    BY <1>4, CoreTypes
  <2> QED BY <1>1, <1>4, <2>1 DEF CoreInv, Kept, Recovering
<1> QED BY <1>6, <1>7, <1>8 DEF CoreInv

(* A write that stops early.                                                *)
LEMMA PartOfBatch ==
    ASSUME CoreInv, CommitWriteFails
    PROVE  /\ pc = "commit" /\ Prefix > durable
           /\ \E x \in Seq(Cell) :
                 /\ Len(x) <= Len(EncodeInto(durable, Prefix))
                 /\ \A c \in 1..Len(x) : x[c] = EncodeInto(durable, Prefix)[c]
                 /\ cache' = Write(cache, offset, x)
<1> DEFINE y == EncodeInto(durable, Prefix)
<1>1. pc = "commit" /\ Prefix > durable
  BY DEF CommitWriteFails
<1>2. y \in Seq(Cell) /\ Len(y) \in Nat
  BY <1>1, BatchFacts
<1>3. PICK n \in 0..(Len(y) - 1) : cache' = Write(cache, offset, SubSeq(y, 1, n))
  BY DEF CommitWriteFails
<1> HIDE DEF y
<1> DEFINE x == SubSeq(y, 1, n)
<1>4. x \in Seq(Cell) /\ Len(x) = n /\ \A c \in 1..n : x[c] = y[c]
  <2>1. n \in Nat /\ \A c \in 1..n : c \in 1..Len(y)
    BY <1>2
  <2> HIDE DEF Cell
  <2> QED BY <1>2, <2>1
<1>5. Len(x) <= Len(y)
  BY <1>2, <1>4
<1> HIDE DEF x
<1>6. cache' = Write(cache, offset, x)
  BY <1>3 DEF x
<1> QED BY <1>1, <1>4, <1>5, <1>6 DEF y

LEMMA CoreWriteFails ==
    ASSUME CoreInv, CommitWriteFails PROVE CoreInv'
<1>1. /\ pc = "commit" /\ pc' = "idle" /\ poisoned' /\ poisoned' \in BOOLEAN /\ log' = log
      /\ disk' = disk /\ offset' = offset /\ cursor' = cursor /\ found' = found
      /\ durable' = durable /\ acked' = acked /\ max' = max
      /\ sealed' = sealed /\ cuts' = cuts /\ env' = env
  BY DEF CommitWriteFails, scanVars, logVars, fixedVars
<1>2. PICK x \in Seq(Cell) :
         /\ Len(x) <= Len(EncodeInto(durable, Prefix))
         /\ \A c \in 1..Len(x) : x[c] = EncodeInto(durable, Prefix)[c]
         /\ cache' = Write(cache, offset, x)
  BY PartOfBatch
<1>3. /\ cache' \in File /\ cache.size <= cache'.size /\ cache'.size \in Nat
      /\ Begins(cache', log, env.base, acked)
  BY <1>1, <1>2, BatchWrite
<1>4. SegType'
  BY <1>1, <1>3 DEF CoreInv, SegType, Capacity
<1>5. Handle'
  BY <1>1 DEF Handle, Recovering, Serving
<1>6. Kept'
  <2>1. Pos(log, env.base, acked) <= cache'.size
    BY <1>3, CoreTypes
  <2> QED BY <1>1, <1>3, <2>1 DEF CoreInv, Kept, Recovering
<1> QED BY <1>4, <1>5, <1>6 DEF CoreInv

LEMMA CoreSync ==
    ASSUME CoreInv, CommitSync PROVE CoreInv'
<1>1. /\ pc = "sync" /\ pc' \in {"commit", "idle"} /\ poisoned' = poisoned /\ log' = log
      /\ cache' = cache /\ disk' = cache /\ cursor' = cursor /\ found' = found
      /\ offset' = offset + Len(EncodeInto(durable, Prefix))
      /\ durable' = Prefix /\ acked' = Prefix /\ max' = max
      /\ sealed' = sealed /\ cuts' = cuts /\ env' = env
  BY DEF CommitSync, fixedVars
<1>2. /\ Serving /\ Prefix \in Nat /\ Prefix <= Len(log)
      /\ offset' = Pos(log, env.base, Prefix) /\ Pos(log, env.base, Prefix) <= SegmentCells
  BY <1>1, BatchFacts
<1>3. /\ Begins(cache, log, env.base, Prefix) /\ Pos(log, env.base, Prefix) <= cache.size
  BY <1>1 DEF CoreInv, Handle
<1>4. offset' \in 0..SegmentCells
  <2>1. offset' \in Nat
    BY <1>1, <1>2, BatchFacts, HandlePlace
  <2> QED BY <1>2, <2>1, SegmentAssumption
<1>5. SegType'
  <2>1. Prefix \in Nat /\ ~poisoned /\ poisoned \in BOOLEAN
    BY <1>1, <1>2 DEF CoreInv, SegType
  <2> QED BY <1>1, <1>4, <2>1 DEF CoreInv, SegType, Capacity
<1>6. Handle'
  BY <1>1, <1>2, <1>3 DEF Handle, Recovering, Serving
<1>7. Kept'
  <2>1. Prefix <= Prefix
    BY <1>2
  <2> QED BY <1>1, <1>2, <1>3, <2>1 DEF Kept, Recovering
<1> QED BY <1>5, <1>6, <1>7 DEF CoreInv

LEMMA CoreRoll ==
    ASSUME CoreInv, Roll PROVE CoreInv'
<1>1. /\ pc = "commit" /\ pc' = "closed" /\ ~poisoned' /\ poisoned' \in BOOLEAN
      /\ log' = SubSeq(log, 1, durable)
      /\ cache' = cache /\ disk' = disk /\ cursor' = 0 /\ found' = <<>> /\ offset' = 0
      /\ durable' = 0 /\ acked' = acked /\ max' = max
      /\ sealed' = durable /\ cuts' = cuts /\ env' = env
  BY DEF Roll, Closed, fileVars
<1>2. durable \in Nat /\ durable <= Len(log) /\ acked <= durable /\ acked \in Nat
  BY <1>1, BatchFacts, HandlePlace, CoreTypes
<1>3. /\ log' \in Seq(Payloads) /\ Len(log') = durable /\ \A i \in 1..durable : log'[i] = log[i]
  BY <1>1, <1>2, CoreTypes
<1>4. SegType'
  <2>1. Len(log') <= Capacity /\ 0 <= Capacity
    BY <1>2, <1>3, CoreTypes DEF Capacity
  <2>2. \A i \in 1..Len(log') : Length[log'[i]] <= max
    BY <1>2, <1>3 DEF CoreInv, SegType
  <2>3. 0 \in 0..SegmentCells /\ <<>> \in Seq(Payloads) /\ Len(<<>>) = 0
    BY SegmentAssumption
  <2>4. Capacity' = Capacity
    BY <1>1 DEF Capacity
  <2> QED BY <1>1, <1>2, <1>3, <2>1, <2>2, <2>3, <2>4 DEF CoreInv, SegType
<1>5. Handle'
  BY <1>1 DEF Handle, Recovering, Serving
<1>6. Kept'
  <2>1. \A i \in 1..acked : log'[i] = log[i]
    BY <1>2, <1>3
  <2>2. \A f \in {cache, disk} :
           Begins(f, log', env.base, acked) /\ Pos(log', env.base, acked) <= f.size
    BY <2>1, KeptLog
  <2>3. acked <= Len(log')
    BY <1>2, <1>3
  <2> QED BY <1>1, <2>2, <2>3 DEF Kept, Recovering
<1> QED BY <1>4, <1>5, <1>6 DEF CoreInv

(* What writeback leaves on the device is the old cell or the new one.      *)
LEMMA WritebackFacts ==
    ASSUME CoreInv, NEW g \in Pages, Writeback(g)
    PROVE  /\ disk' \in File /\ disk'.size = cache.size
           /\ \A c \in Cells : disk'.cells[c] \in {cache.cells[c], disk.cells[c]}
<1>1. cache \in File /\ disk \in File
  BY CoreTypes
<1>2. PICK out : disk' = [cells |-> [c \in Cells |-> IF c \in out THEN cache.cells[c]
                                                   ELSE disk.cells[c]],
                          size |-> cache.size]
  BY DEF Writeback
<1>3. \A c \in Cells : disk'.cells[c] = IF c \in out THEN cache.cells[c] ELSE disk.cells[c]
  BY <1>2
<1> QED BY <1>1, <1>2, <1>3 DEF File

LEMMA CoreWriteback ==
    ASSUME CoreInv, NEW g \in Pages, Writeback(g) PROVE CoreInv'
<1>1. /\ pc' = pc /\ poisoned' = poisoned /\ log' = log
      /\ cache' = cache /\ offset' = offset /\ cursor' = cursor /\ found' = found
      /\ durable' = durable /\ acked' = acked /\ max' = max
      /\ sealed' = sealed /\ cuts' = cuts /\ env' = env
  BY DEF Writeback, scanVars, logVars
<1>2. /\ disk' \in File /\ disk'.size = cache.size
      /\ \A c \in Cells : disk'.cells[c] \in {cache.cells[c], disk.cells[c]}
  BY WritebackFacts
<1>3. Prefix' = Prefix
  BY <1>1, PrefixSame
<1>4. SegType'
  BY <1>1, <1>2 DEF CoreInv, SegType, Capacity
<1>5. Handle'
  BY <1>1, <1>3 DEF CoreInv, Handle, Serving
<1>6. Begins(disk', log, env.base, acked)
  <2>1. Begins(cache, log, env.base, acked) /\ Begins(disk, log, env.base, acked)
    BY CoreTypes
  <2>2. ASSUME NEW c \in 0..(Pos(log, env.base, acked) - 1)
        PROVE  disk'.cells[c] = Enc(log, env.base, 0, acked)[c + 1]
    <3>1. c \in Cells
      <4>1. Pos(log, env.base, acked) \in Nat /\ Pos(log, env.base, acked) <= SegmentCells
        BY <2>1, CoreTypes DEF Begins
      <4> QED BY <4>1, SegmentAssumption DEF Cells
    <3>2. /\ cache.cells[c] = Enc(log, env.base, 0, acked)[c + 1]
          /\ disk.cells[c] = Enc(log, env.base, 0, acked)[c + 1]
      BY <2>1 DEF Begins
    <3> QED BY <1>2, <3>1, <3>2
  <2> QED BY <2>1, <2>2 DEF Begins
<1>7. Kept'
  <2>1. Pos(log, env.base, acked) <= disk'.size
    BY <1>2, CoreTypes
  <2> QED BY <1>1, <1>6, <2>1 DEF CoreInv, Kept
<1> QED BY <1>4, <1>5, <1>7 DEF CoreInv

(* A file that is cut short keeps the acknowledged records below the cut,   *)
(* and the others are not promised any more.                                *)
LEMMA CoreCut ==
    ASSUME CoreInv, NEW n \in 0..SegmentCells, Cut(n) PROVE CoreInv'
<1>1. /\ pc = "closed" /\ pc' = pc /\ poisoned' = poisoned /\ log' = log
      /\ cache' = [cells |-> [c \in Cells |-> IF c < n THEN cache.cells[c] ELSE Zero], size |-> n]
      /\ disk' = cache'
      /\ offset' = offset /\ cursor' = cursor /\ found' = found
      /\ durable' = durable /\ acked' = MinOf(acked, Below(n)) /\ max' = max
      /\ sealed' = sealed /\ cuts' = cuts + 1 /\ env' = env
  BY DEF Cut, scanVars
<1>2. n \in Nat /\ cache \in File /\ log \in Seq(Payloads) /\ acked \in Nat /\ acked <= Len(log)
  BY SegmentAssumption, CoreTypes
<1>3. Below(n) \in 0..Len(log) /\ Pos(log, env.base, Below(n)) <= n
  BY <1>2, BelowFacts DEF CoreInv, SegType
<1>4. acked' \in Nat /\ acked' <= acked /\ acked' <= Below(n) /\ Below(n) \in Nat /\ Below(n) <= Len(log)
  BY <1>1, <1>2, <1>3 DEF MinOf
<1> DEFINE b == env.base
           k == Below(n)
           a == acked'
<1>5. b \in Nat \ {0} /\ k \in Nat /\ k <= Len(log) /\ a \in Nat /\ a <= acked /\ a <= k /\ Pos(log, b, k) <= n
  BY <1>3, <1>4, CoreTypes
<1>6. Begins(cache, log, b, acked)
  BY CoreTypes
<1> HIDE DEF b, k, a
<1>7. Begins(cache, log, b, a)
  BY <1>2, <1>5, <1>6, BeginsLess
<1>8. Pos(log, b, a) \in Nat /\ Pos(log, b, a) <= n
  BY <1>2, <1>5, PosGrows
<1>9. cache' \in File /\ cache'.size = n /\ \A c \in Cells : c < n => cache'.cells[c] = cache.cells[c]
  <2>1. /\ cache'.size = n
        /\ cache'.cells = [c \in Cells |-> IF c < n THEN cache.cells[c] ELSE Zero]
        /\ cache' = [cells |-> cache'.cells, size |-> cache'.size]
    BY <1>1
  <2>2. cache.cells \in [Cells -> Cell] /\ Zero \in Cell
    BY <1>2 DEF File, Cell
  <2>3. cache'.cells \in [Cells -> Cell]
    <3> HIDE DEF Cell
    <3> QED BY <2>1, <2>2
  <2> QED BY <2>1, <2>3 DEF File
<1>10. Begins(cache', log, b, a)
  <2>1. \A c \in Cells : c < Pos(log, b, a) => cache'.cells[c] = cache.cells[c]
    <3> TAKE c \in Cells
    <3>1. c \in Int
      BY SegmentAssumption DEF Cells
    <3> QED BY <1>2, <1>8, <1>9, <3>1
  <2> QED BY <1>7, <1>8, <2>1, BeginsKept
<1>11. SegType'
  <2>1. cuts' \in Nat
    BY <1>1 DEF CoreInv, SegType
  <2> QED BY <1>1, <1>4, <1>9, <2>1 DEF CoreInv, SegType, Capacity
<1>12. Handle'
  BY <1>1 DEF Handle, Recovering, Serving
<1>13. Kept'
  <2>1. acked' <= Len(log)
    BY <1>2, <1>4
  <2> QED BY <1>1, <1>8, <1>9, <1>10, <2>1 DEF Kept, Recovering, b, a
<1> QED BY <1>11, <1>12, <1>13 DEF CoreInv

LEMMA CoreStep ==
    ASSUME CoreInv, [Next]_vars PROVE CoreInv'
<1>1. CASE Open
  BY <1>1, CoreOpen
<1>2. CASE Recovery
  BY <1>2, CoreScanRecord, CoreScanEnds, CoreZeroChunk, CoreZeroSync DEF Recovery
<1>3. CASE Writer
  BY <1>3, CoreAppend, CoreCommit, CoreCommitWrite, CoreWriteFails, CoreSync, CoreSyncFails,
     CoreRoll, CoreCloseHandle DEF Writer
<1>4. CASE Environment
  BY <1>4, CoreWriteback, CoreCloseHandle, CoreCut DEF Environment
<1>5. CASE UNCHANGED vars
  BY <1>5, CoreStutter
<1> QED BY <1>1, <1>2, <1>3, <1>4, <1>5 DEF Next

(* The invariant of recovery and of the handle: what a scan has accepted,   *)
(* what the handle believes and what was acknowledged is in the file.       *)
THEOREM CoreInvariant == Spec => []CoreInv
<1>1. CoreInv /\ [Next]_vars => CoreInv'
  BY CoreStep
<1> QED BY CoreStart, <1>1, PTL DEF Spec

(* What the handle believes is what the file holds (D7, write_offset and    *)
(* durable_lsn of src/wal.rs), for every setting.                           *)
THEOREM HandleTrue == Spec => []HandleIsFile
<1>1. CoreInv => HandleIsFile
  <2> SUFFICES ASSUME CoreInv, pc = "idle", ~poisoned
               PROVE  /\ offset = Len(EncodeInto(0, durable))
                      /\ \A c \in 0..(offset - 1) : cache.cells[c] = EncodeInto(0, durable)[c + 1]
    BY DEF HandleIsFile
  <2>1. offset = Pos(log, env.base, durable) /\ Begins(cache, log, env.base, durable)
    BY HandlePlace DEF Serving
  <2>2. EncodeInto(0, durable) = Enc(log, env.base, 0, durable)
    BY EncodeIntoIsEnc
  <2> QED BY <2>1, <2>2 DEF Begins, Pos
<1> QED BY <1>1, CoreInvariant, PTL

(* An open hands out every acknowledged record, with its payload: recovery  *)
(* truncates nothing a commit has acknowledged, in whatever order the pages *)
(* of the unsynced writes reached the device (recover_segment).             *)
THEOREM AckedRecordsKept == Spec => AckedKept
<1>1. CoreInv /\ [Next]_vars =>
        [(pc \in Recovering /\ pc' = "idle") =>
            (/\ Len(log') >= acked
             /\ \A i \in 1..acked : log'[i] = log[i])]_vars
  <2> SUFFICES ASSUME CoreInv, Next, pc \in Recovering, pc' = "idle"
               PROVE  Len(log') >= acked /\ \A i \in 1..acked : log'[i] = log[i]
    OBVIOUS
  <2>1. CoreInv'
    BY CoreStep
  <2>2. ScanEnd \/ ZeroSync
    BY DEF Next, Recovery, Writer, Environment, Recovering, Open, ScanRecord, Classify, AtCapacity,
       Fail, TornTail, ZeroChunk, AppendRecord, Commit, CommitWrite, CommitWriteFails, CommitSync,
       CommitSyncFails, Roll, Closed, CloseHandle, Writeback, LosePower, Cut
  <2>3. Opened /\ acked' = acked /\ pc \in Recovering
    BY <2>2 DEF ScanEnd, ZeroSync, Closed, Fail, Recovering
  <2>4. acked <= Len(log')
    BY <2>1, <2>3 DEF CoreInv, Kept
  <2>5. acked \in Nat /\ Len(log') = Len(found) /\ log' = found /\ Len(found) \in Nat
    BY <2>3, CoreTypes DEF Opened
  <2>6. \A i \in 1..acked : log'[i] = log[i]
    BY <2>4, <2>5, ScanPlace
  <2> QED BY <2>4, <2>5, <2>6
<1> QED BY <1>1, CoreInvariant, PTL DEF Spec, AckedKept

-----------------------------------------------------------------------------
(* Pages that persist in the order they were written.                       *)

LEMMA DivGrows ==
    ASSUME NEW p \in Nat \ {0}, NEW a \in Nat, NEW c \in Nat, a <= c
    PROVE  a \div p <= c \div p
OBVIOUS

(* Where the first m records end, the file is zero from there on or has the *)
(* first cell of the next record.                                           *)
LEMMA ShapeNext ==
    ASSUME NEW b \in Nat \ {0}, NEW s \in Seq(Payloads), NEW f, NEW t \in 0..SegmentCells,
           Shape(f, s, b, t), NEW m \in Nat, m <= Len(s)
    PROVE  \/ ZeroFrom(f, Pos(s, b, m))
           \/ /\ m + 1 <= Len(s) /\ Pos(s, b, m) + 3 <= SegmentCells
              /\ f.cells[Pos(s, b, m)] = Piece(b + m, s[m + 1], 0)
<1>1. PICK k \in 0..Len(s) :
         /\ t <= Pos(s, b, k) /\ Pos(s, b, k) <= SegmentCells
         /\ \A c \in 0..(t - 1) : f.cells[c] = Enc(s, b, 0, k)[c + 1]
  BY DEF Shape
<1>2. ZeroFrom(f, t)
  BY DEF Shape
<1> DEFINE o == Pos(s, b, m)
<1>3. k \in Nat /\ k <= Len(s) /\ SegmentCells \in Nat /\ t \in Nat
  BY SegmentAssumption
<1>4. o \in Nat
  <2>1. m <= m
    OBVIOUS
  <2> QED BY <2>1, PosGrows
<1>5. CASE t <= o
  <2> HIDE DEF o
  <2>1. ZeroFrom(f, o)
    BY <1>2, <1>3, <1>4, <1>5 DEF ZeroFrom
  <2> QED BY <2>1 DEF o
<1>6. CASE o < t
  <2>1. m < k
    <3> SUFFICES ASSUME k <= m PROVE FALSE
      BY <1>3
    <3>1. Pos(s, b, k) <= Pos(s, b, m) /\ Pos(s, b, k) \in Nat
      BY <1>3, PosGrows
    <3> QED BY <1>1, <1>3, <1>4, <1>6, <3>1
  <2> DEFINE n == m + 1
  <2>2. n \in 1..k /\ n <= Len(s) /\ n - 1 = m /\ b + n - 1 = b + m /\ n \in Nat /\ n <= k
    BY <1>3, <2>1
  <2> HIDE DEF n
  <2>3. /\ Pos(s, b, n) = Pos(s, b, n - 1) + Frame(s[n]) /\ s[n] \in Payloads
        /\ \A i \in 0..(Frame(s[n]) - 1) :
              Enc(s, b, 0, k)[Pos(s, b, n - 1) + i + 1] = Piece(b + n - 1, s[n], i)
    BY <1>3, <2>2, EncPlace
  <2>4. Frame(s[n]) \in Nat /\ Frame(s[n]) >= 3
    BY <2>3, FrameType
  <2>5. Enc(s, b, 0, k)[o + 1] = Piece(b + m, s[n], 0)
    <3>1. Enc(s, b, 0, k)[Pos(s, b, n - 1) + 0 + 1] = Piece(b + n - 1, s[n], 0)
      BY <2>3, <2>4
    <3>2. Pos(s, b, n - 1) + 0 + 1 = o + 1
      BY <1>4, <2>2
    <3> QED BY <2>2, <3>1, <3>2
  <2>6. o \in 0..(t - 1)
    BY <1>3, <1>4, <1>6
  <2>7. f.cells[o] = Piece(b + m, s[n], 0)
    <3> HIDE DEF o
    <3> QED BY <1>1, <2>5, <2>6
  <2>8. Pos(s, b, n) <= Pos(s, b, k) /\ Pos(s, b, n) \in Nat /\ Pos(s, b, k) \in Nat
    BY <1>3, <2>2, PosGrows
  <2>9. o + 3 <= SegmentCells
    BY <1>1, <1>3, <1>4, <2>2, <2>3, <2>4, <2>8
  <2> QED BY <2>2, <2>7, <2>9 DEF n
<1> QED BY <1>3, <1>4, <1>5, <1>6

(* Behind a record that is not whole no record decodes.                     *)
LEMMA NoLaterRecord ==
    ASSUME NEW b \in Nat \ {0}, NEW s \in Seq(Payloads), NEW f \in File,
           NEW t \in 0..SegmentCells, Shape(f, s, b, t), NEW m \in Nat, m <= Len(s),
           NEW mx \in Nat, NEW o \in Cells, o > Pos(s, b, m), RecordAt(f, o, mx)
    PROVE  /\ m + 1 \in 1..Len(s) /\ RecordIn(f, s, b, m + 1)
           /\ Pos(s, b, m + 1) <= SegmentCells /\ Pos(s, b, m + 1) <= f.size
<1>1. PICK k \in 0..Len(s) :
         /\ t <= Pos(s, b, k) /\ Pos(s, b, k) <= SegmentCells
         /\ \A c \in 0..(t - 1) : f.cells[c] = Enc(s, b, 0, k)[c + 1]
  BY DEF Shape
<1>2. k \in Nat /\ k <= Len(s) /\ SegmentCells \in Nat /\ t \in Nat /\ o \in Nat /\ o < SegmentCells
  BY SegmentAssumption DEF Cells
<1>3. Pos(s, b, k) \in Nat /\ Pos(s, b, m) \in Nat
  <2>1. m <= m /\ k <= k
    BY <1>2
  <2> QED BY <1>2, <2>1, PosGrows
<1>4. o < t
  <2> SUFFICES ASSUME t <= o PROVE FALSE
    BY <1>2
  <2>1. o \in t..(SegmentCells - 1)
    BY <1>2
  <2>2. f.cells[o] = Zero
    BY <2>1 DEF Shape, ZeroFrom
  <2>3. Starts(f.cells[o])
    BY DEF RecordAt
  <2> QED BY <2>2, <2>3 DEF Starts, Zero
<1>5. o \in 0..(t - 1) /\ o \in 0..(Pos(s, b, k) - 1)
  BY <1>1, <1>2, <1>3, <1>4
<1>6. PICK n \in 1..k : \E i \in 0..(Frame(s[n]) - 1) :
         o = Pos(s, b, n - 1) + i /\ Enc(s, b, 0, k)[o + 1] = Piece(b + n - 1, s[n], i)
  BY <1>2, <1>5, EncWhere
<1>7. PICK i \in 0..(Frame(s[n]) - 1) :
         o = Pos(s, b, n - 1) + i /\ Enc(s, b, 0, k)[o + 1] = Piece(b + n - 1, s[n], i)
  BY <1>6
<1>8. s[n] \in Payloads /\ Frame(s[n]) \in Nat /\ i \in Nat
  BY <1>2, FrameType
<1>9. f.cells[o] = Piece(b + n - 1, s[n], i)
  BY <1>1, <1>5, <1>7
<1>10. i = 0
  BY <1>8, <1>9, PieceGoesOn DEF RecordAt
<1> DEFINE q == n - 1
           r == m + 1
<1>11. q \in Nat /\ q <= Len(s) /\ q <= k /\ r \in Nat /\ r - 1 = m /\ q \in Int
  BY <1>2
<1>12. o = Pos(s, b, q)
  <2>1. Pos(s, b, q) \in Nat
    <3> HIDE DEF q
    <3>1. q <= q
      BY <1>11
    <3> QED BY <1>11, <3>1, PosGrows
  <2> QED BY <1>7, <1>10, <2>1
<1> HIDE DEF q
<1>13. m < q
  <2> SUFFICES ASSUME q <= m PROVE FALSE
    BY <1>11
  <2>1. Pos(s, b, q) <= Pos(s, b, m) /\ Pos(s, b, q) \in Nat
    BY <1>11, PosGrows
  <2> QED BY <1>3, <1>12, <2>1
<1>14. r <= q /\ r \in 1..k /\ r \in 1..Len(s) /\ r <= k
  BY <1>2, <1>11, <1>13
<1> HIDE DEF r
<1>15. Pos(s, b, r) <= o /\ Pos(s, b, r) \in Nat
  BY <1>11, <1>12, <1>14, PosGrows
<1>16. /\ Pos(s, b, r - 1) \in Nat /\ Pos(s, b, r) = Pos(s, b, r - 1) + Frame(s[r]) /\ s[r] \in Payloads
       /\ \A j \in 0..(Frame(s[r]) - 1) :
             Enc(s, b, 0, k)[Pos(s, b, r - 1) + j + 1] = Piece(b + r - 1, s[r], j)
  BY <1>2, <1>14, EncPlace
<1>17. Frame(s[r]) \in Nat
  BY <1>16, FrameType
<1>18. RecordIn(f, s, b, r)
  <2> SUFFICES ASSUME NEW j \in 0..(Frame(s[r]) - 1)
               PROVE  f.cells[Pos(s, b, r - 1) + j] = Piece(b + r - 1, s[r], j)
    BY DEF RecordIn
  <2> DEFINE c == Pos(s, b, r - 1) + j
  <2>1. c \in 0..(t - 1)
    <3>1. j \in Nat /\ j < Frame(s[r])
      BY <1>17
    <3>2. c \in Nat /\ c < Pos(s, b, r)
      <4> DEFINE w == Pos(s, b, r - 1)
      <4>1. w \in Nat /\ Pos(s, b, r) = w + Frame(s[r]) /\ c = w + j
        BY <1>16
      <4> HIDE DEF w, c
      <4> QED BY <1>17, <3>1, <4>1
    <3> HIDE DEF c
    <3> QED BY <1>2, <1>4, <1>15, <3>2
  <2>2. Enc(s, b, 0, k)[c + 1] = Piece(b + r - 1, s[r], j)
    BY <1>16
  <2> HIDE DEF c
  <2>3. f.cells[c] = Piece(b + r - 1, s[r], j)
    BY <1>1, <2>1, <2>2
  <2> QED BY <2>3 DEF c
<1>19. Pos(s, b, r) <= f.size /\ Pos(s, b, r) <= SegmentCells
  <2> DEFINE p == f.cells[o][2]
  <2>1. p \in Payloads /\ o + Frame(p) <= f.size
    BY <1>2, DecodesTo
  <2>2. Frame(p) \in Nat
    BY <2>1, FrameType
  <2>3. f.size \in Nat
    BY <1>2 DEF File
  <2> HIDE DEF p
  <2> QED BY <1>2, <1>15, <2>1, <2>2, <2>3
<1> QED BY <1>14, <1>18, <1>19 DEF r

(* The scan of such a file: what it has found is the beginning of the log.  *)
LEMMA TidyScan ==
    ASSUME CoreInv, Tidy, pc \in Recovering
    PROVE  /\ Len(found) \in Nat /\ Len(found) <= Len(log)
           /\ \A i \in 1..Len(found) : found[i] = log[i]
           /\ offset = Pos(log, env.base, Len(found))
           /\ Begins(cache, log, env.base, Len(found))
<1>1. /\ Len(found) \in Nat /\ Len(found) <= Len(log) /\ \A i \in 1..Len(found) : found[i] = log[i]
  BY CoreTypes DEF Tidy
<1> DEFINE b == env.base
           n == Len(found)
<1>2. offset = Pos(found, b, n) /\ Begins(cache, found, b, n)
  BY ScanPlace
<1>3. n \in Nat /\ \A i \in 1..n : found[i] = log[i]
  BY <1>1
<1> HIDE DEF b, n
<1>4. Pos(found, b, n) = Pos(log, b, n)
  BY <1>3, BeginsEqual
<1>5. Begins(cache, log, b, n)
  BY <1>2, <1>3, BeginsEqual
<1> QED BY <1>1, <1>2, <1>4, <1>5 DEF b, n

(* Where it is, the file has the next record's first cell or nothing more.  *)
LEMMA TidyNext ==
    ASSUME CoreInv, Tidy, pc \in Recovering
    PROVE  \/ ZeroFrom(cache, offset)
           \/ /\ Len(found) + 1 <= Len(log) /\ offset + 3 <= SegmentCells
              /\ cache.cells[offset] = Piece(env.base + Len(found), log[Len(found) + 1], 0)
<1> DEFINE b == env.base
           n == Len(found)
<1>1. n \in Nat /\ n <= Len(log) /\ offset = Pos(log, b, n) /\ b \in Nat \ {0} /\ log \in Seq(Payloads)
  BY TidyScan, CoreTypes
<1>2. PICK t \in 0..SegmentCells : Shape(cache, log, b, t)
  BY DEF Tidy, Shaped
<1> HIDE DEF b, n
<1>3. \/ ZeroFrom(cache, Pos(log, b, n))
      \/ /\ n + 1 <= Len(log) /\ Pos(log, b, n) + 3 <= SegmentCells
         /\ cache.cells[Pos(log, b, n)] = Piece(b + n, log[n + 1], 0)
  BY <1>1, <1>2, ShapeNext
<1> QED BY <1>1, <1>3 DEF b, n

LEMMA TidyEnd ==
    ASSUME CoreInv, Tidy, pc = "scan", CleanEnd(cache, offset)
    PROVE  ZeroFrom(cache, offset)
<1> SUFFICES ASSUME offset + 3 <= SegmentCells,
                    cache.cells[offset] = Piece(env.base + Len(found), log[Len(found) + 1], 0)
             PROVE  FALSE
  BY TidyNext DEF Recovering
<1>1. offset \in Nat /\ SegmentCells \in Nat
  BY ScanPlace, SegmentAssumption DEF Recovering
<1>2. cache.cells[offset] # Zero
  BY PieceStarts
<1>3. ~(SegmentCells - offset < HeaderCells)
  BY <1>1 DEF HeaderCells
<1>4. 0 \in 0..(HeaderCells - 1) /\ offset + 0 = offset
  BY <1>1 DEF HeaderCells
<1>5. ~ZeroHeader(cache, offset)
  BY <1>2, <1>4 DEF ZeroHeader
<1> QED BY <1>3, <1>5 DEF CleanEnd

LEMMA TidyRecord ==
    ASSUME CoreInv, Tidy, pc = "scan", InOrder
    PROVE  Len(found) + 1 <= Len(log) /\ cache.cells[offset][2] = log[Len(found) + 1]
<1>1. offset \in 0..(SegmentCells - 1)
  BY ScanPlace, SegmentAssumption DEF InOrder, RecordAt, Recovering
<1>2. Starts(cache.cells[offset])
  BY DEF InOrder, RecordAt
<1>3. ~ZeroFrom(cache, offset)
  <2> SUFFICES ASSUME ZeroFrom(cache, offset) PROVE FALSE
    OBVIOUS
  <2>0. offset \in offset..(SegmentCells - 1)
    BY <1>1
  <2>1. cache.cells[offset] = Zero
    BY <2>0 DEF ZeroFrom
  <2> QED BY <1>2, <2>1 DEF Starts, Zero
<1>4. /\ Len(found) + 1 <= Len(log)
      /\ cache.cells[offset] = Piece(env.base + Len(found), log[Len(found) + 1], 0)
  BY <1>3, TidyNext DEF Recovering
<1> QED BY <1>4, PieceStarts

LEMMA TidyTorn ==
    ASSUME CoreInv, Tidy, pc = "scan", ~InOrder, ~Exhausted
    PROVE  ~ForwardScanFindsValid(cache, offset, Expected, max)
<1> SUFFICES ASSUME NEW o \in Cells, o > offset, RecordAt(cache, o, max) PROVE FALSE
  BY DEF ForwardScanFindsValid
<1> DEFINE b == env.base
           m == Len(found)
           n == m + 1
<1>1. /\ m \in Nat /\ m <= Len(log) /\ offset = Pos(log, b, m) /\ b \in Nat \ {0}
      /\ log \in Seq(Payloads) /\ cache \in File /\ max \in Nat
  BY TidyScan, CoreTypes, ScanPlace DEF Recovering
<1>2. PICK t \in 0..SegmentCells : Shape(cache, log, b, t)
  BY DEF Tidy, Shaped
<1>3. n - 1 = m /\ b + n - 1 = b + m /\ Expected = b + m
  BY <1>1 DEF Expected
<1>4. n \in 1..Len(log) => Length[log[n]] <= max
  BY DEF CoreInv, SegType
<1>5. n = m + 1
  OBVIOUS
<1> HIDE DEF b, m, n
<1>6. /\ n \in 1..Len(log) /\ RecordIn(cache, log, b, n)
      /\ Pos(log, b, n) <= SegmentCells /\ Pos(log, b, n) <= cache.size
  BY <1>1, <1>2, <1>5, NoLaterRecord
<1>7. LET q == Pos(log, b, n - 1) IN
      RecordAt(cache, q, max) /\ cache.cells[q][1] = b + n - 1
  BY <1>1, <1>4, <1>6, Decodes
<1>8. RecordAt(cache, offset, max) /\ cache.cells[offset][1] = Expected
  BY <1>1, <1>3, <1>7
<1> QED BY <1>8 DEF InOrder

LEMMA TidyFull ==
    ASSUME CoreInv, Tidy, pc = "scan", Exhausted PROVE ZeroFrom(cache, offset)
<1>1. Len(found) = Capacity /\ Len(log) <= Capacity /\ Len(found) \in Nat /\ Len(log) \in Nat
  BY CoreTypes DEF Exhausted
<1>2. ~(Len(found) + 1 <= Len(log))
  BY <1>1
<1> QED BY <1>2, TidyNext DEF Recovering

(* A sealed segment that nobody damaged is read to its end.                 *)
LEMMA SealedScan ==
    ASSUME CoreInv, Tidy, SealedWhole, pc = "scan", cache.size = SegmentCells
    PROVE  \/ Len(found) = sealed /\ CleanEnd(cache, offset)
           \/ Len(found) < sealed /\ InOrder /\ ~CleanEnd(cache, offset) /\ ~Exhausted
<1> DEFINE b == env.base
           n == Len(found) + 1
<1>1. /\ Len(found) \in Nat /\ Len(found) <= Len(log) /\ offset = Pos(log, b, Len(found))
      /\ b \in Nat \ {0} /\ log \in Seq(Payloads) /\ cache \in File /\ Len(log) \in Nat
      /\ Len(log) <= Capacity /\ Capacity \in Int /\ SegmentCells \in Nat
      /\ offset \in Nat /\ offset <= SegmentCells
  BY TidyScan, CoreTypes, ScanPlace DEF Recovering, Capacity
<1>2. sealed = Len(log) /\ Begins(cache, log, b, sealed) /\ ZeroFrom(cache, Pos(log, b, sealed))
  BY DEF SealedWhole
<1>3. CASE Len(found) = Len(log)
  <2>1. ZeroFrom(cache, offset)
    BY <1>1, <1>2, <1>3
  <2>2. CleanEnd(cache, offset)
    <3> SUFFICES ASSUME SegmentCells - offset >= HeaderCells PROVE ZeroHeader(cache, offset)
      BY <1>1 DEF CleanEnd, HeaderCells
    <3>1. \A k \in 0..(HeaderCells - 1) : offset + k \in offset..(SegmentCells - 1)
      BY <1>1 DEF HeaderCells
    <3> QED BY <2>1, <3>1 DEF ZeroHeader, ZeroFrom
  <2> QED BY <1>2, <1>3, <2>2
<1>4. CASE Len(found) < Len(log)
  <2>1. /\ n \in 1..Len(log) /\ n - 1 = Len(found) /\ b + n - 1 = Expected /\ n <= Len(log)
        /\ Len(log) <= Len(log) /\ n \in Nat
    BY <1>1, <1>4 DEF Expected
  <2>2. Length[log[n]] <= max
    BY <2>1 DEF CoreInv, SegType
  <2> HIDE DEF b, n
  <2>3. RecordIn(cache, log, b, n)
    BY <1>1, <1>2, <2>1, BeginsHas
  <2>4. Pos(log, b, n) <= SegmentCells
    <3> DEFINE k == Len(log)
    <3>1. k \in Nat /\ n <= k /\ k <= Len(log) /\ Pos(log, b, k) <= SegmentCells
      BY <1>1, <1>2, <2>1 DEF Begins
    <3> HIDE DEF k
    <3>2. Pos(log, b, n) \in Nat /\ Pos(log, b, k) \in Nat /\ Pos(log, b, n) <= Pos(log, b, k)
      BY <1>1, <2>1, <3>1, PosGrows
    <3> QED BY <1>1, <3>1, <3>2
  <2>5. LET o == Pos(log, b, n - 1) IN
        /\ RecordAt(cache, o, max) /\ ~CleanEnd(cache, o)
        /\ cache.cells[o][1] = b + n - 1 /\ cache.cells[o][2] = log[n]
    BY <1>1, <2>1, <2>2, <2>3, <2>4, Decodes
  <2>6. /\ RecordAt(cache, offset, max) /\ ~CleanEnd(cache, offset)
        /\ cache.cells[offset][1] = Expected
    BY <1>1, <2>1, <2>5
  <2>7. ~Exhausted
    BY <1>1, <1>4 DEF Exhausted
  <2> QED BY <1>2, <1>4, <2>6, <2>7 DEF InOrder
<1> QED BY <1>1, <1>3, <1>4

(* Where pages persist in the order they were written: no kill falls        *)
(* between two chunks of write_zeros, and where power may fail a zeroed tail*)
(* persists as a whole and the log is reopened over a settled file.  The    *)
(* run with chunks shows what happens otherwise: an open reads the zeros of *)
(* the first chunk as a clean end, a record of the tail it gave up ends up  *)
(* behind the log, and SealedOpens fails.                                   *)
OrderedDevice ==
    \A e \in Settings : ~e.anyOrder =>
        e.zeroStep = SegmentCells /\ (e.powerLoss => e.zeroWhole /\ ~e.warmReopen)

LEMMA ShapedBegins ==
    ASSUME NEW b, NEW s, NEW f, NEW n \in 0..Len(s), Begins(f, s, b, n), Pos(s, b, n) \in Nat,
           ZeroFrom(f, Pos(s, b, n))
    PROVE  Shaped(f, s, b)
<1>1. Pos(s, b, n) \in 0..SegmentCells /\ Pos(s, b, n) <= Pos(s, b, n)
  BY SegmentAssumption DEF Begins
<1>2. Shape(f, s, b, Pos(s, b, n))
  BY <1>1 DEF Shape, Begins
<1> QED BY <1>1, <1>2 DEF Shaped

LEMMA ShapedLonger ==
    ASSUME NEW b, NEW s, NEW r, NEW f, Shaped(f, s, b), Len(s) \in Nat, Len(r) \in Nat,
           Len(s) <= Len(r), \A i \in 1..Len(s) : r[i] = s[i]
    PROVE  Shaped(f, r, b)
<1>1. PICK t \in 0..SegmentCells : Shape(f, s, b, t)
  BY DEF Shaped
<1>2. PICK k \in 0..Len(s) :
         /\ t <= Pos(s, b, k) /\ Pos(s, b, k) <= SegmentCells
         /\ \A c \in 0..(t - 1) : f.cells[c] = Enc(s, b, 0, k)[c + 1]
  BY <1>1 DEF Shape
<1>3. k \in Nat /\ k \in 0..Len(r) /\ \A i \in 1..k : r[i] = s[i]
  OBVIOUS
<1>4. Pos(r, b, k) = Pos(s, b, k) /\ Enc(r, b, 0, k) = Enc(s, b, 0, k)
  BY <1>3, BeginsEqual
<1>5. Shape(f, r, b, t)
  BY <1>1, <1>2, <1>3, <1>4 DEF Shape
<1> QED BY <1>5 DEF Shaped

LEMMA OrderStart == Init => OrderInv
<1> SUFFICES ASSUME Init PROVE OrderInv
  OBVIOUS
<1>1. Pos(log, env.base, 0) = 0 /\ log = <<>> /\ found = <<>> /\ Len(log) = 0 /\ Len(found) = 0
  BY EncStart DEF Init
<1>2. \A f : Begins(f, log, env.base, 0)
  BY <1>1, SegmentAssumption DEF Begins
<1>3. ZeroFrom(NewFile, 0) /\ NewFile.size = SegmentCells
  BY SegmentAssumption DEF ZeroFrom, NewFile, Cells
<1>4. Shaped(NewFile, log, env.base)
  <2>1. 0 \in 0..Len(log) /\ Pos(log, env.base, 0) \in Nat /\ ZeroFrom(NewFile, Pos(log, env.base, 0))
    BY <1>1, <1>3
  <2> QED BY <1>2, <2>1, ShapedBegins
<1>5. cache = NewFile /\ disk = NewFile /\ pc = "closed" /\ sealed = 0
  BY DEF Init
<1>6. Tidy
  BY <1>4, <1>5 DEF Tidy, Recovering, Ready
<1> QED BY <1>3, <1>5, <1>6 DEF OrderInv

LEMMA OrderedFacts ==
    ASSUME OrderedDevice, CoreInv, InOrderWrites
    PROVE  /\ env.zeroStep = SegmentCells
           /\ env.powerLoss => env.zeroWhole /\ ~env.warmReopen
           /\ ~env.anyOrder
BY DEF OrderedDevice, CoreInv, SegType, InOrderWrites

LEMMA OrderStutter ==
    ASSUME OrderInv, UNCHANGED vars PROVE OrderInv'
<1>1. Prefix' = Prefix
  BY PrefixSame DEF vars
<1>2. Tidy => Tidy'
  BY <1>1 DEF Tidy, Ready, vars
<1>3. SealedWhole => SealedWhole'
  BY DEF SealedWhole, vars
<1> QED BY <1>2, <1>3 DEF OrderInv, InOrderWrites, Intact, vars

LEMMA OrderOpen ==
    ASSUME OrderedDevice, CoreInv, OrderInv, Open PROVE OrderInv'
<1>1. /\ pc = "closed" /\ pc' = "scan" /\ offset' = 0 /\ found' = <<>>
      /\ cache' = cache /\ disk' = disk /\ log' = log /\ sealed' = sealed /\ cuts' = cuts
      /\ env' = env /\ Len(<<>>) = 0 /\ (env.warmReopen \/ cache = disk)
  BY DEF Open, fileVars, logVars
<1>2. InOrderWrites /\ Tidy => Tidy'
  <2> SUFFICES ASSUME InOrderWrites, Tidy PROVE Tidy'
    OBVIOUS
  <2>1. env.powerLoss => cache = disk
    BY <1>1, OrderedFacts
  <2>2. Len(log) \in Nat
    BY CoreTypes
  <2> QED BY <1>1, <2>1, <2>2 DEF Tidy, Recovering, Ready
<1>3. SealedWhole => SealedWhole'
  BY <1>1 DEF SealedWhole
<1> QED BY <1>1, <1>2, <1>3 DEF OrderInv, InOrderWrites, Intact

LEMMA OrderScanRecord ==
    ASSUME CoreInv, OrderInv, ScanRecord PROVE OrderInv'
<1> DEFINE p == cache.cells[offset][2]
<1>1. /\ pc = "scan" /\ pc' = "scan" /\ found' = Append(found, p)
      /\ cache' = cache /\ disk' = disk /\ log' = log /\ sealed' = sealed /\ cuts' = cuts
      /\ env' = env /\ InOrder
  BY DEF ScanRecord, fileVars, logVars, fixedVars
<1>2. Tidy => Tidy'
  <2> SUFFICES ASSUME Tidy PROVE Tidy'
    OBVIOUS
  <2>1. Len(found) + 1 <= Len(log) /\ p = log[Len(found) + 1]
    BY <1>1, TidyRecord
  <2>2. /\ Len(found) \in Nat /\ \A i \in 1..Len(found) : found[i] = log[i]
    BY <1>1, TidyScan DEF Recovering
  <2>3. p \in Payloads
    BY <1>1, NextRecord
  <2> HIDE DEF p
  <2>4. Len(found') = Len(found) + 1 /\ \A i \in 1..Len(found') : found'[i] = log[i]
    <3>1. found \in Seq(Payloads)
      BY CoreTypes
    <3> QED BY <1>1, <2>1, <2>2, <2>3, <3>1
  <2> QED BY <1>1, <2>1, <2>4 DEF Tidy, Recovering, Ready
<1>3. SealedWhole => SealedWhole'
  BY <1>1 DEF SealedWhole
<1> QED BY <1>1, <1>2, <1>3 DEF OrderInv, InOrderWrites, Intact

(* open hands out a log, and behind it the file is zero.                    *)
LEMMA OrderOpened ==
    ASSUME CoreInv, OrderInv, pc \in Recovering, sealed = 0, Opened, UNCHANGED fixedVars,
           cache' = cache, InOrderWrites => ZeroFrom(cache, offset),
           cuts = 0 => disk'.size = SegmentCells,
           InOrderWrites /\ env.powerLoss => disk' = cache
    PROVE  OrderInv'
<1>1. /\ pc' = "idle" /\ log' = found /\ durable' = Len(found) /\ found' = <<>>
      /\ offset' = offset /\ sealed' = sealed /\ cuts' = cuts /\ env' = env
  BY DEF Opened, fixedVars
<1>2. InOrderWrites => Tidy'
  <2> SUFFICES ASSUME InOrderWrites PROVE Tidy'
    OBVIOUS
  <2>1. /\ offset = Pos(found, env.base, Len(found)) /\ Begins(cache, found, env.base, Len(found))
        /\ offset \in Nat /\ Len(found) \in 0..Len(found)
    BY ScanPlace, CoreTypes
  <2>2. ZeroFrom(cache, Pos(found, env.base, Len(found)))
    BY <2>1
  <2>3. Shaped(cache, found, env.base)
    BY <2>1, <2>2, ShapedBegins
  <2> QED BY <1>1, <2>3 DEF Tidy, Recovering, Ready
<1> QED BY <1>1, <1>2 DEF OrderInv, InOrderWrites, Intact

(* The file stays, and so does the log: nothing but the process moves.      *)
LEMMA OrderStays ==
    ASSUME OrderInv, pc' \in {"closed", "failed"}, UNCHANGED fileVars, log' = log,
           UNCHANGED fixedVars,
           pc' = "failed" => sealed > 0 /\ ~(InOrderWrites /\ Intact)
    PROVE  OrderInv'
<1>1. /\ cache' = cache /\ disk' = disk /\ log' = log /\ sealed' = sealed /\ cuts' = cuts
      /\ env' = env
  BY DEF fileVars, fixedVars
<1>2. Tidy => Tidy'
  BY <1>1 DEF Tidy, Recovering, Ready
<1>3. InOrderWrites /\ Intact /\ SealedWhole => SealedWhole'
  BY <1>1 DEF SealedWhole
<1> QED BY <1>1, <1>2, <1>3 DEF OrderInv, InOrderWrites, Intact

(* What the ends of a scan know of a sealed segment.                        *)
LEMMA SealedEnds ==
    ASSUME CoreInv, OrderInv, InOrderWrites, Intact, sealed > 0, pc = "scan",
           CleanEnd(cache, offset) \/ ~InOrder
    PROVE  Len(found) = sealed /\ CleanEnd(cache, offset)
<1>1. SealedWhole /\ Tidy /\ cache.size = SegmentCells
  BY DEF OrderInv, Intact
<1> QED BY <1>1, SealedScan

LEMMA OrderScanEnd ==
    ASSUME CoreInv, OrderInv, ScanEnd PROVE OrderInv'
<1>1. pc = "scan" /\ CleanEnd(cache, offset) /\ UNCHANGED fileVars /\ UNCHANGED fixedVars
  BY DEF ScanEnd
<1>2. sealed \in Nat
  BY DEF CoreInv, SegType
<1>3. CASE sealed > 0 /\ Len(found) = sealed
  BY <1>1, <1>3, OrderStays DEF ScanEnd, Closed
<1>4. CASE sealed > 0 /\ Len(found) # sealed
  <2>1. ~(InOrderWrites /\ Intact)
    BY <1>1, <1>4, SealedEnds
  <2> QED BY <1>1, <1>4, <2>1, OrderStays DEF ScanEnd, Fail
<1>5. CASE sealed = 0
  <2>1. Opened
    BY <1>5 DEF ScanEnd
  <2>2. InOrderWrites => ZeroFrom(cache, offset)
    BY <1>1, TidyEnd DEF OrderInv
  <2>3. InOrderWrites /\ env.powerLoss => disk' = cache
    BY <1>1 DEF OrderInv, Tidy, fileVars
  <2>4. cuts = 0 => disk'.size = SegmentCells
    BY <1>1 DEF OrderInv, fileVars
  <2>5. cache' = cache /\ pc \in Recovering
    BY <1>1 DEF fileVars, Recovering
  <2> QED BY <1>1, <1>5, <2>1, <2>2, <2>3, <2>4, <2>5, OrderOpened
<1> QED BY <1>2, <1>3, <1>4, <1>5

LEMMA OrderTornTail ==
    ASSUME CoreInv, OrderInv, pc = "scan", sealed = 0, TornTail, UNCHANGED fileVars,
           UNCHANGED fixedVars
    PROVE  OrderInv'
<1>1. /\ pc' = "zero" /\ offset' = offset /\ cursor' = offset /\ found' = found
      /\ log' = log /\ cache' = cache /\ disk' = disk /\ sealed' = sealed /\ cuts' = cuts
      /\ env' = env
  BY DEF TornTail, fileVars, fixedVars
<1>2. offset = SegmentCells => ZeroFrom(cache, offset)
  BY SegmentAssumption DEF ZeroFrom
<1>3. Tidy => Tidy'
  BY <1>1, <1>2 DEF Tidy, Recovering, Ready
<1> QED BY <1>1, <1>3 DEF OrderInv, InOrderWrites

LEMMA OrderClassify ==
    ASSUME CoreInv, OrderInv, Classify PROVE OrderInv'
<1>1. /\ pc = "scan" /\ ~InOrder /\ ~Exhausted /\ UNCHANGED fileVars /\ UNCHANGED fixedVars
      /\ ~CleanEnd(cache, offset)
  BY DEF Classify
<1>2. sealed \in Nat
  BY DEF CoreInv, SegType
<1>3. CASE sealed > 0
  <2>1. Fail
    BY <1>3 DEF Classify
  <2>2. ~(InOrderWrites /\ Intact)
    BY <1>1, <1>3, SealedEnds
  <2> QED BY <1>1, <1>3, <2>1, <2>2, OrderStays DEF Fail
<1>4. CASE sealed = 0 /\ TornTail
  BY <1>1, <1>4, OrderTornTail
<1>5. CASE sealed = 0 /\ ~TornTail
  <2>1. Fail /\ ForwardScanFindsValid(cache, offset, Expected, max)
    BY <1>5 DEF Classify
  <2>2. ~InOrderWrites
    BY <1>1, <2>1, TidyTorn DEF OrderInv
  <2>3. pc' = "failed" /\ cache' = cache /\ disk' = disk /\ sealed' = sealed /\ cuts' = cuts /\ env' = env
    BY <1>1, <2>1 DEF Fail, fileVars, fixedVars
  <2> QED BY <1>5, <2>2, <2>3 DEF OrderInv, InOrderWrites
<1> QED BY <1>2, <1>3, <1>4, <1>5

(* Behind the record with the last LSN only a cut file is not clean.        *)
LEMMA FullShort ==
    ASSUME CoreInv, OrderInv, InOrderWrites, pc = "scan", Exhausted, ~CleanEnd(cache, offset)
    PROVE  /\ cache.size - offset < HeaderCells /\ ~Intact
           /\ \A c \in offset..(cache.size - 1) : cache.cells[c] = Zero
<1>1. ZeroFrom(cache, offset)
  BY TidyFull DEF OrderInv
<1>2. offset \in Nat /\ SegmentCells \in Nat /\ cache.size \in 0..SegmentCells /\ HeaderCells = 3
  BY ScanPlace, CoreTypes, SegmentAssumption DEF Recovering, File, HeaderCells
<1>3. SegmentCells - offset >= HeaderCells
  BY <1>2 DEF CleanEnd
<1>4. ZeroHeader(cache, offset)
  <2>1. \A k \in 0..(HeaderCells - 1) : offset + k \in offset..(SegmentCells - 1)
    BY <1>2, <1>3
  <2> QED BY <1>1, <2>1 DEF ZeroHeader, ZeroFrom
<1>5. cache.size - offset < HeaderCells
  BY <1>2, <1>4 DEF CleanEnd
<1>6. \A c \in offset..(cache.size - 1) : cache.cells[c] = Zero
  <2>1. \A c \in offset..(cache.size - 1) : c \in offset..(SegmentCells - 1)
    BY <1>2
  <2> QED BY <1>1, <2>1 DEF ZeroFrom
<1>7. ~Intact
  BY <1>2, <1>3, <1>5 DEF OrderInv, Intact
<1> QED BY <1>5, <1>6, <1>7

LEMMA OrderAtCapacity ==
    ASSUME CoreInv, OrderInv, AtCapacity PROVE OrderInv'
<1>1. /\ pc = "scan" /\ Exhausted /\ UNCHANGED fileVars /\ UNCHANGED fixedVars
      /\ ~CleanEnd(cache, offset)
  BY DEF AtCapacity
<1>2. sealed \in Nat
  BY DEF CoreInv, SegType
<1>3. CASE sealed > 0
  <2>1. Fail
    BY <1>3 DEF AtCapacity
  <2>2. ~(InOrderWrites /\ Intact)
    BY <1>1, FullShort
  <2> QED BY <1>1, <1>3, <2>1, <2>2, OrderStays DEF Fail
<1>4. CASE sealed = 0 /\ TornTail
  BY <1>1, <1>4, OrderTornTail
<1>5. CASE sealed = 0 /\ ~TornTail
  <2>1. Fail
    BY <1>5 DEF AtCapacity
  <2>2. ~InOrderWrites
    BY <1>1, <1>5, FullShort DEF AtCapacity
  <2>3. pc' = "failed" /\ cache' = cache /\ disk' = disk /\ sealed' = sealed /\ cuts' = cuts /\ env' = env
    BY <1>1, <2>1 DEF Fail, fileVars, fixedVars
  <2> QED BY <1>5, <2>2, <2>3 DEF OrderInv, InOrderWrites
<1> QED BY <1>2, <1>3, <1>4, <1>5

LEMMA OrderZeroChunk ==
    ASSUME OrderedDevice, CoreInv, OrderInv, ZeroChunk PROVE OrderInv'
<1>1. /\ pc = "zero" /\ pc' = "zero" /\ disk' = disk /\ offset' = offset /\ found' = found
      /\ log' = log /\ sealed' = sealed /\ cuts' = cuts /\ env' = env /\ cursor < SegmentCells
  BY DEF ZeroChunk, logVars, fixedVars
<1>2. sealed \in Nat
  BY DEF CoreInv, SegType
<1>3. ~(sealed > 0)
  BY <1>1 DEF OrderInv
<1>4. InOrderWrites => Tidy'
  <2> SUFFICES ASSUME InOrderWrites PROVE Tidy'
    OBVIOUS
  <2>0. Tidy /\ env.zeroStep = SegmentCells
    BY OrderedFacts DEF OrderInv
  <2>1. /\ offset = Pos(log, env.base, Len(found)) /\ Begins(cache, log, env.base, Len(found))
        /\ offset \in Nat /\ Len(found) \in 0..Len(log)
    BY <1>1, <2>0, TidyScan, ScanPlace, CoreTypes DEF Recovering
  <2>2. cursor = offset
    <3>1. cursor # SegmentCells
      BY <1>1, ZeroPlace, SegmentAssumption
    <3> QED BY <1>1, <2>0, <3>1 DEF Tidy
  <2>3. cursor' = SegmentCells
    BY <1>1, <2>0, <2>1, <2>2, ChunkFacts, SegmentAssumption DEF MinOf
  <2>4. ZeroFrom(cache', offset)
    <3> SUFFICES ASSUME NEW c \in offset..(SegmentCells - 1) PROVE cache'.cells[c] = Zero
      BY DEF ZeroFrom
    <3>1. c \in Cells /\ c >= cursor /\ c < cursor'
      BY <2>1, <2>2, <2>3, SegmentAssumption DEF Cells
    <3> QED BY <3>1, ChunkFacts
  <2>5. Begins(cache', log, env.base, Len(found))
    <3>1. \A c \in Cells : c < Pos(log, env.base, Len(found)) => cache'.cells[c] = cache.cells[c]
      BY <2>1, <2>2, ChunkFacts
    <3>2. Pos(log, env.base, Len(found)) \in Nat
      BY <2>1
    <3> QED BY <2>1, <3>1, <3>2, BeginsKept
  <2>6. Shaped(cache', log, env.base)
    <3>1. ZeroFrom(cache', Pos(log, env.base, Len(found))) /\ Pos(log, env.base, Len(found)) \in Nat
      BY <2>1, <2>4
    <3> QED BY <2>1, <2>5, <3>1, ShapedBegins
  <2> QED BY <1>1, <2>0, <2>3, <2>4, <2>6 DEF Tidy, Recovering, Ready
<1>5. cuts = 0 => cache'.size = SegmentCells /\ disk'.size = SegmentCells
  BY <1>1, ChunkFacts DEF OrderInv
<1> QED BY <1>1, <1>3, <1>4, <1>5 DEF OrderInv, InOrderWrites

LEMMA OrderZeroSync ==
    ASSUME CoreInv, OrderInv, ZeroSync PROVE OrderInv'
<1>1. /\ pc = "zero" /\ pc \in Recovering /\ cursor = SegmentCells /\ disk' = cache /\ cache' = cache
      /\ Opened /\ UNCHANGED fixedVars
  BY DEF ZeroSync, Recovering
<1>2. sealed = 0
  BY <1>1 DEF OrderInv, CoreInv, SegType
<1>3. InOrderWrites => ZeroFrom(cache, offset)
  BY <1>1 DEF OrderInv, Tidy
<1>4. cuts = 0 => disk'.size = SegmentCells
  BY <1>1 DEF OrderInv
<1> QED BY <1>1, <1>2, <1>3, <1>4, OrderOpened

LEMMA NotSealed ==
    ASSUME CoreInv, OrderInv, pc \in {"zero", "idle", "commit", "sync"} PROVE sealed = 0
BY DEF OrderInv, CoreInv, SegType

LEMMA OrderAppend ==
    ASSUME CoreInv, OrderInv, NEW p \in Payloads, AppendRecord(p) PROVE OrderInv'
<1>1. /\ pc = "idle" /\ ~poisoned /\ pc' = "idle" /\ log' = Append(log, p) /\ cache' = cache
      /\ disk' = disk /\ offset' = offset /\ poisoned' = poisoned
      /\ sealed' = sealed /\ cuts' = cuts /\ env' = env
  BY DEF AppendRecord, fileVars, scanVars, fixedVars
<1>2. sealed = 0
  BY <1>1, NotSealed
<1>3. /\ Len(log) \in Nat /\ Len(log') \in Nat /\ Len(log) <= Len(log')
      /\ \A i \in 1..Len(log) : log'[i] = log[i]
  BY <1>1, CoreTypes
<1>4. Tidy => Tidy'
  <2>1. \A f : Shaped(f, log, env.base) => Shaped(f, log', env.base)
    BY <1>3, ShapedLonger
  <2> QED BY <1>1, <2>1 DEF Tidy, Recovering, Ready
<1> QED BY <1>1, <1>2, <1>4 DEF OrderInv, InOrderWrites

LEMMA OrderCommit ==
    ASSUME CoreInv, OrderInv, Commit PROVE OrderInv'
<1>1. /\ pc = "idle" /\ ~poisoned /\ pc' = "commit" /\ log' = log /\ cache' = cache
      /\ disk' = disk /\ offset' = offset /\ poisoned' = poisoned
      /\ sealed' = sealed /\ cuts' = cuts /\ env' = env
  BY DEF Commit, fileVars, scanVars, logVars, fixedVars
<1>2. sealed = 0
  BY <1>1, NotSealed
<1>3. Tidy => Tidy'
  BY <1>1 DEF Tidy, Recovering, Ready
<1> QED BY <1>1, <1>2, <1>3 DEF OrderInv, InOrderWrites

(* The beginning of a batch, written over the zeros behind the log.         *)
LEMMA ShapedWrite ==
    ASSUME CoreInv, OrderInv, InOrderWrites, pc = "commit", NEW x \in Seq(Cell),
           Len(x) <= Len(EncodeInto(durable, Prefix)),
           \A c \in 1..Len(x) : x[c] = EncodeInto(durable, Prefix)[c],
           cache' = Write(cache, offset, x)
    PROVE  Shaped(cache', log, env.base) /\ ZeroFrom(cache', offset + Len(x))
<1>1. Serving /\ Tidy /\ ZeroFrom(cache, offset)
  BY DEF OrderInv, Tidy, Ready, Serving, CoreInv, SegType
<1>2. /\ Prefix \in Nat /\ Prefix <= Len(log) /\ Len(EncodeInto(durable, Prefix)) \in Nat
      /\ Pos(log, env.base, Prefix) = offset + Len(EncodeInto(durable, Prefix))
      /\ Pos(log, env.base, Prefix) <= SegmentCells
  BY BatchFacts
<1>3. offset \in Nat /\ SegmentCells \in Nat /\ Len(log) \in Nat
  BY <1>1, HandlePlace, CoreTypes
<1>4. /\ offset + Len(x) <= SegmentCells /\ Len(x) \in Nat
      /\ \A c \in Cells : c >= offset + Len(x) => cache'.cells[c] = cache.cells[c]
      /\ \A c \in 0..(offset + Len(x) - 1) :
            cache'.cells[c] = Enc(log, env.base, 0, Prefix)[c + 1]
  BY BatchWrite
<1> DEFINE t == offset + Len(x)
<1>5. t \in 0..SegmentCells /\ t <= Pos(log, env.base, Prefix) /\ t \in Nat /\ offset <= t
  BY <1>2, <1>3, <1>4
<1>6. ZeroFrom(cache', t)
  <2> SUFFICES ASSUME NEW c \in t..(SegmentCells - 1) PROVE cache'.cells[c] = Zero
    BY DEF ZeroFrom
  <2>1. c \in Cells /\ c >= t /\ c \in offset..(SegmentCells - 1)
    <3> HIDE DEF t
    <3> QED BY <1>3, <1>5 DEF Cells
  <2>2. cache'.cells[c] = cache.cells[c]
    BY <1>4, <2>1
  <2>3. cache.cells[c] = Zero
    BY <1>1, <2>1 DEF ZeroFrom
  <2> QED BY <2>2, <2>3
<1>7. Shape(cache', log, env.base, t)
  <2>1. Prefix \in 0..Len(log)
    BY <1>2, <1>3
  <2> DEFINE z == Enc(log, env.base, 0, Prefix)
  <2>2. \A c \in 0..(t - 1) : cache'.cells[c] = z[c + 1]
    <3>1. \A c \in 0..(offset + Len(x) - 1) : cache'.cells[c] = z[c + 1]
      BY <1>4
    <3>2. t = offset + Len(x) /\ t \in Nat /\ offset \in Nat /\ Len(x) \in Nat
      BY <1>3, <1>4, <1>5
    <3> HIDE DEF z, t
    <3>3. ASSUME NEW c \in 0..(t - 1) PROVE cache'.cells[c] = z[c + 1]
      <4>1. c \in 0..(offset + Len(x) - 1)
        BY <3>2
      <4> QED BY <3>1, <4>1
    <3> QED BY <3>3
  <2> HIDE DEF t
  <2> QED BY <1>2, <1>5, <1>6, <2>1, <2>2 DEF Shape
<1> HIDE DEF t
<1>8. Shaped(cache', log, env.base)
  BY <1>5, <1>7 DEF Shaped
<1> QED BY <1>6, <1>8 DEF t

LEMMA OrderCommitWrite ==
    ASSUME CoreInv, OrderInv, CommitWrite PROVE OrderInv'
<1> DEFINE x == EncodeInto(durable, Prefix)
<1>1. /\ pc = "commit" /\ pc' = "sync" /\ poisoned' = poisoned /\ log' = log
      /\ disk' = disk /\ offset' = offset /\ sealed' = sealed /\ cuts' = cuts /\ env' = env
  BY DEF CommitWrite, scanVars, logVars, fixedVars
<1>2. /\ x \in Seq(Cell) /\ Prefix' = Prefix /\ cache' = Write(cache, offset, x)
      /\ Len(x) <= Len(EncodeInto(durable, Prefix))
      /\ \A c \in 1..Len(x) : x[c] = EncodeInto(durable, Prefix)[c]
  BY WholeBatch
<1>3. Pos(log, env.base, Prefix) = offset + Len(x) /\ sealed = 0
  BY <1>1, BatchFacts, NotSealed
<1> HIDE DEF x
<1>4. InOrderWrites => Shaped(cache', log, env.base) /\ ZeroFrom(cache', offset + Len(x))
  <2> DEFINE y == EncodeInto(durable, Prefix)
  <2>1. Len(x) <= Len(y) /\ \A c \in 1..Len(x) : x[c] = y[c]
    BY <1>2
  <2> QED BY <1>1, <1>2, <2>1, ShapedWrite
<1>5. cache.size = SegmentCells => cache'.size = SegmentCells
  <2> DEFINE y == EncodeInto(durable, Prefix)
  <2>1. Len(x) <= Len(y) /\ \A c \in 1..Len(x) : x[c] = y[c]
    BY <1>2
  <2> QED BY <1>1, <1>2, <2>1, BatchWrite
<1>6. InOrderWrites => Tidy'
  <2> SUFFICES ASSUME InOrderWrites PROVE Tidy'
    OBVIOUS
  <2>1. Tidy
    BY DEF OrderInv
  <2> QED BY <1>1, <1>2, <1>3, <1>4, <2>1 DEF Tidy, Recovering, Ready
<1> QED BY <1>1, <1>3, <1>5, <1>6 DEF OrderInv, InOrderWrites

LEMMA OrderWriteFails ==
    ASSUME CoreInv, OrderInv, CommitWriteFails PROVE OrderInv'
<1>1. /\ pc = "commit" /\ pc' = "idle" /\ poisoned' /\ log' = log
      /\ disk' = disk /\ offset' = offset /\ sealed' = sealed /\ cuts' = cuts /\ env' = env
  BY DEF CommitWriteFails, scanVars, logVars, fixedVars
<1>2. PICK x \in Seq(Cell) :
         /\ Len(x) <= Len(EncodeInto(durable, Prefix))
         /\ \A c \in 1..Len(x) : x[c] = EncodeInto(durable, Prefix)[c]
         /\ cache' = Write(cache, offset, x)
  BY PartOfBatch
<1>3. sealed = 0
  BY <1>1, NotSealed
<1>4. InOrderWrites => Shaped(cache', log, env.base)
  BY <1>1, <1>2, ShapedWrite
<1>5. cache.size = SegmentCells => cache'.size = SegmentCells
  BY <1>1, <1>2, BatchWrite
<1>6. InOrderWrites => Tidy'
  BY <1>1, <1>4 DEF OrderInv, Tidy, Recovering, Ready
<1> QED BY <1>1, <1>3, <1>5, <1>6 DEF OrderInv, InOrderWrites

LEMMA OrderSync ==
    ASSUME CoreInv, OrderInv, CommitSync PROVE OrderInv'
<1>1. /\ pc = "sync" /\ pc' \in {"commit", "idle"} /\ poisoned' = poisoned /\ log' = log
      /\ cache' = cache /\ disk' = cache
      /\ offset' = offset + Len(EncodeInto(durable, Prefix))
      /\ sealed' = sealed /\ cuts' = cuts /\ env' = env
  BY DEF CommitSync, fixedVars
<1>2. offset' = Pos(log, env.base, Prefix) /\ sealed = 0
  BY <1>1, BatchFacts, NotSealed
<1>3. InOrderWrites => Tidy'
  <2> SUFFICES ASSUME InOrderWrites PROVE Tidy'
    OBVIOUS
  <2>1. Shaped(cache, log, env.base) /\ ZeroFrom(cache, offset')
    BY <1>1, <1>2 DEF OrderInv, Tidy
  <2> QED BY <1>1, <2>1 DEF Tidy, Recovering, Ready
<1> QED BY <1>1, <1>2, <1>3 DEF OrderInv, InOrderWrites

LEMMA OrderSyncFails ==
    ASSUME CoreInv, OrderInv, CommitSyncFails PROVE OrderInv'
<1>1. /\ pc = "sync" /\ pc' = "idle" /\ poisoned' /\ log' = log /\ cache' = cache
      /\ disk' = disk /\ sealed' = sealed /\ cuts' = cuts /\ env' = env
  BY DEF CommitSyncFails, fileVars, scanVars, logVars, fixedVars
<1>2. sealed = 0
  BY <1>1, NotSealed
<1>3. Tidy => Tidy'
  BY <1>1 DEF Tidy, Recovering, Ready
<1> QED BY <1>1, <1>2, <1>3 DEF OrderInv, InOrderWrites

(* The roll leaves the log, its end, and zeros.                             *)
LEMMA OrderRoll ==
    ASSUME CoreInv, OrderInv, Roll PROVE OrderInv'
<1>1. /\ pc = "commit" /\ pc' = "closed" /\ log' = SubSeq(log, 1, durable)
      /\ cache' = cache /\ disk' = disk /\ sealed' = durable /\ cuts' = cuts /\ env' = env
  BY DEF Roll, Closed, fileVars
<1>2. Serving
  BY <1>1 DEF CoreInv, SegType, Serving
<1>3. /\ durable \in Nat /\ durable <= Len(log) /\ offset = Pos(log, env.base, durable)
      /\ Begins(cache, log, env.base, durable) /\ offset \in Nat
  BY <1>2, HandlePlace
<1>4. log' \in Seq(Payloads) /\ Len(log') = durable /\ \A i \in 1..durable : log'[i] = log[i]
  <2>1. log \in Seq(Payloads) /\ durable \in Nat /\ durable <= Len(log) /\ log' = SubSeq(log, 1, durable)
    BY <1>1, <1>3, CoreTypes
  <2> QED BY <2>1
<1>5. Pos(log', env.base, durable) = offset /\ Begins(cache, log', env.base, durable)
  <2> DEFINE b == env.base
  <2>1. Begins(cache, log, b, durable) /\ offset = Pos(log, b, durable)
    BY <1>3
  <2> HIDE DEF b
  <2>2. Pos(log', b, durable) = Pos(log, b, durable)
    BY <1>3, <1>4, BeginsEqual
  <2>3. Begins(cache, log', b, durable)
    BY <1>3, <1>4, <2>1, BeginsEqual
  <2> QED BY <2>1, <2>2, <2>3 DEF b
<1>6. InOrderWrites => Tidy' /\ SealedWhole'
  <2> SUFFICES ASSUME InOrderWrites PROVE Tidy' /\ SealedWhole'
    OBVIOUS
  <2>1. ZeroFrom(cache, offset) /\ (env.powerLoss => cache = disk)
    BY <1>1, <1>2 DEF OrderInv, Tidy, Ready, Serving
  <2>2. durable \in 0..Len(log') /\ Pos(log', env.base, durable) \in Nat
        /\ ZeroFrom(cache, Pos(log', env.base, durable))
    BY <1>3, <1>4, <1>5, <2>1
  <2>3. Shaped(cache, log', env.base)
    BY <1>5, <2>2, ShapedBegins
  <2>4. Tidy'
    BY <1>1, <2>1, <2>3 DEF Tidy, Recovering, Ready
  <2>5. SealedWhole'
    BY <1>1, <1>4, <1>5, <2>1, <2>2 DEF SealedWhole
  <2> QED BY <2>4, <2>5
<1> QED BY <1>1, <1>6 DEF OrderInv, InOrderWrites

LEMMA OrderCloseHandle ==
    ASSUME OrderInv, CloseHandle PROVE OrderInv'
BY OrderStays DEF CloseHandle, Closed

LEMMA OrderLosePower ==
    ASSUME OrderInv, LosePower PROVE OrderInv'
<1>1. /\ env.powerLoss /\ pc' = "closed" /\ cache' = disk /\ disk' = disk /\ log' = log
      /\ sealed' = sealed /\ cuts' = cuts /\ env' = env
  BY DEF LosePower, Closed, fixedVars
<1>2. Tidy => Tidy'
  BY <1>1 DEF Tidy, Recovering, Ready
<1>3. SealedWhole => SealedWhole'
  BY <1>1 DEF SealedWhole
<1> QED BY <1>1, <1>2, <1>3 DEF OrderInv, InOrderWrites, Intact

(* The cells of f up to t are those of the encoding of the first n records. *)
UpTo(f, s, b, n, t) ==
    t <= Pos(s, b, n) /\ \A c \in 0..(t - 1) : f.cells[c] = Enc(s, b, 0, n)[c + 1]

(* What a file has of the encoding of k records it has of that of more.     *)
LEMMA ShapeWider ==
    ASSUME NEW b \in Nat \ {0}, NEW s \in Seq(Payloads), NEW f, NEW t \in Nat,
           NEW k \in Nat, NEW n \in Nat, k <= n, n <= Len(s), UpTo(f, s, b, k, t)
    PROVE  UpTo(f, s, b, n, t)
<1>1. /\ Pos(s, b, k) \in Nat /\ Pos(s, b, n) \in Nat
      /\ \A c \in 1..Pos(s, b, k) : Enc(s, b, 0, n)[c] = Enc(s, b, 0, k)[c]
  BY EncPrefix
<1>2. Pos(s, b, k) <= Pos(s, b, n)
  BY PosGrows
<1>3. t <= Pos(s, b, n)
  BY <1>1, <1>2 DEF UpTo
<1>4. ASSUME NEW c \in 0..(t - 1) PROVE f.cells[c] = Enc(s, b, 0, n)[c + 1]
  <2>1. c + 1 \in 1..Pos(s, b, k)
    BY <1>1 DEF UpTo
  <2> QED BY <1>1, <2>1 DEF UpTo
<1> QED BY <1>3, <1>4 DEF UpTo

LEMMA ShapeBoth ==
    ASSUME NEW b \in Nat \ {0}, NEW s \in Seq(Payloads), NEW f, NEW g,
           NEW t \in 0..SegmentCells, NEW u \in 0..SegmentCells,
           Shape(f, s, b, t), Shape(g, s, b, u)
    PROVE  \E n \in 0..Len(s) :
             Pos(s, b, n) <= SegmentCells /\ UpTo(f, s, b, n, t) /\ UpTo(g, s, b, n, u)
<1>1. PICK k \in 0..Len(s) : Pos(s, b, k) <= SegmentCells /\ UpTo(f, s, b, k, t)
  BY DEF Shape, UpTo
<1>2. PICK j \in 0..Len(s) : Pos(s, b, j) <= SegmentCells /\ UpTo(g, s, b, j, u)
  BY DEF Shape, UpTo
<1>3. t \in Nat /\ u \in Nat /\ k \in Nat /\ j \in Nat /\ k <= Len(s) /\ j <= Len(s)
  BY SegmentAssumption
<1>4. CASE k <= j
  <2>1. UpTo(f, s, b, j, t)
    BY <1>1, <1>3, <1>4, ShapeWider
  <2> QED BY <1>2, <2>1
<1>5. CASE j <= k
  <2>1. UpTo(g, s, b, k, u)
    BY <1>2, <1>3, <1>5, ShapeWider
  <2> QED BY <1>1, <2>1
<1> QED BY <1>3, <1>4, <1>5

(* The pages up to g of what lies between td and tc.                        *)
LEMMA PagesUpTo ==
    ASSUME NEW td \in Nat, NEW tc \in Nat, td <= tc, NEW g \in Nat
    PROVE  \E t \in td..tc :
             /\ \A c \in td..(t - 1) : c \div PageCells <= g
             /\ t < tc => \A c \in Nat : t <= c => c \div PageCells > g
<1> DEFINE S == {d \in Nat : td + d <= tc /\ \A c \in td..(td + d - 1) : c \div PageCells <= g}
<1>0. PageCells \in Nat \ {0}
  BY SegmentAssumption
<1>1. 0 \in S
  OBVIOUS
<1>2. tc - td + 1 \in Nat /\ tc - td + 1 \notin S
  OBVIOUS
<1>3. PICK d \in Nat : d \in S /\ d + 1 \notin S
  <2> HIDE DEF S
  <2> QED BY <1>1, <1>2, Induct
<1> DEFINE t == td + d
<1>4. t \in td..tc /\ t \in Nat /\ \A c \in td..(t - 1) : c \div PageCells <= g
  BY <1>3
<1>5. ASSUME t < tc PROVE ~(t \div PageCells <= g)
  <2>1. td + (d + 1) <= tc /\ td + (d + 1) - 1 = t
    BY <1>4, <1>5
  <2>2. ~(\A c \in td..t : c \div PageCells <= g)
    BY <1>3, <2>1
  <2>3. PICK c \in td..t : ~(c \div PageCells <= g)
    BY <2>2
  <2>4. c = t
    <3> SUFFICES ASSUME c # t PROVE FALSE
      OBVIOUS
    <3>1. c \in td..(t - 1)
      BY <1>4
    <3> HIDE DEF t
    <3> QED BY <1>4, <2>3, <3>1
  <2> QED BY <2>3, <2>4
<1> HIDE DEF t
<1>6. ASSUME t < tc, NEW c \in Nat, t <= c PROVE c \div PageCells > g
  <2>1. t \div PageCells <= c \div PageCells
    BY <1>0, <1>4, <1>6, DivGrows
  <2>2. t \div PageCells \in Int /\ c \div PageCells \in Int
    BY <1>0, <1>4
  <2> QED BY <1>5, <1>6, <2>1, <2>2
<1> QED BY <1>4, <1>6

(* The lowest dirty page reaches a device that persists a zeroed tail as a  *)
(* whole: what is on it is again the beginning of the log, and zeros.       *)
LEMMA ShapedWriteback ==
    ASSUME OrderedDevice, CoreInv, OrderInv, InOrderWrites, env.powerLoss,
           NEW g \in Pages, Writeback(g)
    PROVE  Shaped(disk', log, env.base)
<1> DEFINE b == env.base
<1>1. /\ b \in Nat \ {0} /\ log \in Seq(Payloads) /\ SegmentCells \in Nat
      /\ env.zeroWhole /\ ~env.anyOrder
  BY CoreTypes, OrderedFacts
<1>2. PICK tc \in 0..SegmentCells : Shape(cache, log, b, tc)
  BY DEF OrderInv, Tidy, Shaped
<1>3. PICK td \in 0..SegmentCells : Shape(disk, log, b, td)
  BY DEF OrderInv, Tidy, Shaped
<1> HIDE DEF b
<1>4. PICK n \in 0..Len(log) :
         Pos(log, b, n) <= SegmentCells /\ UpTo(cache, log, b, n, tc) /\ UpTo(disk, log, b, n, td)
  BY <1>1, <1>2, <1>3, ShapeBoth
<1> DEFINE E == Enc(log, b, 0, n)
<1>5. tc \in Nat /\ td \in Nat /\ tc <= SegmentCells /\ td <= SegmentCells
  BY <1>1
<1>6. /\ \A c \in Cells : c < tc => cache.cells[c] = E[c + 1]
      /\ \A c \in Cells : c < td => disk.cells[c] = E[c + 1]
      /\ \A c \in Cells : tc <= c => cache.cells[c] = Zero
      /\ \A c \in Cells : td <= c => disk.cells[c] = Zero
  <2>0. ZeroFrom(cache, tc) /\ ZeroFrom(disk, td)
    BY <1>2, <1>3 DEF Shape
  <2>1. ASSUME NEW c \in Cells
        PROVE  /\ c < tc => c \in 0..(tc - 1)
               /\ c < td => c \in 0..(td - 1)
               /\ tc <= c => c \in tc..(SegmentCells - 1)
               /\ td <= c => c \in td..(SegmentCells - 1)
    BY <1>1, <1>5 DEF Cells
  <2>2. \A c \in 0..(tc - 1) : cache.cells[c] = E[c + 1]
    BY <1>4 DEF UpTo
  <2>3. \A c \in 0..(td - 1) : disk.cells[c] = E[c + 1]
    BY <1>4 DEF UpTo
  <2> HIDE DEF E
  <2> QED BY <2>0, <2>1, <2>2, <2>3 DEF ZeroFrom
<1>7. ASSUME NEW c \in Cells
      PROVE  disk'.cells[c] = IF c \div PageCells = g \/ cache.cells[c] = Zero
                              THEN cache.cells[c] ELSE disk.cells[c]
  <2> DEFINE out == OfPage(g) \cup {a \in Cells : cache.cells[a] = Zero}
  <2>1. disk' = [cells |-> [a \in Cells |-> IF a \in out THEN cache.cells[a] ELSE disk.cells[a]],
                 size |-> cache.size]
    BY <1>1 DEF Writeback
  <2>2. c \in out <=> c \div PageCells = g \/ cache.cells[c] = Zero
    BY DEF OfPage
  <2> HIDE DEF out
  <2> QED BY <2>1, <2>2
<1>8. ASSUME NEW c \in Cells, c \div PageCells < g PROVE cache.cells[c] = disk.cells[c]
  <2> SUFFICES ASSUME cache.cells[c] # disk.cells[c] PROVE FALSE
    OBVIOUS
  <2> DEFINE h == c \div PageCells
  <2>1. h \in Pages
    <3>1. /\ c \in Nat /\ c <= SegmentCells - 1 /\ PageCells \in Nat \ {0} /\ SegmentCells - 1 \in Nat
      BY <1>1, SegmentAssumption DEF Cells
    <3>4. h \in Nat
      BY <3>1
    <3>2. h <= (SegmentCells - 1) \div PageCells
      BY <3>1, DivGrows
    <3>3. (SegmentCells - 1) \div PageCells \in Int
      BY <3>1
    <3> QED BY <3>2, <3>3, <3>4 DEF Pages
  <2>2. h \in DirtyPages
    BY <2>1 DEF DirtyPages, OfPage
  <2>3. g <= h
    BY <1>1, <2>2 DEF Writeback
  <2>4. g \in Int /\ h \in Int
    BY <2>1 DEF Pages
  <2> QED BY <1>8, <2>3, <2>4
<1>9. Cells \subseteq Nat /\ g \in Nat /\ \A c \in Cells : c \div PageCells \in Int
  BY <1>1, SegmentAssumption DEF Cells, Pages
<1> HIDE DEF E
<1>10. \E t \in 0..tc : /\ \A c \in Cells : c < t => disk'.cells[c] = E[c + 1]
                        /\ \A c \in Cells : t <= c => disk'.cells[c] = Zero
  <2>1. CASE tc <= td
    <3>1. ASSUME NEW c \in Cells, c < tc PROVE disk'.cells[c] = E[c + 1]
      <4>1. c < td
        BY <1>5, <1>9, <2>1, <3>1
      <4> QED BY <1>6, <1>7, <3>1, <4>1
    <3>2. ASSUME NEW c \in Cells, tc <= c PROVE disk'.cells[c] = Zero
      BY <1>6, <1>7, <3>2
    <3>3. tc \in 0..tc
      BY <1>5
    <3> QED BY <3>1, <3>2, <3>3
  <2>2. CASE td < tc
    <3>0. td \in Nat /\ tc \in Nat /\ td <= tc /\ g \in Nat
      BY <1>5, <1>9, <2>2
    <3>1. PICK t \in td..tc :
             /\ \A c \in td..(t - 1) : c \div PageCells <= g
             /\ t < tc => \A c \in Nat : t <= c => c \div PageCells > g
      BY <3>0, PagesUpTo
    <3>2. t \in 0..tc /\ t \in Nat /\ td <= t /\ t <= tc
      BY <1>5
    <3>3. ASSUME NEW c \in Cells, c < t PROVE disk'.cells[c] = E[c + 1]
      <4>1. c < tc /\ c \in Nat
        BY <1>5, <1>9, <3>2, <3>3
      <4>2. CASE c < td
        BY <1>6, <1>7, <4>1, <4>2
      <4>3. CASE td <= c
        <5>1. c \in td..(t - 1)
          BY <1>5, <3>2, <3>3, <4>1, <4>3
        <5>2. c \div PageCells <= g /\ c \div PageCells \in Int
          BY <1>9, <3>1, <5>1
        <5>3. CASE c \div PageCells = g
          BY <1>6, <1>7, <4>1, <5>3
        <5>4. CASE c \div PageCells < g
          BY <1>6, <1>7, <1>8, <4>1, <5>4
        <5> QED BY <1>9, <5>2, <5>3, <5>4
      <4> QED BY <1>5, <4>1, <4>2, <4>3
    <3>4. ASSUME NEW c \in Cells, t <= c PROVE disk'.cells[c] = Zero
      <4>1. td <= c /\ c \in Nat
        BY <1>5, <1>9, <3>2, <3>4
      <4>2. CASE tc <= c
        BY <1>6, <1>7, <4>2
      <4>3. CASE c < tc
        <5>1. t < tc
          BY <1>5, <3>2, <3>4, <4>1, <4>3
        <5>2. c \div PageCells > g
          BY <3>1, <3>4, <4>1, <5>1
        <5>3. c \div PageCells # g
          BY <1>9, <5>2
        <5> QED BY <1>6, <1>7, <4>1, <5>3
      <4> QED BY <1>5, <4>1, <4>2, <4>3
    <3> QED BY <3>2, <3>3, <3>4
  <2> QED BY <1>5, <2>1, <2>2
<1>11. PICK t \in 0..tc : /\ \A c \in Cells : c < t => disk'.cells[c] = E[c + 1]
                          /\ \A c \in Cells : t <= c => disk'.cells[c] = Zero
  BY <1>10
<1>12. t \in 0..SegmentCells /\ t <= Pos(log, b, n)
  <2>1. Pos(log, b, n) \in Nat
    <3>1. n \in Nat /\ n <= Len(log) /\ n <= n
      OBVIOUS
    <3> QED BY <1>1, <3>1, PosGrows
  <2>2. tc <= Pos(log, b, n)
    BY <1>4 DEF UpTo
  <2> QED BY <1>1, <1>5, <2>1, <2>2
<1>13. Shape(disk', log, b, t)
  <2>1. ASSUME NEW c \in 0..(t - 1) PROVE disk'.cells[c] = E[c + 1]
    <3>1. c \in Cells /\ c < t
      BY <1>1, <1>12 DEF Cells
    <3> QED BY <1>11, <3>1
  <2>2. ASSUME NEW c \in t..(SegmentCells - 1) PROVE disk'.cells[c] = Zero
    <3>1. c \in Cells /\ t <= c
      BY <1>1, <1>12 DEF Cells
    <3> QED BY <1>11, <3>1
  <2> QED BY <1>4, <1>12, <2>1, <2>2 DEF Shape, ZeroFrom, E
<1>14. Shaped(disk', log, b)
  BY <1>12, <1>13 DEF Shaped
<1> QED BY <1>14 DEF b

LEMMA OrderWriteback ==
    ASSUME OrderedDevice, CoreInv, OrderInv, NEW g \in Pages, Writeback(g) PROVE OrderInv'
<1>1. /\ pc' = pc /\ poisoned' = poisoned /\ log' = log /\ cache' = cache /\ offset' = offset
      /\ cursor' = cursor /\ found' = found /\ durable' = durable
      /\ sealed' = sealed /\ cuts' = cuts /\ env' = env
  BY DEF Writeback, scanVars, logVars
<1>2. disk'.size = cache.size /\ Prefix' = Prefix
  BY <1>1, WritebackFacts, PrefixSame
<1>3. cache # disk
  BY DEF Writeback, DirtyPages
<1>4. InOrderWrites => Tidy'
  <2> SUFFICES ASSUME InOrderWrites PROVE Tidy'
    OBVIOUS
  <2>1. env.powerLoss => Shaped(disk', log, env.base)
    BY ShapedWriteback
  <2>2. Tidy
    BY DEF OrderInv
  <2>3. ~(env.powerLoss /\ (pc = "scan" \/ Ready))
    BY <1>3, <2>2 DEF Tidy
  <2> QED BY <1>1, <1>2, <2>1, <2>2, <2>3 DEF Tidy, Ready
<1>5. SealedWhole => SealedWhole'
  BY <1>1, <1>3 DEF SealedWhole
<1> QED BY <1>1, <1>2, <1>4, <1>5 DEF OrderInv, InOrderWrites, Intact

LEMMA OrderCut ==
    ASSUME CoreInv, OrderInv, NEW n \in 0..SegmentCells, Cut(n) PROVE OrderInv'
<1>1. /\ pc = "closed" /\ pc' = pc /\ log' = log /\ sealed = 0 /\ sealed' = sealed
      /\ cache' = [cells |-> [c \in Cells |-> IF c < n THEN cache.cells[c] ELSE Zero], size |-> n]
      /\ disk' = cache' /\ cuts' = cuts + 1 /\ env' = env
  BY DEF Cut, scanVars
<1>2. cuts' # 0
  BY <1>1 DEF CoreInv, SegType
<1>3. InOrderWrites => Shaped(cache', log, env.base)
  <2> SUFFICES ASSUME InOrderWrites PROVE Shaped(cache', log, env.base)
    OBVIOUS
  <2> DEFINE b == env.base
  <2>1. PICK t \in 0..SegmentCells : Shape(cache, log, b, t)
    BY DEF OrderInv, Tidy, Shaped
  <2>2. PICK k \in 0..Len(log) :
           /\ t <= Pos(log, b, k) /\ Pos(log, b, k) <= SegmentCells
           /\ \A c \in 0..(t - 1) : cache.cells[c] = Enc(log, b, 0, k)[c + 1]
    BY <2>1 DEF Shape
  <2>3. t \in Nat /\ n \in Nat /\ SegmentCells \in Nat /\ b \in Nat \ {0} /\ log \in Seq(Payloads)
        /\ n <= SegmentCells
    BY SegmentAssumption, CoreTypes
  <2>4. Pos(log, b, k) \in Nat
    <3> HIDE DEF b
    <3>1. k \in Nat /\ k <= Len(log) /\ k <= k
      BY <2>3
    <3> QED BY <2>3, <3>1, PosGrows
  <2> HIDE DEF b
  <2> DEFINE u == MinOf(t, n)
  <2>5. u \in 0..SegmentCells /\ u \in Nat /\ u <= t /\ u <= n /\ (u = t \/ u = n) /\ u <= Pos(log, b, k)
    BY <2>2, <2>3, <2>4 DEF MinOf
  <2> HIDE DEF u
  <2>6. \A c \in Cells : cache'.cells[c] = IF c < n THEN cache.cells[c] ELSE Zero
    BY <1>1
  <2>7. ASSUME NEW c \in 0..(u - 1) PROVE cache'.cells[c] = Enc(log, b, 0, k)[c + 1]
    <3>1. c \in Cells /\ c < n /\ c \in 0..(t - 1)
      BY <2>3, <2>5 DEF Cells
    <3> QED BY <2>2, <2>6, <3>1
  <2>8. ASSUME NEW c \in u..(SegmentCells - 1) PROVE cache'.cells[c] = Zero
    <3>1. c \in Cells /\ c \in Nat /\ u <= c
      BY <2>3, <2>5 DEF Cells
    <3>2. CASE c < n
      <4>1. c \in t..(SegmentCells - 1)
        BY <2>3, <2>5, <3>1, <3>2
      <4>2. cache.cells[c] = Zero
        BY <2>1, <4>1 DEF Shape, ZeroFrom
      <4> QED BY <2>6, <3>1, <4>2
    <3>3. CASE ~(c < n)
      BY <2>6, <3>1, <3>3
    <3> QED BY <3>2, <3>3
  <2>9. Shape(cache', log, b, u)
    BY <2>2, <2>5, <2>7, <2>8 DEF Shape, ZeroFrom
  <2>10. Shaped(cache', log, b)
    BY <2>5, <2>9 DEF Shaped
  <2> QED BY <2>10 DEF b
<1>4. InOrderWrites => Tidy'
  BY <1>1, <1>3 DEF Tidy, Recovering, Ready
<1> QED BY <1>1, <1>2, <1>4 DEF OrderInv, InOrderWrites

LEMMA OrderStep ==
    ASSUME OrderedDevice, CoreInv, OrderInv, [Next]_vars PROVE OrderInv'
<1>1. CASE Open
  BY <1>1, OrderOpen
<1>2. CASE Recovery
  BY <1>2, OrderScanRecord, OrderScanEnd, OrderClassify, OrderAtCapacity, OrderZeroChunk,
     OrderZeroSync DEF Recovery
<1>3. CASE Writer
  BY <1>3, OrderAppend, OrderCommit, OrderCommitWrite, OrderWriteFails, OrderSync,
     OrderSyncFails, OrderRoll, OrderCloseHandle DEF Writer
<1>4. CASE Environment
  BY <1>4, OrderWriteback, OrderLosePower, OrderCut DEF Environment
<1>5. CASE UNCHANGED vars
  BY <1>5, OrderStutter
<1> QED BY <1>1, <1>2, <1>3, <1>4, <1>5 DEF Next

(* The invariant of a device that persists pages in order: the file is the  *)
(* beginning of the log, and zeros.                                         *)
THEOREM OrderInvariant ==
    ASSUME OrderedDevice PROVE Spec => []OrderInv
<1>1. CoreInv /\ OrderInv /\ [Next]_vars => OrderInv'
  BY OrderStep
<1> QED BY OrderStart, CoreInvariant, <1>1, PTL DEF Spec

(* Behind write_offset the file is zero: what recover_segment has not       *)
(* accepted it has zeroed (zero_to_eof), and a commit writes only in front. *)
THEOREM ZeroTail ==
    ASSUME OrderedDevice PROVE Spec => []TailIsZero
<1>1. OrderInv => TailIsZero
  BY DEF OrderInv, Tidy, Ready, ZeroFrom, TailIsZero
<1> QED BY <1>1, OrderInvariant, PTL

(* The active segment always opens: what a crash or a cut leaves behind the *)
(* log is classified as a torn tail, never as TornMidLog or Corruption      *)
(* (recover_segment, forward_scan_finds_valid).                             *)
THEOREM ActiveAlwaysOpens ==
    ASSUME OrderedDevice PROVE Spec => []ActiveOpens
<1>1. OrderInv => ActiveOpens
  BY DEF OrderInv, Tidy, ActiveOpens
<1> QED BY <1>1, OrderInvariant, PTL

(* A segment that a roll has sealed and nobody has cut short opens.         *)
THEOREM SealedAlwaysOpens ==
    ASSUME OrderedDevice PROVE Spec => []SealedOpens
<1>1. CoreInv /\ OrderInv => SealedOpens
  <2> SUFFICES ASSUME CoreInv, OrderInv, InOrderWrites, Intact, pc = "failed", sealed # 0
               PROVE  FALSE
    BY DEF SealedOpens
  <2>1. sealed > 0
    BY DEF CoreInv, SegType
  <2> QED BY <2>1 DEF OrderInv, SealedWhole
<1> QED BY <1>1, CoreInvariant, OrderInvariant, PTL

(* The log an open hands out is the beginning of the one that was written:  *)
(* recover_segment resurrects no record of a tail that was given up (D10).  *)
THEOREM NothingResurrected ==
    ASSUME OrderedDevice PROVE Spec => NoResurrection
<1>1. CoreInv /\ OrderInv /\ [Next]_vars =>
        [(InOrderWrites /\ pc \in Recovering /\ pc' = "idle") =>
            (/\ Len(log') <= Len(log)
             /\ \A i \in 1..Len(log') : log'[i] = log[i])]_vars
  <2> SUFFICES ASSUME CoreInv, OrderInv, Next, InOrderWrites, pc \in Recovering, pc' = "idle"
               PROVE  Len(log') <= Len(log) /\ \A i \in 1..Len(log') : log'[i] = log[i]
    OBVIOUS
  <2>1. ScanEnd \/ ZeroSync
    BY DEF Next, Recovery, Writer, Environment, Recovering, Open, ScanRecord, Classify, AtCapacity,
       Fail, TornTail, ZeroChunk, AppendRecord, Commit, CommitWrite, CommitWriteFails, CommitSync,
       CommitSyncFails, Roll, Closed, CloseHandle, Writeback, LosePower, Cut
  <2>2. log' = found
    BY <2>1 DEF ScanEnd, ZeroSync, Opened, Closed, Fail
  <2>3. Tidy
    BY DEF OrderInv
  <2> QED BY <2>2, <2>3, TidyScan
<1> QED BY <1>1, CoreInvariant, OrderInvariant, PTL DEF Spec, NoResurrection
=============================================================================
