---------------------------- MODULE SessionProofs ----------------------------
(* The account files under any number of runs of passwd and chsh, for any     *)
(* users, with crashes of runs at every step; terminals and their sessions,   *)
(* for any number of lines, users and jobs; a mailbox under any number of     *)
(* senders and readers; the heap of every program, for any memory and any     *)
(* sizes asked for; /etc/mtab under any number of runs of mount and umount;   *)
(* and the jobs and the environment of the shell, for any processes, pipes    *)
(* and variables.                                                             *)
EXTENDS Accounts, Login, Mail, Heap, Mtab, Shell, FiniteSetTheorems, SequenceTheorems,
        WellFoundedInduction, TLAPS

----------------------------------------------------------------------------
(* Mail.  Numbers, messages in a mailbox, and what an update copies.        *)

\* Numbers have a least one.
LEMMA MlLeast ==
  ASSUME NEW T, T \subseteq Nat, T # {}
  PROVE  \E n \in T : \A m \in T : n <= m
<1> DEFINE O == OpToRel(<, Nat)
<1>1. IsWellFoundedOn(O, Nat)
  BY NatLessThanWellFounded
<1> HIDE DEF O
<1>2. PICK n \in T : \A m \in T : ~ (<<m, n>> \in O)
  BY <1>1, WFMin
<1>3. \A m \in T : <<m, n>> \in O <=> m < n
  BY <1>2 DEF O, OpToRel
<1>4. \A m \in T : ~(m < n)
  BY <1>2, <1>3, Zenon
<1> QED
  BY <1>4, SMT

Pieces == MlSenders \X {1, 2}
\* The two pieces of m are at k and behind it.
WholeAt(b, m, k) == k \in 1 .. Len(b) - 1 /\ b[k] = Piece(m, 1) /\ b[k + 1] = Piece(m, 2)

LEMMA WholeIs == ASSUME NEW b, NEW m PROVE IsWhole(b, m) <=> \E k : WholeAt(b, m, k)
BY DEF IsWhole, WholeAt

\* A message is whole in what holds it and in what it is part of.
LEMMA WholeConcat ==
  ASSUME NEW s \in Seq(Pieces), NEW t \in Seq(Pieces), NEW m
  PROVE  (IsWhole(s, m) => IsWhole(s \o t, m)) /\ (IsWhole(t, m) => IsWhole(s \o t, m))
<1>1. /\ Len(s) \in Nat /\ Len(t) \in Nat /\ Len(s \o t) = Len(s) + Len(t)
      /\ \A i \in 1 .. Len(s) : (s \o t)[i] = s[i]
      /\ \A i \in 1 .. Len(t) : (s \o t)[Len(s) + i] = t[i]
  BY LenProperties, ConcatProperties
<1>2. ASSUME NEW k, WholeAt(s, m, k) PROVE WholeAt(s \o t, m, k)
  <2>1. k \in 1 .. Len(s) - 1 /\ k \in 1 .. Len(s) /\ k + 1 \in 1 .. Len(s)
    BY <1>1, <1>2 DEF WholeAt
  <2>2. k \in 1 .. Len(s \o t) - 1 /\ (s \o t)[k] = s[k] /\ (s \o t)[k + 1] = s[k + 1]
    BY <1>1, <2>1
  <2> QED
    BY <1>2, <2>2 DEF WholeAt
<1>3. ASSUME NEW k, WholeAt(t, m, k) PROVE WholeAt(s \o t, m, Len(s) + k)
  <2>1. k \in 1 .. Len(t) - 1 /\ k \in 1 .. Len(t) /\ k + 1 \in 1 .. Len(t)
    BY <1>1, <1>3 DEF WholeAt
  <2>2. /\ Len(s) + k \in 1 .. Len(s \o t) - 1 /\ (s \o t)[Len(s) + k] = t[k]
        /\ (Len(s) + k) + 1 = Len(s) + (k + 1) /\ (s \o t)[Len(s) + (k + 1)] = t[k + 1]
    BY <1>1, <2>1
  <2> QED
    BY <1>3, <2>2 DEF WholeAt
<1> QED
  BY <1>2, <1>3, WholeIs

\* The parts of the mailbox that an update keeps, one after another.
PartOf(r, i) == IF i \in mlDel[r] THEN <<>> ELSE Span(r, i)
Parts(r)     == Len(mlOff[r]) - 1
KeepsTo(f, r, n) ==
  f = [i \in 0 .. n |-> IF i = 0 THEN <<>> ELSE f[i - 1] \o PartOf(r, i)]

LEMMA KeepExists ==
  ASSUME NEW r, Parts(r) \in Nat, \A i \in 1 .. Parts(r) : PartOf(r, i) \in Seq(Pieces)
  PROVE  \E f \in [0 .. Parts(r) -> Seq(Pieces)] : KeepsTo(f, r, Parts(r))
<1> DEFINE N == Parts(r)
           T == {n \in 0 .. N : ~ \E f \in [0 .. n -> Seq(Pieces)] : KeepsTo(f, r, n)}
<1>0. N \in Nat /\ \A i \in 1 .. N : PartOf(r, i) \in Seq(Pieces)
  OBVIOUS
<1> HIDE DEF N
<1>1. SUFFICES ASSUME T # {} PROVE FALSE
  BY <1>0 DEF N
<1>2. T \subseteq Nat
  BY <1>0
<1>3. PICK n \in T : \A m \in T : n <= m
  BY <1>1, <1>2, MlLeast
<1>4. n \in 0 .. N
  BY <1>3
<1>5. n # 0
  <2> DEFINE f == [i \in 0 .. 0 |-> <<>>]
  <2>1. f \in [0 .. 0 -> Seq(Pieces)] /\ KeepsTo(f, r, 0)
    BY EmptySeq DEF KeepsTo
  <2> QED
    BY <1>3, <2>1
<1>6. n - 1 \in 0 .. N /\ n - 1 \notin T
  <2> HIDE DEF T
  <2>1. ASSUME n - 1 \in T PROVE n <= n - 1
    BY <1>3, <2>1
  <2> QED
    BY <1>0, <1>4, <1>5, <2>1
<1>7. PICK g \in [0 .. n - 1 -> Seq(Pieces)] : KeepsTo(g, r, n - 1)
  BY <1>6
<1> DEFINE new == g[n - 1] \o PartOf(r, n)
           f == [i \in 0 .. n |-> IF i = n THEN new ELSE g[i]]
<1>8. new \in Seq(Pieces)
  <2>1. g[n - 1] \in Seq(Pieces) /\ PartOf(r, n) \in Seq(Pieces)
    BY <1>0, <1>4, <1>5, <1>7
  <2> QED
    BY <2>1, ConcatProperties
<1>9. f \in [0 .. n -> Seq(Pieces)]
  <2> HIDE DEF new
  <2> QED
    BY <1>0, <1>4, <1>7, <1>8
<1>10. KeepsTo(f, r, n)
  <2>1. ASSUME NEW i \in 0 .. n PROVE f[i] = IF i = 0 THEN <<>> ELSE f[i - 1] \o PartOf(r, i)
    <3>1. CASE i = n
      <4>1. f[i] = g[n - 1] \o PartOf(r, n) /\ f[n - 1] = g[n - 1]
        BY <1>0, <1>4, <1>5, <3>1
      <4> QED
        BY <1>5, <3>1, <4>1
    <3>2. CASE i # n
      <4>1. i \in 0 .. n - 1 /\ (i # 0 => i - 1 \in 0 .. n - 1 /\ i - 1 # n /\ i - 1 \in 0 .. n)
        BY <1>0, <1>4, <3>2
      <4>2. g[i] = IF i = 0 THEN <<>> ELSE g[i - 1] \o PartOf(r, i)
        BY <1>7, <4>1 DEF KeepsTo
      <4>3. f[i] = g[i] /\ (i # 0 => f[i - 1] = g[i - 1])
        BY <3>2, <4>1
      <4> QED
        BY <4>2, <4>3
    <3> QED
      BY <3>1, <3>2
  <2> HIDE DEF f
  <2>2. f = [i \in 0 .. n |-> f[i]]
    BY <1>9
  <2> QED
    BY <2>1, <2>2, Zenon DEF KeepsTo
<1> HIDE DEF f
<1> QED
  BY <1>3, <1>9, <1>10

\* A message that is whole in a part, or ends it, is or does so in all of them.
LEMMA KeepHas ==
  ASSUME NEW r, Parts(r) \in Nat, \A i \in 1 .. Parts(r) : PartOf(r, i) \in Seq(Pieces), NEW m
  PROVE  /\ Keep(r, mlDel[r]) \in Seq(Pieces)
         /\ \A i \in 1 .. Parts(r) : IsWhole(PartOf(r, i), m) => IsWhole(Keep(r, mlDel[r]), m)
         /\ Parts(r) # 0 => \E s \in Seq(Pieces) : Keep(r, mlDel[r]) = s \o PartOf(r, Parts(r))
<1> DEFINE N == Parts(r)
           K == CHOOSE f : f = [i \in 0 .. N |-> IF i = 0 THEN <<>> ELSE f[i - 1] \o PartOf(r, i)]
<1>1. Keep(r, mlDel[r]) = K[N]
  BY DEF Keep, Parts, PartOf
<1> HIDE DEF K
<1>2. PICK f \in [0 .. N -> Seq(Pieces)] : KeepsTo(f, r, N)
  BY KeepExists
<1>3. \E g : g = [i \in 0 .. N |-> IF i = 0 THEN <<>> ELSE g[i - 1] \o PartOf(r, i)]
  BY <1>2, Zenon DEF KeepsTo
<1>4. K = [i \in 0 .. N |-> IF i = 0 THEN <<>> ELSE K[i - 1] \o PartOf(r, i)]
  BY <1>3 DEF K
<1>5. N \in Nat /\ \A i \in 1 .. N : PartOf(r, i) \in Seq(Pieces)
  OBVIOUS
<1> HIDE DEF N
<1>6. K[0] = <<>> /\ \A i \in 1 .. N : i - 1 \in 0 .. N /\ K[i] = K[i - 1] \o PartOf(r, i)
  <2>1. K[0] = <<>>
    BY <1>4, <1>5
  <2>2. \A i \in 1 .. N : i - 1 \in 0 .. N /\ i \in 0 .. N /\ i # 0
    BY <1>5
  <2>3. ASSUME NEW i \in 1 .. N PROVE K[i] = K[i - 1] \o PartOf(r, i)
    BY <1>4, <2>2
  <2> QED
    BY <2>1, <2>2, <2>3
<1>7. \A i \in 0 .. N : K[i] \in Seq(Pieces)
  <2> DEFINE T == {i \in 0 .. N : K[i] \notin Seq(Pieces)}
  <2>1. SUFFICES ASSUME T # {} PROVE FALSE
    OBVIOUS
  <2>2. T \subseteq Nat
    BY <1>5
  <2>3. PICK n \in T : \A i \in T : n <= i
    BY <2>1, <2>2, MlLeast
  <2>4. n \in 0 .. N /\ n # 0
    BY <1>6, <2>3, EmptySeq
  <2>5. n \in 1 .. N /\ n - 1 \in 0 .. N /\ n - 1 \notin T
    <3> HIDE DEF T
    <3>1. ASSUME n - 1 \in T PROVE n <= n - 1
      BY <2>3, <3>1
    <3> QED
      BY <1>5, <2>4, <3>1
  <2>6. K[n - 1] \in Seq(Pieces) /\ PartOf(r, n) \in Seq(Pieces) /\ K[n] = K[n - 1] \o PartOf(r, n)
    BY <1>5, <1>6, <2>5
  <2>7. K[n] \in Seq(Pieces)
    BY <2>6, ConcatProperties
  <2> QED
    BY <2>3, <2>7
<1>8. ASSUME NEW i \in 1 .. N, IsWhole(PartOf(r, i), m) PROVE IsWhole(K[N], m)
  <2> DEFINE T == {j \in i .. N : ~IsWhole(K[j], m)}
  <2>0. N \in i .. N
    BY <1>5
  <2>1. SUFFICES ASSUME N \in T PROVE FALSE
    BY <2>0
  <2>2. T \subseteq Nat
    BY <1>5
  <2>3. PICK n \in T : \A j \in T : n <= j
    BY <2>1, <2>2, MlLeast
  <2>4. n \in 1 .. N /\ i <= n /\ n - 1 \in 0 .. N
    BY <1>5, <2>3
  <2>5. K[n - 1] \in Seq(Pieces) /\ PartOf(r, n) \in Seq(Pieces) /\ K[n] = K[n - 1] \o PartOf(r, n)
    BY <1>5, <1>6, <1>7, <2>4
  <2>6. CASE n = i
    BY <1>8, <2>3, <2>5, <2>6, WholeConcat
  <2>7. CASE n # i
    <3>1. n - 1 \in i .. N /\ n - 1 \notin T
      <4> HIDE DEF T
      <4>1. ASSUME n - 1 \in T PROVE n <= n - 1
        BY <2>3, <4>1
      <4> QED
        BY <1>5, <2>4, <2>7, <4>1
    <3> QED
      BY <2>3, <2>5, <3>1, WholeConcat
  <2> QED
    BY <2>6, <2>7
<1>9. ASSUME N # 0 PROVE \E s \in Seq(Pieces) : K[N] = s \o PartOf(r, N)
  <2>1. N \in 1 .. N /\ N - 1 \in 0 .. N
    BY <1>5, <1>9
  <2> QED
    BY <1>6, <1>7, <2>1
<1>10. K[N] \in Seq(Pieces)
  BY <1>5, <1>7
<1>11. /\ Keep(r, mlDel[r]) \in Seq(Pieces)
       /\ \A i \in 1 .. N : IsWhole(PartOf(r, i), m) => IsWhole(Keep(r, mlDel[r]), m)
       /\ N # 0 => \E s \in Seq(Pieces) : Keep(r, mlDel[r]) = s \o PartOf(r, N)
  BY <1>1, <1>8, <1>9, <1>10
<1> QED
  BY <1>11, Zenon DEF N

----------------------------------------------------------------------------
(* What load remembers of a mailbox, and what update makes of it.            *)

\* Offsets o fit the mailbox b: they ascend from its beginning, and all but the
\* first and the last are at a first piece.
OffOK(o, b) ==
  /\ b # <<>> /\ Len(o) \in Nat \ {0} /\ \A i \in 1 .. Len(o) : o[i] \in 1 .. Len(b) + 1
  /\ \A i \in 1 .. Len(o) - 1 : o[i] < o[i + 1] /\ (i # 1 => b[o[i]][2] = 1)
  /\ o[1] = 1

\* They still do when the mailbox has grown.
LEMMA OffGrown ==
  ASSUME NEW b \in Seq(Pieces), NEW o, OffOK(o, b), NEW p \in Pieces
  PROVE  OffOK(o, Append(b, p))
<1> DEFINE c == Append(b, p)
<1>1. Len(b) \in Nat /\ Len(c) = Len(b) + 1 /\ c # <<>> /\ \A k \in 1 .. Len(b) : c[k] = b[k]
  BY AppendProperties, LenProperties
<1> HIDE DEF c
<1>2. \A i \in 1 .. Len(o) : o[i] \in 1 .. Len(b) + 1
  BY DEF OffOK
<1>3. Len(o) \in Nat \ {0}
  BY DEF OffOK
<1>4. ASSUME NEW i \in 1 .. Len(o) - 1 PROVE o[i] < o[i + 1] /\ (i # 1 => c[o[i]][2] = 1)
  <2>1. i \in 1 .. Len(o) /\ i + 1 \in 1 .. Len(o)
    BY <1>3
  <2>2. o[i] < o[i + 1] /\ (i # 1 => b[o[i]][2] = 1)
    BY DEF OffOK
  <2>3. o[i] \in 1 .. Len(b)
    BY <1>1, <1>2, <2>1, <2>2
  <2> QED
    BY <1>1, <2>2, <2>3
<1>5. o[1] = 1
  BY DEF OffOK
<1>6. \A i \in 1 .. Len(o) : o[i] \in 1 .. Len(c) + 1
  BY <1>1, <1>2
<1> QED
  BY <1>1, <1>3, <1>4, <1>5, <1>6 DEF OffOK, c

\* A span of the mailbox, with its pieces.
LEMMA SpanIs ==
  ASSUME mlBox \in Seq(Pieces), NEW r, OffOK(mlOff[r], mlBox), NEW i \in 1 .. Len(mlOff[r]) - 1
  PROVE  LET a == mlOff[r][i]
             z == mlOff[r][i + 1]
         IN /\ a \in 1 .. Len(mlBox) /\ z \in 1 .. Len(mlBox) + 1 /\ a < z
            /\ Span(r, i) \in Seq(Pieces) /\ Len(Span(r, i)) = z - a
            /\ \A k \in a .. z - 1 : k - a + 1 \in 1 .. z - a /\ Span(r, i)[k - a + 1] = mlBox[k]
<1> DEFINE a == mlOff[r][i]
           z == mlOff[r][i + 1]
           L == Len(mlBox)
<1>1. L \in Nat /\ \A k \in 1 .. L : mlBox[k] \in Pieces
  BY LenProperties, ElementOfSeq
<1>2. i \in 1 .. Len(mlOff[r]) /\ i + 1 \in 1 .. Len(mlOff[r])
  BY DEF OffOK
<1>3. a \in 1 .. L + 1 /\ z \in 1 .. L + 1 /\ a < z
  BY <1>2 DEF OffOK
<1>4. Span(r, i) = SubSeq(mlBox, a, IF z - 1 > L THEN L ELSE z - 1)
  BY Zenon DEF Span, Cut
<1> HIDE DEF a, z, L
<1>5. Span(r, i) = SubSeq(mlBox, a, z - 1)
  BY <1>1, <1>3, <1>4
<1>6. a \in Int /\ z - 1 \in Int /\ a <= z - 1 /\ \A k \in a .. z - 1 : mlBox[k] \in Pieces
  BY <1>1, <1>3
<1>7. /\ Span(r, i) \in Seq(Pieces) /\ Len(Span(r, i)) = (z - 1) - a + 1
      /\ \A j \in 1 .. (z - 1) - a + 1 : Span(r, i)[j] = mlBox[a + j - 1]
  BY <1>5, <1>6, SubSeqProperties
<1>8. ASSUME NEW k \in a .. z - 1
      PROVE  k - a + 1 \in 1 .. z - a /\ Span(r, i)[k - a + 1] = mlBox[k]
  <2> DEFINE j == k - a + 1
  <2>1. j \in 1 .. (z - 1) - a + 1 /\ j \in 1 .. z - a /\ a + j - 1 = k
    BY <1>3
  <2> HIDE DEF j
  <2>2. Span(r, i)[j] = mlBox[k]
    BY <1>7, <2>1
  <2> QED
    BY <2>1, <2>2 DEF j
<1>9. (z - 1) - a + 1 = z - a /\ a \in 1 .. L
  BY <1>1, <1>3
<1> QED
  BY <1>3, <1>7, <1>8, <1>9 DEF a, z, L

LEMMA RestIs ==
  ASSUME mlBox \in Seq(Pieces), NEW r, OffOK(mlOff[r], mlBox)
  PROVE  LET z == EndOff(r)
             L == Len(mlBox)
         IN /\ z \in 1 .. L + 1 /\ L \in Nat /\ Rest(r, EndOff(r)) \in Seq(Pieces) /\ Len(Rest(r, EndOff(r))) = L + 1 - z
            /\ \A k \in z .. L : k - z + 1 \in 1 .. L + 1 - z /\ Rest(r, EndOff(r))[k - z + 1] = mlBox[k]
<1> DEFINE z == EndOff(r)
           L == Len(mlBox)
<1>1. L \in Nat /\ \A k \in 1 .. L : mlBox[k] \in Pieces
  BY LenProperties, ElementOfSeq
<1>2. z \in 1 .. L + 1
  BY DEF OffOK, EndOff
<1>3. Rest(r, EndOff(r)) = SubSeq(mlBox, z, L)
  BY DEF Rest
<1> HIDE DEF z, L
<1>4. z \in Int /\ L \in Int /\ \A k \in z .. L : mlBox[k] \in Pieces
  BY <1>1, <1>2
<1>5. /\ Rest(r, EndOff(r)) \in Seq(Pieces) /\ Len(Rest(r, EndOff(r))) = (IF z <= L THEN L - z + 1 ELSE 0)
      /\ \A j \in 1 .. L - z + 1 : Rest(r, EndOff(r))[j] = mlBox[z + j - 1]
  BY <1>3, <1>4, SubSeqProperties
<1>6. Len(Rest(r, EndOff(r))) = L + 1 - z
  BY <1>1, <1>2, <1>5
<1>7. ASSUME NEW k \in z .. L
      PROVE  k - z + 1 \in 1 .. L + 1 - z /\ Rest(r, EndOff(r))[k - z + 1] = mlBox[k]
  <2> DEFINE j == k - z + 1
  <2>1. j \in 1 .. L - z + 1 /\ j \in 1 .. L + 1 - z /\ z + j - 1 = k
    BY <1>1, <1>2
  <2> HIDE DEF j
  <2>2. Rest(r, EndOff(r))[j] = mlBox[k]
    BY <1>5, <2>1
  <2> QED
    BY <2>1, <2>2 DEF j
<1> QED
  BY <1>1, <1>2, <1>5, <1>6, <1>7 DEF z, L

\* The span a place of the mailbox is in.
LEMMA SpanOf ==
  ASSUME NEW o, NEW b \in Seq(Pieces), OffOK(o, b), NEW k \in Nat, o[1] <= k, k < o[Len(o)]
  PROVE  \E i \in 1 .. Len(o) - 1 : o[i] <= k /\ k < o[i + 1]
<1> DEFINE T == {i \in 1 .. Len(o) : k < o[i]}
<1>1. Len(o) \in Nat \ {0} /\ \A i \in 1 .. Len(o) : o[i] \in Nat
  <2>1. \A i \in 1 .. Len(o) : o[i] \in 1 .. Len(b) + 1
    BY DEF OffOK
  <2>2. Len(b) \in Nat
    BY LenProperties
  <2> QED
    BY <2>1, <2>2 DEF OffOK
<1>2. Len(o) \in T /\ T \subseteq Nat
  BY <1>1
<1>3. PICK n \in T : \A i \in T : n <= i
  BY <1>2, MlLeast
<1>4. n \in 1 .. Len(o) /\ k < o[n] /\ n # 1
  BY <1>1, <1>3
<1>5. n - 1 \in 1 .. Len(o) - 1 /\ n - 1 \in 1 .. Len(o) /\ (n - 1) + 1 = n
  BY <1>1, <1>4
<1>6. n - 1 \notin T
  <2> HIDE DEF T
  <2>1. ASSUME n - 1 \in T PROVE n <= n - 1
    BY <1>3, <2>1
  <2> QED
    BY <1>4, <2>1
<1>7. o[n - 1] <= k
  BY <1>1, <1>5, <1>6
<1> QED
  BY <1>4, <1>5, <1>7

LEMMA CopyTypes ==
  ASSUME mlBox \in Seq(Pieces), NEW r, OffOK(mlOff[r], mlBox)
  PROVE  Keep(r, mlDel[r]) \o Rest(r, EndOff(r)) \in Seq(Pieces)
<1>1. Parts(r) \in Nat /\ Parts(r) = Len(mlOff[r]) - 1
  BY DEF OffOK, Parts
<1>2. ASSUME NEW i \in 1 .. Parts(r) PROVE PartOf(r, i) \in Seq(Pieces)
  <2>1. Span(r, i) \in Seq(Pieces)
    BY <1>1, SpanIs
  <2> QED
    BY <2>1, EmptySeq DEF PartOf
<1>3. Keep(r, mlDel[r]) \in Seq(Pieces)
  BY <1>1, <1>2, KeepHas
<1>4. Rest(r, EndOff(r)) \in Seq(Pieces)
  BY RestIs
<1> QED
  BY <1>3, <1>4, ConcatProperties

\* A message that was whole and that no deleted span begins is still whole.
LEMMA CopyKeeps ==
  ASSUME mlBox \in Seq(Pieces), NEW r, OffOK(mlOff[r], mlBox), NEW m, IsWhole(mlBox, m),
         \A i \in mlDel[r] : \A j \in DOMAIN Span(r, i) : Span(r, i)[j] # Piece(m, 1)
  PROVE  Keep(r, mlDel[r]) \o Rest(r, EndOff(r)) \in Seq(Pieces) /\ IsWhole(Keep(r, mlDel[r]) \o Rest(r, EndOff(r)), m)
<1> DEFINE o == mlOff[r]
           N == Parts(r)
           z == EndOff(r)
<1>1. N \in Nat /\ N = Len(o) - 1 /\ z = o[N + 1] /\ N + 1 = Len(o) /\ Len(o) \in Nat \ {0}
  BY DEF OffOK, Parts, EndOff
<1>2. ASSUME NEW i \in 1 .. N PROVE PartOf(r, i) \in Seq(Pieces)
  <2>1. Span(r, i) \in Seq(Pieces)
    BY <1>1, SpanIs
  <2> QED
    BY <2>1, EmptySeq DEF PartOf
<1>3. /\ Keep(r, mlDel[r]) \in Seq(Pieces)
      /\ \A i \in 1 .. N : IsWhole(PartOf(r, i), m) => IsWhole(Keep(r, mlDel[r]), m)
      /\ N # 0 => \E s \in Seq(Pieces) : Keep(r, mlDel[r]) = s \o PartOf(r, N)
  BY <1>1, <1>2, KeepHas
<1>4. /\ z \in 1 .. Len(mlBox) + 1 /\ Len(mlBox) \in Nat /\ Rest(r, EndOff(r)) \in Seq(Pieces)
      /\ Len(Rest(r, EndOff(r))) = Len(mlBox) + 1 - z
      /\ \A k \in z .. Len(mlBox) : k - z + 1 \in 1 .. Len(mlBox) + 1 - z /\ Rest(r, EndOff(r))[k - z + 1] = mlBox[k]
  BY RestIs
<1>13. z \in 1 .. Len(mlBox) + 1 /\ Len(mlBox) \in Nat
  BY <1>4
<1>5. Keep(r, mlDel[r]) \o Rest(r, EndOff(r)) \in Seq(Pieces)
  BY <1>3, <1>4, ConcatProperties
<1>6. PICK k : WholeAt(mlBox, m, k)
  BY WholeIs
<1>7. k \in 1 .. Len(mlBox) - 1 /\ mlBox[k] = Piece(m, 1) /\ mlBox[k + 1] = Piece(m, 2)
  BY <1>6 DEF WholeAt
<1>8. mlBox[k][2] = 1 /\ mlBox[k + 1][2] = 2
  BY <1>7 DEF Piece
<1>9. OffOK(o, mlBox)
  OBVIOUS
<1> HIDE DEF N, z, o
<1>10. CASE z <= k
  <2> DEFINE j == k - z + 1
  <2>1. k \in z .. Len(mlBox) /\ k + 1 \in z .. Len(mlBox) /\ (k + 1) - z + 1 = j + 1
    BY <1>7, <1>10, <1>13
  <2>2. j \in 1 .. Len(Rest(r, EndOff(r))) - 1
    BY <1>4, <1>7, <1>10
  <2>3. Rest(r, EndOff(r))[j] = mlBox[k] /\ Rest(r, EndOff(r))[j + 1] = mlBox[k + 1]
    BY <1>4, <2>1
  <2> HIDE DEF j
  <2>4. WholeAt(Rest(r, EndOff(r)), m, j)
    BY <1>7, <2>2, <2>3 DEF WholeAt
  <2>5. IsWhole(Rest(r, EndOff(r)), m)
    BY <2>4, WholeIs
  <2> QED
    BY <1>3, <1>4, <1>5, <2>5, WholeConcat
<1>11. CASE k < z
  <2>1. o[1] = 1
    BY <1>9 DEF OffOK
  <2>2. o[1] <= k /\ k < o[Len(o)] /\ k \in Nat
    BY <1>1, <1>4, <1>7, <1>11, <2>1
  <2>3. PICK i \in 1 .. N : o[i] <= k /\ k < o[i + 1]
    BY <1>1, <1>9, <2>2, SpanOf
  <2> DEFINE a == o[i]
             e == o[i + 1]
             s == Span(r, i)
  <2>4. /\ a \in 1 .. Len(mlBox) /\ e \in 1 .. Len(mlBox) + 1 /\ a < e
        /\ s \in Seq(Pieces) /\ Len(s) = e - a
        /\ \A h \in a .. e - 1 : h - a + 1 \in 1 .. e - a /\ s[h - a + 1] = mlBox[h]
    <3>1. i \in 1 .. Len(mlOff[r]) - 1
      BY <1>1 DEF o
    <3> QED
      BY <3>1, SpanIs DEF o
  <2>5. a <= k /\ k < e /\ i \in Nat
    BY <1>1, <2>3
  <2>6. i + 1 <= N => mlBox[e][2] = 1
    <3>1. ASSUME i + 1 <= N PROVE i + 1 \in 1 .. Len(o) - 1 /\ i + 1 # 1
      BY <1>1, <2>3, <3>1
    <3> QED
      BY <1>9, <3>1 DEF OffOK
  <2>7. i <= N /\ (i = N => e = z)
    BY <1>1, <2>3
  <2> HIDE DEF a, e
  <2> DEFINE j == k - a + 1
  <2>8. k \in a .. e - 1 /\ j \in 1 .. Len(s) /\ s[j] = Piece(m, 1)
    <3> HIDE DEF s
    <3>1. k \in a .. e - 1
      BY <1>4, <1>7, <2>4, <2>5
    <3>2. j \in 1 .. e - a /\ s[j] = mlBox[k]
      BY <2>4, <3>1
    <3> QED
      BY <1>7, <2>4, <3>1, <3>2
  <2>9. DOMAIN s = 1 .. Len(s)
    BY <2>4, LenProperties
  <2>10. PartOf(r, i) = s
    BY <2>8, <2>9 DEF PartOf
  <2>11. CASE k + 1 < e
    <3>1. k + 1 \in a .. e - 1 /\ (k + 1) - a + 1 = j + 1 /\ j \in 1 .. Len(s) - 1
      BY <1>4, <1>7, <2>4, <2>5, <2>11
    <3>2. s[j + 1] = Piece(m, 2)
      BY <1>7, <2>4, <3>1
    <3> HIDE DEF j, s
    <3>3. WholeAt(s, m, j)
      BY <2>8, <3>1, <3>2 DEF WholeAt
    <3>4. IsWhole(Keep(r, mlDel[r]), m)
      BY <1>3, <2>3, <2>10, <3>3, WholeIs
    <3> QED
      BY <1>3, <1>4, <1>5, <3>4, WholeConcat
  <2>12. CASE ~(k + 1 < e)
    <3>1. k + 1 = e
      BY <1>4, <1>7, <2>4, <2>5, <2>12
    <3>2. i = N
      <4>1. ~(i + 1 <= N)
        BY <1>8, <2>6, <3>1
      <4>2. i \in Nat /\ N \in Nat /\ i <= N
        BY <1>1, <2>5, <2>7
      <4> QED
        BY <4>1, <4>2
    <3>3. N # 0 /\ z = k + 1
      BY <1>1, <2>3, <2>7, <3>1, <3>2
    <3>4. PICK t \in Seq(Pieces) : Keep(r, mlDel[r]) = t \o s
      BY <1>3, <2>10, <3>2, <3>3
    <3>5. j = Len(s)
      BY <1>4, <1>7, <2>4, <3>1
    <3> HIDE DEF j, s
    <3> DEFINE K == Keep(r, mlDel[r])
               h == Len(K)
    <3>6. /\ Len(t) \in Nat /\ Len(s) \in Nat /\ Len(s) >= 1 /\ h = Len(t) + Len(s)
          /\ K[Len(t) + Len(s)] = s[Len(s)]
      <4>1. Len(t) \in Nat /\ Len(s) \in Nat /\ Len(s) >= 1 /\ Len(s) \in 1 .. Len(s)
        BY <2>4, <2>8, <3>5, LenProperties
      <4>0. t \in Seq(Pieces) /\ s \in Seq(Pieces)
        BY <2>4, <3>4
      <4>2. Len(t \o s) = Len(t) + Len(s) /\ \A x \in 1 .. Len(s) : (t \o s)[Len(t) + x] = s[x]
        BY ONLY <4>0, ConcatProperties
      <4> QED
        BY <3>4, <4>1, <4>2
    <3>7. h \in Nat /\ h >= 1 /\ K[h] = Piece(m, 1)
      BY <2>8, <3>5, <3>6
    <3>8. Rest(r, EndOff(r))[1] = Piece(m, 2) /\ Len(Rest(r, EndOff(r))) \in Nat /\ Len(Rest(r, EndOff(r))) >= 1
      <4>1. k + 1 \in z .. Len(mlBox) /\ (k + 1) - z + 1 = 1
        BY <1>4, <1>7, <3>3
      <4> QED
        BY <1>4, <1>7, <3>3, <4>1
    <3>9. /\ Len(K \o Rest(r, EndOff(r))) = h + Len(Rest(r, EndOff(r))) /\ (K \o Rest(r, EndOff(r)))[h] = K[h]
          /\ (K \o Rest(r, EndOff(r)))[h + 1] = Rest(r, EndOff(r))[1]
      <4>1. h \in 1 .. Len(K) /\ 1 \in 1 .. Len(Rest(r, EndOff(r)))
        BY <3>7, <3>8
      <4>0. K \in Seq(Pieces) /\ Rest(r, EndOff(r)) \in Seq(Pieces)
        BY <1>3, <1>4
      <4>2. /\ Len(K \o Rest(r, EndOff(r))) = Len(K) + Len(Rest(r, EndOff(r)))
            /\ \A x \in 1 .. Len(K) : (K \o Rest(r, EndOff(r)))[x] = K[x]
            /\ \A x \in 1 .. Len(Rest(r, EndOff(r))) : (K \o Rest(r, EndOff(r)))[Len(K) + x] = Rest(r, EndOff(r))[x]
        BY ONLY <4>0, ConcatProperties
      <4> QED
        BY <4>1, <4>2
    <3> HIDE DEF h
    <3>10. h \in 1 .. Len(K \o Rest(r, EndOff(r))) - 1
      BY <3>7, <3>8, <3>9
    <3>11. WholeAt(K \o Rest(r, EndOff(r)), m, h)
      BY <3>7, <3>8, <3>9, <3>10 DEF WholeAt
    <3> QED
      BY <1>5, <3>11, WholeIs
  <2> QED
    BY <2>11, <2>12
<1>12. z \in Nat /\ k \in Nat
  BY <1>4, <1>7
<1> QED
  BY <1>10, <1>11, <1>12

----------------------------------------------------------------------------
(* The offsets that load finds.                                              *)

Upto(S, x) == {j \in S : j <= x}
CountTo(S, x) == Cardinality(Upto(S, x))

LEMMA UptoFinite ==
  ASSUME NEW L \in Nat, NEW S, \A y \in S : y \in 1 .. L, NEW x
  PROVE  IsFiniteSet(Upto(S, x)) /\ CountTo(S, x) \in Nat
<1>1. Upto(S, x) \subseteq 1 .. L
  BY DEF Upto
<1>2. IsFiniteSet(1 .. L)
  BY FS_Interval
<1> QED
  BY <1>1, <1>2, FS_Subset, FS_CardinalityType DEF CountTo

LEMMA UptoEnds ==
  ASSUME NEW L \in Nat, NEW S, \A y \in S : y \in 1 .. L
  PROVE  Upto(S, L) = S /\ Upto(S, -1) = {} /\ Upto(S, 0) = {}
BY DEF Upto

LEMMA UptoStep ==
  ASSUME NEW L \in Nat, NEW S, \A y \in S : y \in 1 .. L, NEW n \in Nat
  PROVE  /\ n \in S => Upto(S, n) = Upto(S, n - 1) \cup {n} /\ n \notin Upto(S, n - 1)
         /\ n \notin S => Upto(S, n) = Upto(S, n - 1)
BY DEF Upto

LEMMA UptoMore ==
  ASSUME NEW L \in Nat, NEW S, \A y \in S : y \in 1 .. L, NEW a \in Nat, NEW b \in Nat, a <= b
  PROVE  CountTo(S, a) <= CountTo(S, b)
<1>1. Upto(S, a) \subseteq Upto(S, b)
  BY DEF Upto
<1> QED
  BY <1>1, UptoFinite, FS_Subset DEF CountTo

\* A set of as many numbers as there are has a k-th one.
LEMMA NthIs ==
  ASSUME NEW L \in Nat, NEW S, \A y \in S : y \in 1 .. L, NEW k \in Nat, 1 <= k, k <= Cardinality(S)
  PROVE  Nth(S, k) \in S /\ CountTo(S, Nth(S, k)) = k
<1> DEFINE T == {x \in Nat : k <= CountTo(S, x)}
<1>1. \A x : CountTo(S, x) \in Nat
  BY UptoFinite
<1>2. T # {}
  <2>1. Upto(S, L) = S
    BY UptoEnds
  <2>2. L \in T
    BY <2>1 DEF CountTo
  <2> QED
    BY <2>2
<1>3. PICK n \in T : \A x \in T : n <= x
  <2>1. T \subseteq Nat
    OBVIOUS
  <2> HIDE DEF T
  <2> QED
    BY <1>2, <2>1, MlLeast
<1>4. n \in Nat /\ k <= CountTo(S, n)
  BY <1>3
<1>5. CountTo(S, n - 1) < k
  <2>1. CASE n = 0
    <3>1. Upto(S, n - 1) = {}
      BY <2>1, UptoEnds
    <3>2. CountTo(S, n - 1) = 0
      BY <3>1, FS_EmptySet DEF CountTo
    <3> QED
      BY <3>2
  <2>2. CASE n # 0
    <3>1. n - 1 \in Nat
      BY <1>4, <2>2
    <3>2. n - 1 \notin T
      <4> HIDE DEF T
      <4>1. ASSUME n - 1 \in T PROVE n <= n - 1
        BY <1>3, <4>1
      <4> QED
        BY <1>4, <4>1
    <3>3. CountTo(S, n - 1) \in Nat
      BY <1>1
    <3> QED
      BY <3>1, <3>2, <3>3
  <2> QED
    BY <2>1, <2>2
<1>6. n \in S /\ CountTo(S, n) = k
  <2>1. CASE n \in S
    <3>1. Upto(S, n) = Upto(S, n - 1) \cup {n} /\ n \notin Upto(S, n - 1)
      BY <1>4, <2>1, UptoStep
    <3>2. IsFiniteSet(Upto(S, n - 1))
      BY UptoFinite
    <3>3. CountTo(S, n) = CountTo(S, n - 1) + 1
      BY <3>1, <3>2, FS_AddElement DEF CountTo
    <3>4. CountTo(S, n - 1) \in Nat
      BY <1>1
    <3> QED
      BY <1>4, <1>5, <2>1, <3>3, <3>4
  <2>2. CASE n \notin S
    <3>1. Upto(S, n) = Upto(S, n - 1)
      BY <1>4, <2>2, UptoStep
    <3>2. CountTo(S, n) = CountTo(S, n - 1) /\ CountTo(S, n) \in Nat
      BY <1>1, <3>1 DEF CountTo
    <3> QED
      BY <1>4, <1>5, <3>2
  <2> QED
    BY <2>1, <2>2
<1>7. \E i \in S : Cardinality({j \in S : j <= i}) = k
  BY <1>6 DEF Upto, CountTo
<1>8. Nth(S, k) \in S /\ Cardinality({j \in S : j <= Nth(S, k)}) = k
  BY <1>7 DEF Nth
<1> QED
  BY <1>8 DEF Upto, CountTo

\* They ascend, and the first has none before it.
LEMMA NthOrder ==
  ASSUME NEW L \in Nat, NEW S, \A y \in S : y \in 1 .. L, NEW k \in Nat, 1 <= k
  PROVE  /\ k + 1 <= Cardinality(S) => Nth(S, k) < Nth(S, k + 1)
         /\ 1 <= Cardinality(S) => \A y \in S : Nth(S, 1) <= y
<1>1. Cardinality(S) \in Nat
  <2>1. Upto(S, L) = S
    BY UptoEnds
  <2>2. CountTo(S, L) \in Nat
    BY UptoFinite
  <2> QED
    BY <2>1, <2>2 DEF CountTo
<1>2. ASSUME k + 1 <= Cardinality(S) PROVE Nth(S, k) < Nth(S, k + 1)
  <2> DEFINE a == Nth(S, k)
             b == Nth(S, k + 1)
  <2>1. k <= Cardinality(S) /\ k + 1 \in Nat /\ 1 <= k + 1
    BY <1>1, <1>2
  <2>2. a \in S /\ CountTo(S, a) = k
    BY <2>1, NthIs
  <2>3. b \in S /\ CountTo(S, b) = k + 1
    BY <1>2, <2>1, NthIs
  <2> HIDE DEF a, b
  <2>4. a \in Nat /\ b \in Nat
    BY <2>2, <2>3
  <2>5. ASSUME b <= a PROVE FALSE
    <3>1. CountTo(S, b) <= CountTo(S, a)
      BY <2>4, <2>5, UptoMore
    <3> QED
      BY <2>2, <2>3, <3>1
  <2>6. a < b
    BY <2>4, <2>5
  <2> QED
    BY <2>6 DEF a, b
<1>3. ASSUME 1 <= Cardinality(S), NEW y \in S PROVE Nth(S, 1) <= y
  <2> DEFINE a == Nth(S, 1)
  <2>1. a \in S /\ CountTo(S, a) = 1
    BY <1>1, <1>3, NthIs
  <2> HIDE DEF a
  <2>2. a \in Nat /\ y \in Nat
    BY <2>1
  <2>3. Upto(S, a) = Upto(S, a - 1) \cup {a} /\ a \notin Upto(S, a - 1)
    BY <2>1, <2>2, UptoStep
  <2>4. IsFiniteSet(Upto(S, a - 1)) /\ CountTo(S, a - 1) \in Nat
    BY UptoFinite
  <2>5. CountTo(S, a) = CountTo(S, a - 1) + 1
    BY <2>3, <2>4, FS_AddElement DEF CountTo
  <2>6. CountTo(S, a - 1) = 0
    BY <2>1, <2>4, <2>5
  <2>7. Upto(S, a - 1) = {}
    BY <2>4, <2>6, FS_EmptySet DEF CountTo
  <2>8. ~(y <= a - 1)
    BY <2>7 DEF Upto
  <2>9. a <= y
    BY <2>2, <2>8
  <2> QED
    BY <2>9 DEF a
<1> QED
  BY <1>2, <1>3

\* What load stores fits the mailbox.
Found(b) ==
  IF Cardinality(Begins(b)) <= MAXMSG + 1
  THEN Append([i \in 1 .. Cardinality(Begins(b)) |-> Nth(Begins(b), i)], Len(b) + 1)
  ELSE Append([i \in 1 .. MAXMSG + 1 |-> Nth(Begins(b), i)], Nth(Begins(b), MAXMSG + 2) + 1)

LEMMA FoundIs ==
  ASSUME NEW b \in Seq(Pieces), b # <<>>
  PROVE  OffOK(Found(b), b)
<1> DEFINE B == Begins(b)
           n == Cardinality(B)
           L == Len(b)
           c == IF n <= MAXMSG + 1 THEN n ELSE MAXMSG + 1
           e == IF n <= MAXMSG + 1 THEN L + 1 ELSE Nth(B, MAXMSG + 2) + 1
           f == [i \in 1 .. c |-> Nth(B, i)]
           o == Append(f, e)
<1>1. L \in Nat /\ L >= 1 /\ DOMAIN b = 1 .. L
  <2>1. L \in Nat /\ DOMAIN b = 1 .. L
    BY LenProperties
  <2>2. L # 0
    BY EmptySeq
  <2> QED
    BY <2>1, <2>2
<1>2. /\ \A y \in B : y \in 1 .. L /\ y \in Nat /\ (y # 1 => b[y][2] = 1)
      /\ 1 \in B
  BY <1>1 DEF Begins
<1>3. MAXMSG \in Nat /\ MAXMSG >= 1
  BY MailAssumption DEF MailAssumption
<1>4. Found(b) = o
  BY DEF Found
<1> HIDE DEF B, L
<1>6. n \in Nat
  <2>1. Upto(B, L) = B
    BY <1>1, <1>2, UptoEnds
  <2>2. CountTo(B, L) \in Nat
    BY <1>1, <1>2, UptoFinite
  <2> QED
    BY <2>1, <2>2 DEF CountTo
<1>7. \A k \in Nat : 1 <= k /\ k <= n => Nth(B, k) \in B
  BY <1>1, <1>2, NthIs
<1>19. \A k \in Nat : 1 <= k /\ k <= n => CountTo(B, Nth(B, k)) = k
  BY <1>1, <1>2, NthIs
<1>8. \A k \in Nat : 1 <= k /\ k + 1 <= n => Nth(B, k) < Nth(B, k + 1)
  BY <1>1, <1>2, NthOrder
<1>9. 1 <= n => \A y \in B : Nth(B, 1) <= y
  <2>1. 1 \in Nat /\ 1 <= 1
    OBVIOUS
  <2> QED
    BY <1>1, <1>2, <2>1, NthOrder
<1>10. n = 0 => B = {}
  <2>1. IsFiniteSet(B)
    <3>1. Upto(B, L) = B
      BY <1>1, <1>2, UptoEnds
    <3>2. IsFiniteSet(Upto(B, L))
      BY <1>1, <1>2, UptoFinite
    <3> QED
      BY <3>1, <3>2
  <2> QED
    BY <2>1, FS_EmptySet
<1> HIDE DEF n
<1>11. c \in Nat /\ c <= n /\ (n # 0 => c >= 1)
  BY <1>3, <1>6
<1>12. e \in 1 .. L + 1 /\ (c >= 1 => Nth(B, c) < e) /\ (n = 0 => e = L + 1)
  <2>1. CASE n <= MAXMSG + 1
    <3>1. c >= 1 => Nth(B, c) \in B
      BY <1>7, <1>11
    <3> QED
      BY <1>1, <1>2, <2>1, <3>1
  <2>2. CASE ~(n <= MAXMSG + 1)
    <3>1. MAXMSG + 2 \in Nat /\ 1 <= MAXMSG + 2 /\ MAXMSG + 2 <= n /\ c = MAXMSG + 1
          /\ MAXMSG + 1 \in Nat /\ 1 <= MAXMSG + 1 /\ (MAXMSG + 1) + 1 = MAXMSG + 2
      BY <1>3, <1>6, <2>2
    <3>2. Nth(B, MAXMSG + 2) \in B /\ Nth(B, MAXMSG + 1) \in B
      BY <1>7, <3>1, <1>6
    <3>3. Nth(B, MAXMSG + 1) < Nth(B, MAXMSG + 2)
      BY <1>8, <3>1
    <3> QED
      BY <1>1, <1>2, <1>3, <2>2, <3>1, <3>2, <3>3
  <2> QED
    BY <2>1, <2>2
<1> HIDE DEF c, e
<1>13. f \in Seq(Nat) /\ Len(f) = c /\ \A i \in 1 .. c : f[i] = Nth(B, i) /\ f[i] \in B
  <2>1. \A i \in 1 .. c : Nth(B, i) \in B /\ Nth(B, i) \in Nat
    BY <1>2, <1>6, <1>7, <1>11
  <2>2. f \in [1 .. c -> Nat]
    BY <2>1
  <2>3. f \in Seq(Nat) /\ DOMAIN f = 1 .. c
    BY <1>11, <2>2, SeqDef
  <2>4. Len(f) = c
    BY <1>11, <2>3, LenProperties
  <2> QED
    BY <2>1, <2>3, <2>4
<1> HIDE DEF f
<1>14. Len(o) = c + 1 /\ o[c + 1] = e /\ \A i \in 1 .. c : o[i] = Nth(B, i) /\ o[i] \in B
  <2>1. e \in Nat
    BY <1>1, <1>12
  <2>2. Len(o) = Len(f) + 1 /\ o[Len(f) + 1] = e /\ \A i \in 1 .. Len(f) : o[i] = f[i]
    BY <1>13, <2>1, AppendProperties
  <2> QED
    BY <1>13, <2>2
<1> HIDE DEF o
<1>15. \A i \in 1 .. Len(o) : o[i] \in 1 .. L + 1
  <2> SUFFICES ASSUME NEW i \in 1 .. c + 1 PROVE o[i] \in 1 .. L + 1
    BY <1>14
  <2>1. CASE i = c + 1
    BY <1>12, <1>14, <2>1
  <2>2. CASE i # c + 1
    <3>1. i \in 1 .. c
      BY <1>11, <2>2
    <3>2. o[i] \in B
      BY <1>14, <3>1
    <3> QED
      BY <1>1, <1>2, <3>2
  <2> QED
    BY <2>1, <2>2
<1>17. o[1] = 1 /\ 1 \in 1 .. c /\ 1 <= n
  <2>1. n # 0
    BY <1>2, <1>10
  <2>2. 1 \in 1 .. c /\ 1 <= n
    BY <1>6, <1>11, <2>1
  <2>3. o[1] = Nth(B, 1) /\ o[1] \in B /\ Nth(B, 1) <= 1
    BY <1>2, <1>9, <1>14, <2>2
  <2> QED
    BY <1>2, <2>2, <2>3
<1>16. \A i \in 1 .. Len(o) - 1 : o[i] < o[i + 1] /\ (i # 1 => b[o[i]][2] = 1)
  <2> SUFFICES ASSUME NEW i \in 1 .. c PROVE o[i] < o[i + 1] /\ (i # 1 => b[o[i]][2] = 1)
    BY <1>11, <1>14
  <2>1. o[i] = Nth(B, i) /\ o[i] \in B
    BY <1>14
  <2>2. i # 1 => b[o[i]][2] = 1
    <3>1. i \in Nat /\ 1 <= i /\ i <= n
      BY <1>6, <1>11
    <3>2. CountTo(B, o[i]) = i /\ CountTo(B, o[1]) = 1
      BY <1>19, <1>14, <1>17, <2>1, <3>1
    <3> QED
      BY <1>2, <1>17, <2>1, <3>2
  <2>3. CASE i = c
    BY <1>12, <1>14, <2>1, <2>2, <2>3, <1>11
  <2>4. CASE i # c
    <3>1. i \in Nat /\ 1 <= i /\ i + 1 <= n /\ i + 1 \in 1 .. c
      BY <1>6, <1>11, <2>4
    <3>2. Nth(B, i) < Nth(B, i + 1)
      BY <1>8, <3>1
    <3>3. o[i + 1] = Nth(B, i + 1)
      BY <1>14, <3>1
    <3> QED
      BY <2>1, <2>2, <3>2, <3>3
  <2> QED
    BY <2>3, <2>4
<1>18. Len(o) \in Nat \ {0}
  BY <1>11, <1>14
<1> QED
  BY <1>4, <1>15, <1>16, <1>17, <1>18 DEF OffOK, L

----------------------------------------------------------------------------
(* The invariant of the mailbox.                                             *)

InBox == \A m \in mlSent : m \in mlGone \/ IsWhole(mlBox, m)
InTmp == \A m \in mlSent : m \in mlGone \/ IsWhole(mlTmp, m)
At(p, S) == mlPc[p] \in S
Appending  == {"first", "second"}
Rewriting  == {"copy", "truncate", "fill"}
Holding    == Appending \cup Rewriting \cup {"unlock"}

MlTypes ==
  /\ mlBox \in Seq(Pieces) /\ mlTmp \in Seq(Pieces)
  /\ mlPc = [p \in MlRuns |-> mlPc[p]] /\ mlOff = [r \in MlReaders |-> mlOff[r]]
  /\ mlOld \in [MlReaders -> BOOLEAN]

\* Who writes the mailbox has the lock.
MlLocked == \A p \in MlRuns : At(p, Holding) => mlLock = p

\* A message is ended behind its beginning.
MlHalf == \A m \in MlSenders : At(m, {"second"}) =>
            Len(mlBox) \in Nat \ {0} /\ mlBox[Len(mlBox)] = Piece(m, 1)

\* The offsets of a reader fit the mailbox until somebody rewrites it.
MlFit == \A r \in MlReaders : At(r, {"rmail", "update", "copy"}) /\ ~mlOld[r] => OffOK(mlOff[r], mlBox)

\* Where what was delivered is.
MlSafe ==
  /\ InBox \/ InTmp
  /\ mlLock = free => InBox
  /\ \A p \in MlRuns : /\ At(p, Holding \ {"fill"}) => InBox
                       /\ At(p, {"truncate", "fill"}) => InTmp
                       /\ At(p, {"fill"}) => mlBox = <<>>

MlAll == MlTypes /\ MlLocked /\ MlHalf /\ MlFit /\ MlSafe
MlInv == ~mlHurt => MlAll

\* One piece more: what was whole stays so, and the end completes a message.
LEMMA AppendKeeps ==
  ASSUME NEW b \in Seq(Pieces), NEW q \in Pieces
  PROVE  /\ Append(b, q) \in Seq(Pieces) /\ Len(Append(b, q)) \in Nat \ {0}
         /\ Append(b, q)[Len(Append(b, q))] = q
         /\ \A m : IsWhole(b, m) => IsWhole(Append(b, q), m)
         /\ \A m : Len(b) # 0 /\ b[Len(b)] = Piece(m, 1) /\ q = Piece(m, 2) => IsWhole(Append(b, q), m)
<1> DEFINE c == Append(b, q)
<1>1. /\ Len(b) \in Nat /\ c \in Seq(Pieces) /\ Len(c) = Len(b) + 1 /\ c[Len(b) + 1] = q
      /\ \A k \in 1 .. Len(b) : c[k] = b[k]
  BY AppendProperties, LenProperties
<1> HIDE DEF c
<1>2. ASSUME NEW m, IsWhole(b, m) PROVE IsWhole(c, m)
  <2>1. PICK k : WholeAt(b, m, k)
    BY <1>2, WholeIs
  <2>2. k \in 1 .. Len(b) - 1 /\ k \in 1 .. Len(b) /\ k + 1 \in 1 .. Len(b) /\ k \in 1 .. Len(c) - 1
    BY <1>1, <2>1 DEF WholeAt
  <2>3. WholeAt(c, m, k)
    BY <1>1, <2>1, <2>2 DEF WholeAt
  <2> QED
    BY <2>3, WholeIs
<1>3. ASSUME NEW m, Len(b) # 0, b[Len(b)] = Piece(m, 1), q = Piece(m, 2) PROVE IsWhole(c, m)
  <2>1. Len(b) \in 1 .. Len(b) /\ Len(b) \in 1 .. Len(c) - 1
    BY <1>1, <1>3
  <2>2. WholeAt(c, m, Len(b))
    BY <1>1, <1>3, <2>1 DEF WholeAt
  <2> QED
    BY <2>2, WholeIs
<1>4. Len(c) \in Nat \ {0} /\ c[Len(c)] = q
  BY <1>1
<1> QED
  BY <1>1, <1>2, <1>3, <1>4 DEF c

LEMMA MlInitInv == MlInit => MlInv
<1> SUFFICES ASSUME MlInit PROVE MlAll
  BY DEF MlInv
<1>1. MlTypes /\ InBox
  <2>1. CASE mlBox = <<>> /\ mlSent = {}
    BY <2>1, EmptySeq DEF MlInit, MlTypes, InBox
  <2>2. ASSUME NEW m \in MlSenders, mlBox = <<Piece(m, 1), Piece(m, 2)>>, mlSent = {m}
        PROVE  MlTypes /\ InBox
    <3>1. Piece(m, 1) \in Pieces /\ Piece(m, 2) \in Pieces
      BY DEF Piece, Pieces
    <3>2. mlBox \in Seq(Pieces)
      BY <2>2, <3>1
    <3>3. IsWhole(mlBox, m)
      BY <2>2 DEF IsWhole
    <3> QED
      BY <2>2, <3>2, <3>3, EmptySeq DEF MlInit, MlTypes, InBox
  <2> QED
    BY <2>1, <2>2 DEF MlInit
<1>2. \A p \in MlRuns : mlPc[p] \in {"start", "done"}
  BY DEF MlInit
<1>3. MlLocked /\ MlHalf /\ MlFit
  BY <1>2 DEF MlLocked, MlHalf, MlFit, At, Holding, Appending, Rewriting, MlRuns
<1>4. InBox
  BY <1>1
<1>5. MlSafe
  BY <1>2, <1>4 DEF MlSafe, At, Holding, Appending, Rewriting
<1> QED
  BY <1>1, <1>3, <1>5 DEF MlAll

\* One run goes from a place to another.
LEMMA PcMoved ==
  ASSUME MlTypes, NEW p \in MlRuns, NEW l, Move(p, l)
  PROVE  mlPc' = [q \in MlRuns |-> mlPc'[q]] /\ mlPc'[p] = l /\ \A q \in MlRuns : q # p => mlPc'[q] = mlPc[q]
BY DEF MlTypes, Move

\* Steps of a run p that leave the mailbox and what was delivered as they are:
\* it takes the lock, or keeps or gives back one that it has, or does without.
Still == UNCHANGED <<mlBox, mlTmp, mlSent, mlGone>>
LEMMA StillInv ==
  ASSUME MlAll, Still, NEW p \in MlRuns, NEW l, Move(p, l),
         mlOff' = [r \in MlReaders |-> mlOff'[r]], mlOld' \in [MlReaders -> BOOLEAN],
         \A r \in MlReaders : r # p => mlOff'[r] = mlOff[r] /\ mlOld'[r] = mlOld[r],
         \/ mlLock = free /\ mlLock' = p
         \/ mlLock = p /\ mlLock' = free /\ At(p, Holding \ {"fill"}) /\ l \notin Holding
         \/ mlLock' = mlLock /\ (l \in Holding => At(p, Holding \ {"fill"})),
         l \notin {"second", "truncate", "fill"},
         p \in MlReaders /\ l \in {"rmail", "update", "copy"} /\ ~mlOld'[p] => OffOK(mlOff'[p], mlBox)
  PROVE  MlAll'
<1>1. /\ mlPc' = [q \in MlRuns |-> mlPc'[q]] /\ mlPc'[p] = l
      /\ \A q \in MlRuns : q # p => mlPc'[q] = mlPc[q]
  BY PcMoved DEF MlAll
<1>2. mlBox' = mlBox /\ mlTmp' = mlTmp /\ mlSent' = mlSent /\ mlGone' = mlGone
  BY DEF Still
<1>3. (InBox' <=> InBox) /\ (InTmp' <=> InTmp)
  BY <1>2 DEF InBox, InTmp
<1>4. MlTypes'
  BY <1>1, <1>2 DEF MlAll, MlTypes
<1>5. free \notin MlRuns
  BY MailAssumption DEF MailAssumption, MlRuns, free
<1>6. MlLocked'
  BY <1>1, <1>5 DEF MlAll, MlLocked, At
<1>7. MlHalf'
  BY <1>1, <1>2 DEF MlAll, MlHalf, At, MlRuns
<1>8. MlFit'
  BY <1>1, <1>2 DEF MlAll, MlFit, At, MlRuns
<1>9. mlLock = free => InBox
  BY DEF MlAll, MlSafe
<1>10. At(p, Holding \ {"fill"}) => InBox
  BY DEF MlAll, MlSafe
<1>11. MlSafe'
  <2>1. (InBox \/ InTmp)' /\ (mlLock' = free => InBox')
    BY <1>3, <1>5, <1>9, <1>10 DEF MlAll, MlSafe
  <2>2. \A q \in MlRuns \ {p} : /\ At(q, Holding \ {"fill"})' => InBox'
                                /\ At(q, {"truncate", "fill"})' => InTmp'
                                /\ At(q, {"fill"})' => mlBox' = <<>>
    BY <1>1, <1>2, <1>3 DEF MlAll, MlSafe, At
  <2>3. At(p, Holding)' => InBox'
    BY <1>1, <1>3, <1>5, <1>9, <1>10 DEF At
  <2>4. ~At(p, {"truncate", "fill"})'
    BY <1>1 DEF At
  <2> QED
    BY <2>1, <2>2, <2>3, <2>4 DEF MlSafe, At
<1> QED
  BY <1>4, <1>6, <1>7, <1>8, <1>11 DEF MlAll

\* Steps of the run p that has the lock, on the mailbox or the .tmp file.
LEMMA WriteInv ==
  ASSUME MlAll, NEW p \in MlRuns, At(p, Holding), NEW l \in {"second", "unlock", "truncate", "fill"},
         Move(p, l), mlLock' = mlLock, mlOff' = mlOff, mlOld' \in [MlReaders -> BOOLEAN],
         mlBox' \in Seq(Pieces), mlTmp' \in Seq(Pieces),
         l = "second" => Len(mlBox') \in Nat \ {0} /\ mlBox'[Len(mlBox')] = Piece(p, 1),
         l # "fill" => InBox', l \in {"truncate", "fill"} => InTmp', l = "fill" => mlBox' = <<>>,
         \A r \in MlReaders : r # p /\ At(r, {"rmail", "update", "copy"}) /\ ~mlOld'[r] =>
                                OffOK(mlOff[r], mlBox')
  PROVE  MlAll'
<1>1. /\ mlPc' = [q \in MlRuns |-> mlPc'[q]] /\ mlPc'[p] = l
      /\ \A q \in MlRuns : q # p => mlPc'[q] = mlPc[q]
  BY PcMoved DEF MlAll
<1>2. mlLock = p /\ \A q \in MlRuns : q # p => ~At(q, Holding)
  BY DEF MlAll, MlLocked
<1>3. p # free
  BY MailAssumption DEF MailAssumption, MlRuns, free
<1>4. \A q \in MlRuns : q # p => ~At(q, Holding)'
  BY <1>1, <1>2 DEF At
<1>5. MlTypes'
  BY <1>1 DEF MlAll, MlTypes
<1>6. MlLocked'
  BY <1>2, <1>4 DEF MlLocked
<1>7. MlHalf'
  <2>1. \A q \in MlRuns : q # p => ~At(q, {"second"})'
    BY <1>4 DEF At, Holding, Appending
  <2>2. At(p, {"second"})' => l = "second"
    BY <1>1 DEF At
  <2> QED
    BY <2>1, <2>2 DEF MlHalf, MlRuns
<1>8. MlFit'
  <2>1. ~At(p, {"rmail", "update", "copy"})'
    BY <1>1 DEF At
  <2>2. \A r \in MlReaders : r # p => (At(r, {"rmail", "update", "copy"})' <=> At(r, {"rmail", "update", "copy"}))
    BY <1>1 DEF At, MlRuns
  <2> QED
    BY <2>1, <2>2 DEF MlFit
<1>9. MlSafe'
  <2>1. (InBox \/ InTmp)' /\ mlLock' # free
    BY <1>2, <1>3
  <2>2. \A q \in MlRuns : q # p => ~At(q, Holding \ {"fill"})' /\ ~At(q, {"truncate", "fill"})' /\ ~At(q, {"fill"})'
    BY <1>4 DEF At, Holding, Rewriting
  <2>3. /\ At(p, Holding \ {"fill"})' => InBox'
        /\ At(p, {"truncate", "fill"})' => InTmp'
        /\ At(p, {"fill"})' => mlBox' = <<>>
    BY <1>1 DEF At
  <2> QED
    BY <2>1, <2>2, <2>3 DEF MlSafe
<1> QED
  BY <1>5, <1>6, <1>7, <1>8, <1>9 DEF MlAll

LEMMA SenderInv ==
  ASSUME MlAll, NEW m \in MlSenders, SendLock(m) \/ SendPiece(m) \/ SendUnlock(m)
  PROVE  MlAll'
<1> USE DEF Holding, Appending, Rewriting
<1>0. m \in MlRuns /\ MlTypes
  BY DEF MlRuns, MlAll
<1>1. CASE SendLock(m)
  <2>1. Still /\ Move(m, "first") /\ mlLock = free /\ mlLock' = m /\ mlOff' = mlOff /\ mlOld' = mlOld
    BY <1>1 DEF SendLock, Lockable, Still
  <2> QED
    BY <1>0, <2>1, StillInv DEF MlTypes
<1>2. CASE SendPiece(m)
  <2>0. mlOff' = mlOff /\ mlOld' = mlOld /\ mlLock' = mlLock /\ mlTmp' = mlTmp /\ mlGone' = mlGone
    BY <1>2 DEF SendPiece
  <2>1. CASE mlPc[m] = "first" /\ mlBox' = Append(mlBox, Piece(m, 1)) /\ Move(m, "second") /\ UNCHANGED mlSent
    <3>1. Piece(m, 1) \in Pieces /\ mlBox \in Seq(Pieces) /\ mlTmp \in Seq(Pieces)
      BY <1>0 DEF Piece, Pieces, MlTypes
    <3>2. /\ mlBox' \in Seq(Pieces) /\ Len(mlBox') \in Nat \ {0} /\ mlBox'[Len(mlBox')] = Piece(m, 1)
          /\ \A x : IsWhole(mlBox, x) => IsWhole(mlBox', x)
      BY <2>1, <3>1, AppendKeeps
    <3>3. InBox
      BY <1>0, <2>1 DEF MlAll, MlSafe, At
    <3>4. InBox'
      BY <2>0, <2>1, <3>2, <3>3 DEF InBox
    <3>5. \A r \in MlReaders : At(r, {"rmail", "update", "copy"}) /\ ~mlOld'[r] => OffOK(mlOff[r], mlBox')
      BY <2>0, <2>1, <3>1, OffGrown DEF MlAll, MlFit
    <3>6. At(m, Holding)
      BY <2>1 DEF At
    <3> QED
      BY <1>0, <2>0, <2>1, <3>1, <3>2, <3>4, <3>5, <3>6, WriteInv DEF MlTypes
  <2>2. CASE mlPc[m] = "second" /\ mlBox' = Append(mlBox, Piece(m, 2)) /\ Move(m, "unlock") /\ mlSent' = mlSent \cup {m}
    <3>1. Piece(m, 2) \in Pieces /\ mlBox \in Seq(Pieces) /\ mlTmp \in Seq(Pieces)
      BY <1>0 DEF Piece, Pieces, MlTypes
    <3>2. Len(mlBox) # 0 /\ mlBox[Len(mlBox)] = Piece(m, 1)
      BY <2>2 DEF MlAll, MlHalf, At
    <3>3. mlBox' \in Seq(Pieces) /\ IsWhole(mlBox', m) /\ \A x : IsWhole(mlBox, x) => IsWhole(mlBox', x)
      BY <2>2, <3>1, <3>2, AppendKeeps
    <3>4. InBox
      BY <1>0, <2>2 DEF MlAll, MlSafe, At
    <3>5. InBox'
      BY <2>0, <2>2, <3>3, <3>4 DEF InBox
    <3>6. \A r \in MlReaders : At(r, {"rmail", "update", "copy"}) /\ ~mlOld'[r] => OffOK(mlOff[r], mlBox')
      BY <2>0, <2>2, <3>1, OffGrown DEF MlAll, MlFit
    <3>7. At(m, Holding)
      BY <2>2 DEF At
    <3> QED
      BY <1>0, <2>0, <2>2, <3>1, <3>3, <3>5, <3>6, <3>7, WriteInv DEF MlTypes
  <2>3. CASE mlPc[m] \in {"first", "second"} /\ Move(m, "unlock") /\ UNCHANGED <<mlBox, mlSent>>
    <3>1. Still /\ At(m, Holding \ {"fill"})
      BY <2>0, <2>3 DEF Still, At
    <3> QED
      BY <1>0, <2>0, <2>3, <3>1, StillInv DEF MlTypes
  <2> QED
    BY <1>2, <2>1, <2>2, <2>3 DEF SendPiece
<1>3. CASE SendUnlock(m)
  <2>1. Still /\ Move(m, "done") /\ mlLock' = free /\ mlOff' = mlOff /\ mlOld' = mlOld /\ At(m, Holding \ {"fill"})
    BY <1>3 DEF SendUnlock, Unlocked, Still, At
  <2>2. mlLock = m
    BY <1>0, <2>1 DEF MlAll, MlLocked, At
  <2> QED
    BY <1>0, <2>1, <2>2, StillInv DEF MlTypes
<1> QED
  BY <1>1, <1>2, <1>3

LEMMA ReaderStill ==
  ASSUME MlAll, NEW r \in MlReaders, Load(r) \/ Rmail(r) \/ UpdLock(r) \/ UpdUnlock(r)
  PROVE  MlAll'
<1> USE DEF Holding, Appending, Rewriting
<1>0. r \in MlRuns /\ MlTypes /\ mlBox \in Seq(Pieces)
  BY DEF MlRuns, MlAll, MlTypes
<1>9. \A L : At(r, L) /\ ~mlOld[r] /\ L \subseteq {"rmail", "update", "copy"} => OffOK(mlOff[r], mlBox)
  BY DEF MlAll, MlFit, At
<1>1. CASE Load(r)
  <2> DEFINE l == IF mlBox = <<>> THEN "done" ELSE "rmail"
  <2>1. Still /\ Move(r, l) /\ mlLock' = mlLock /\ mlOld' = [mlOld EXCEPT ![r] = FALSE]
    BY <1>1 DEF Load, Still
  <2>2. mlOff' = [mlOff EXCEPT ![r] = IF mlBox = <<>> THEN <<>> ELSE Found(mlBox)]
    BY <1>1, Zenon DEF Load, Found
  <2>3. mlOff' = [s \in MlReaders |-> mlOff'[s]] /\ \A s \in MlReaders : s # r => mlOff'[s] = mlOff[s]
    BY <1>0, <2>2 DEF MlTypes
  <2>4. mlOld' \in [MlReaders -> BOOLEAN] /\ \A s \in MlReaders : s # r => mlOld'[s] = mlOld[s]
    BY <1>0, <2>1 DEF MlTypes
  <2>5. l = "rmail" => OffOK(mlOff'[r], mlBox)
    <3>1. mlBox # <<>> => mlOff'[r] = Found(mlBox)
      BY <1>0, <2>2 DEF MlTypes
    <3> QED
      BY <1>0, <3>1, FoundIs
  <2>6. l \in {"done", "rmail"}
    OBVIOUS
  <2> HIDE DEF l
  <2> QED
    BY <1>0, <2>1, <2>3, <2>4, <2>5, <2>6, StillInv
<1>2. CASE Rmail(r)
  <2>0. Still /\ mlLock' = mlLock /\ mlOff' = mlOff /\ mlOld' = mlOld /\ mlPc[r] = "rmail"
    BY <1>2 DEF Rmail, Still
  <2>1. PICK l \in {"rmail", "update", "done"} : Move(r, l)
    <3>1. mlPc' = mlPc => Move(r, "rmail")
      BY <1>0, <2>0 DEF Move, MlTypes
    <3> QED
      BY <1>2, <3>1 DEF Rmail
  <2>2. ~mlOld[r] => OffOK(mlOff[r], mlBox)
    BY <2>0 DEF MlAll, MlFit, At
  <2> QED
    BY <1>0, <2>0, <2>1, <2>2, StillInv DEF MlTypes
<1>3. CASE UpdLock(r)
  <2>1. /\ Still /\ Move(r, "copy") /\ mlLock = free /\ mlLock' = r /\ mlOff' = mlOff /\ mlOld' = mlOld
        /\ mlPc[r] = "update"
    BY <1>3 DEF UpdLock, Lockable, Still
  <2>2. ~mlOld[r] => OffOK(mlOff[r], mlBox)
    BY <2>1 DEF MlAll, MlFit, At
  <2> QED
    BY <1>0, <2>1, <2>2, StillInv DEF MlTypes
<1>4. CASE UpdUnlock(r)
  <2>1. Still /\ Move(r, "done") /\ mlLock' = free /\ mlOff' = mlOff /\ mlOld' = mlOld /\ At(r, Holding \ {"fill"})
    BY <1>4 DEF UpdUnlock, Unlocked, Still, At
  <2>2. mlLock = r
    BY <1>0, <2>1 DEF MlAll, MlLocked, At
  <2> QED
    BY <1>0, <2>1, <2>2, StillInv DEF MlTypes
<1> QED
  BY <1>1, <1>2, <1>3, <1>4

LEMMA KilledInv ==
  ASSUME MlAll, NEW p \in MlRuns, MlKilled(p)
  PROVE  MlAll'
<1>1. Still /\ Move(p, "done") /\ mlLock' = mlLock /\ mlOff' = mlOff /\ mlOld' = mlOld
  BY DEF MlKilled, Still
<1>2. "done" \notin Holding
  BY DEF Holding, Appending, Rewriting
<1> QED
  BY <1>1, <1>2, StillInv DEF MlAll, MlTypes

LEMMA UpdateInv ==
  ASSUME MlAll, NEW r \in MlReaders, UpdCopy(r) \/ UpdTruncate(r) \/ UpdFill(r), ~mlHurt'
  PROVE  MlAll'
<1> USE DEF Holding, Appending, Rewriting
<1>0. r \in MlRuns /\ MlTypes /\ mlBox \in Seq(Pieces) /\ mlTmp \in Seq(Pieces)
  BY DEF MlRuns, MlAll, MlTypes
<1>1. CASE UpdCopy(r)
  <2>0. mlPc[r] = "copy" /\ mlBox' = mlBox /\ mlLock' = mlLock /\ mlOff' = mlOff /\ mlOld' = mlOld /\ mlSent' = mlSent
    BY <1>1 DEF UpdCopy
  <2>1. InBox /\ At(r, Holding)
    BY <1>0, <2>0 DEF MlAll, MlSafe, At
  <2>2. \A s \in MlReaders : At(s, {"rmail", "update", "copy"}) /\ ~mlOld'[s] => OffOK(mlOff[s], mlBox')
    BY <2>0 DEF MlAll, MlFit
  <2>3. CASE Move(r, "unlock") /\ mlTmp' = <<>> /\ UNCHANGED mlGone
    <3>1. Move(r, "unlock") /\ mlTmp' = <<>> /\ mlGone' = mlGone
      BY <2>3
    <3>2. InBox' /\ mlTmp' \in Seq(Pieces)
      BY <2>0, <2>1, <3>1, EmptySeq DEF InBox
    <3> QED
      BY <1>0, <2>0, <2>1, <2>2, <3>1, <3>2, WriteInv DEF MlTypes
  <2>4. CASE ~(Move(r, "unlock") /\ mlTmp' = <<>> /\ UNCHANGED mlGone)
    <3>0. ~Over(r)
      BY <1>1, <2>4 DEF UpdCopy
    <3>1. /\ Move(r, "truncate") /\ mlTmp' = Keep(r, mlDel[r]) \o Rest(r, EndOff(r)) /\ ~mlOld[r]
          /\ mlGone' = mlGone \cup {m \in Msgs(mlBox) :
                          \E i \in mlDel[r] : \E j \in DOMAIN Span(r, i) : Span(r, i)[j] = Piece(m, 1)}
      BY <1>1, <2>4, <3>0 DEF UpdCopy
    <3>2. OffOK(mlOff[r], mlBox)
      BY <2>0, <3>1 DEF MlAll, MlFit, At
    <3>3. mlTmp' \in Seq(Pieces)
      BY <1>0, <3>1, <3>2, CopyTypes
    <3>4. ASSUME NEW m \in mlSent', m \notin mlGone' PROVE IsWhole(mlTmp', m)
      <4>1. IsWhole(mlBox, m) /\ m \notin mlGone
        BY <2>0, <2>1, <3>1, <3>4 DEF InBox
      <4>2. m \in Msgs(mlBox)
        <5>1. PICK k : WholeAt(mlBox, m, k)
          BY <4>1, WholeIs
        <5>2. k \in DOMAIN mlBox /\ mlBox[k][1] = m
          BY <1>0, <5>1, LenProperties DEF WholeAt, Piece
        <5> QED
          BY <5>2 DEF Msgs
      <4>3. \A i \in mlDel[r] : \A j \in DOMAIN Span(r, i) : Span(r, i)[j] # Piece(m, 1)
        BY <3>1, <3>4, <4>2
      <4> QED
        BY <1>0, <3>1, <3>2, <4>1, <4>3, CopyKeeps
    <3>5. InTmp'
      BY <3>4 DEF InTmp
    <3>6. InBox'
      BY <2>0, <2>1, <3>1 DEF InBox
    <3> QED
      BY <1>0, <2>0, <2>1, <2>2, <3>1, <3>3, <3>5, <3>6, WriteInv DEF MlTypes
  <2> QED
    BY <2>3, <2>4
<1>2. CASE UpdTruncate(r)
  <2>1. /\ mlPc[r] = "truncate" /\ mlBox' = <<>> /\ Move(r, "fill") /\ mlOld' = [s \in MlReaders |-> s # r]
        /\ mlTmp' = mlTmp /\ mlLock' = mlLock /\ mlOff' = mlOff /\ mlSent' = mlSent /\ mlGone' = mlGone
    BY <1>2 DEF UpdTruncate
  <2>2. InTmp /\ At(r, Holding)
    BY <1>0, <2>1 DEF MlAll, MlSafe, At
  <2>3. InTmp' /\ mlBox' \in Seq(Pieces) /\ mlOld' \in [MlReaders -> BOOLEAN]
    BY <2>1, <2>2, EmptySeq DEF InTmp
  <2>4. \A s \in MlReaders : s # r => mlOld'[s]
    BY <2>1
  <2> QED
    BY <1>0, <2>1, <2>2, <2>3, <2>4, WriteInv
<1>3. CASE UpdFill(r)
  <2>1. /\ mlPc[r] = "fill" /\ mlBox' = mlTmp /\ mlTmp' = <<>> /\ Move(r, "unlock") /\ mlOld' = mlOld
        /\ mlLock' = mlLock /\ mlOff' = mlOff /\ mlSent' = mlSent /\ mlGone' = mlGone
    BY <1>3 DEF UpdFill
  <2>2. InTmp /\ At(r, Holding) /\ mlBox = <<>>
    BY <1>0, <2>1 DEF MlAll, MlSafe, At
  <2>3. InBox' /\ mlTmp' \in Seq(Pieces)
    BY <2>1, <2>2, EmptySeq DEF InTmp, InBox
  <2>4. \A s \in MlReaders : ~(At(s, {"rmail", "update", "copy"}) /\ ~mlOld[s])
    BY <2>2 DEF MlAll, MlFit, OffOK
  <2> QED
    BY <1>0, <2>1, <2>2, <2>3, <2>4, WriteInv DEF MlTypes
<1> QED
  BY <1>1, <1>2, <1>3

\* Once an update failed or used an old load, that is remembered.
LEMMA HurtStays == MlNext => (mlHurt => mlHurt')
BY DEF MlNext, SendLock, SendPiece, SendUnlock, Load, Rmail, UpdLock, UpdCopy, UpdTruncate, UpdFill,
       UpdUnlock, MlKilled

LEMMA MlNextInv == MlInv /\ [MlNext]_mlVars => MlInv'
<1> SUFFICES ASSUME MlInv, [MlNext]_mlVars, ~mlHurt' PROVE MlAll'
  BY DEF MlInv
<1>1. CASE UNCHANGED mlVars
  BY <1>1 DEF mlVars, MlInv, MlAll, MlTypes, MlLocked, MlHalf, MlFit, MlSafe, InBox, InTmp, At
<1>2. CASE MlNext
  <2>1. MlAll
    BY <1>2, HurtStays DEF MlInv
  <2> QED
    BY <1>2, <2>1, SenderInv, ReaderStill, UpdateInv, KilledInv DEF MlNext
<1> QED
  BY <1>1, <1>2

\* No message that was delivered is lost: whatever runs of mail send and read,
\* and wherever they are killed.
THEOREM MailCorrect == MlInit /\ [][MlNext]_mlVars => []MailKept
<1>1. MlInv => MailKept
  BY DEF MlInv, MlAll, MlSafe, InBox, InTmp, MailKept
<1> QED
  BY <1>1, MlInitInv, MlNextInv, PTL

USE AccountsAssumption DEF AccountsAssumption

----------------------------------------------------------------------------
(* Accounts.                                                                *)

Marks    == AcProcs \cup {"nil", "broken", "install", "mkuser"}
Entries  == [AcNames -> Marks]
Temps    == {t \in [by : AcProcs \cup {"nil"}, whole : BOOLEAN] : t.whole => t.by \in AcProcs}
Places   == {"start", "asked", "locked", "open", "copied", "renamed", "done", "dead"}
AcTypeOK ==
  /\ acSpwd \in Entries /\ acPass \in [AcNames -> BOOLEAN]
  /\ acTspwd \in Temps /\ acTpwd \in Temps
  /\ acAt \in [AcProcs -> Places]
  /\ acFile \in [AcProcs -> [stale : BOOLEAN, data : Entries]]
  /\ acNew \in [AcProcs -> Entries]
  /\ acMk \subseteq NewUsers /\ acBad \in BOOLEAN

\* A version of /etc/spwd with every account of the installation in it.
Complete(e) == \A u \in AcUsers : e[u] \notin {"nil", "broken"}

\* Who is past setpass's open of the one temporary file, and of the other.
HasLock(p) == acAt[p] \in {"locked", "open", "copied"}
HasTemp(p) == acAt[p] \in {"open", "copied", "renamed"}

\* The temporary files belong to the run that made them until it renames them,
\* and are whole once it has copied the database.
TempsOwned ==
  \A p \in AcProcs :
    /\ HasLock(p) => acTspwd.by = p
    /\ HasTemp(p) => acTpwd.by = p
    /\ acAt[p] = "copied" => acTspwd.whole /\ acTpwd.whole
    /\ acAt[p] = "renamed" => acTpwd.whole

\* What runs can still read, and what they have written, is complete.
VersionsWhole ==
  /\ Complete(acSpwd) /\ \A u \in AcUsers : acPass[u]
  /\ \A p \in AcProcs :
       /\ acFile[p].stale => Complete(acFile[p].data)
       /\ acAt[p] \in {"copied", "renamed"} => Complete(acNew[p])

\* A run that still has the current file open has copied what it says now, but
\* for its own user and for those that mkuser has added since.
CopyCurrent ==
  \A p \in AcProcs : acAt[p] = "copied" /\ ~acFile[p].stale =>
    \A u \in AcNames : u = AcUser[p] \/ acNew[p][u] = acSpwd[u] \/ acSpwd[u] = "mkuser"

\* The inductive invariant.
AcInv == AcTypeOK /\ (~acBad => TempsOwned /\ VersionsWhole /\ CopyCurrent)

LEMMA AcInitInv == AcInit => AcInv
<1> SUFFICES ASSUME AcInit PROVE AcInv
  OBVIOUS
<1>1. AcTypeOK
  <2>1. NoTemp \in Temps
    BY DEF NoTemp, nil, Temps
  <2>2. CurrentFile \in [stale : BOOLEAN, data : Entries]
    BY DEF CurrentFile, nil, Entries, Marks
  <2>3. acPass \in [AcNames -> BOOLEAN]
    <3>1. \A u \in AcNames : (u \in AcUsers) \in BOOLEAN
      OBVIOUS
    <3> QED
      BY <3>1, Zenon DEF AcInit
  <2> QED
    BY <2>1, <2>2, <2>3 DEF AcInit, AcTypeOK, Places, Entries, Marks, nil
<1>2. TempsOwned /\ CopyCurrent
  BY DEF AcInit, TempsOwned, CopyCurrent, HasLock, HasTemp
<1>3. VersionsWhole
  <2>1. \A u \in AcUsers : u \in AcNames
    BY DEF AcNames
  <2>2. Complete(acSpwd)
    BY <2>1 DEF AcInit, Complete
  <2>3. \A u \in AcUsers : acPass[u]
    BY <2>1, Zenon DEF AcInit
  <2>4. \A p \in AcProcs : ~acFile[p].stale /\ acAt[p] = "start"
    BY DEF AcInit, CurrentFile
  <2> QED
    BY <2>2, <2>3, <2>4 DEF VersionsWhole
<1> QED
  BY <1>1, <1>2, <1>3 DEF AcInv

\* Contents(p) is a version of the database, and what Kept keeps open too.
LEMMA VersionTypes ==
  ASSUME AcTypeOK
  PROVE  /\ \A p \in AcProcs : Contents(p) \in Entries
         /\ Kept \in [AcProcs -> [stale : BOOLEAN, data : Entries]]
         /\ Broken \in Entries
         /\ NoTemp \in Temps
<1>1. \A p \in AcProcs : Contents(p) \in Entries
  BY DEF AcTypeOK, Contents
<1>2. Kept \in [AcProcs -> [stale : BOOLEAN, data : Entries]]
  BY DEF AcTypeOK, Kept
<1> QED
  BY <1>1, <1>2 DEF Broken, Entries, Marks, NoTemp, nil, Temps

LEMMA AcTypeStep ==
  ASSUME AcTypeOK, AcNext
  PROVE  AcTypeOK'
<1> USE VersionTypes
<1>1. ASSUME NEW p \in AcProcs, AcAsk(p) \/ AcRefuse(p) \/ AcDie(p) PROVE AcTypeOK'
  <2>1. CurrentFile \in [stale : BOOLEAN, data : Entries]
    BY DEF CurrentFile, nil, Entries, Marks
  <2>2. acFile' \in [AcProcs -> [stale : BOOLEAN, data : Entries]]
    BY <1>1, <2>1 DEF AcAsk, AcRefuse, AcDie, AcTypeOK
  <2>3. acAt' \in [AcProcs -> Places]
    BY <1>1 DEF AcAsk, AcRefuse, AcDie, AcGo, AcTypeOK, Places
  <2> QED
    BY <1>1, <2>2, <2>3 DEF AcAsk, AcRefuse, AcDie, AcTypeOK
<1>2. ASSUME NEW p \in AcProcs, AcLock(p) \/ AcTemp(p) PROVE AcTypeOK'
  <2>1. acTspwd' \in Temps /\ acTpwd' \in Temps
    <3>1. [by |-> p, whole |-> FALSE] \in Temps
      BY DEF Temps
    <3> QED
      BY <1>2, <3>1, Zenon DEF AcLock, AcTemp, AcTypeOK
  <2>2. acAt' \in [AcProcs -> Places]
    BY <1>2 DEF AcLock, AcTemp, AcGo, AcTypeOK, Places
  <2> QED
    BY <1>2, <2>1, <2>2 DEF AcLock, AcTemp, AcTypeOK
<1>3. ASSUME NEW p \in AcProcs, AcCopy(p) PROVE AcTypeOK'
  <2> DEFINE new == [u \in AcNames |-> IF u \in Own(p) THEN p ELSE Contents(p)[u]]
  <2>1. new \in Entries
    BY DEF Entries, Marks
  <2>2. [acNew EXCEPT ![p] = new] \in [AcProcs -> Entries]
    BY <2>1 DEF AcTypeOK
  <2>3. acNew' \in [AcProcs -> Entries]
    BY <1>3, <2>2 DEF AcCopy, AcTypeOK
  <2>4. acTspwd' \in Temps /\ acTpwd' \in Temps
    <3>1. /\ [acTspwd EXCEPT !.whole = (acTspwd.by = p)] \in Temps
          /\ [acTpwd EXCEPT !.whole = (acTpwd.by = p)] \in Temps
      BY DEF AcTypeOK, Temps
    <3> QED
      BY <1>3, <3>1 DEF AcCopy, AcTypeOK, Unlinked
  <2>5. acAt' \in [AcProcs -> Places] /\ acBad' \in BOOLEAN
    BY <1>3 DEF AcCopy, AcGo, AcTypeOK, Places
  <2> QED
    BY <1>3, <2>3, <2>4, <2>5 DEF AcCopy, AcTypeOK
<1>4. ASSUME NEW p \in AcProcs, AcRename1(p) \/ AcRename2(p) \/ AcNoRename(p)
      PROVE  AcTypeOK'
  <2>1. ASSUME NEW t \in Temps
        PROVE  Named(t) \in Entries
    BY <2>1 DEF Named, AcTypeOK, Temps
  <2>2. acSpwd' \in Entries /\ acTspwd' \in Temps /\ acTpwd' \in Temps
    BY <1>4, <2>1 DEF AcRename1, AcRename2, AcNoRename, Unlinked, AcTypeOK
  <2>3. acPass' \in [AcNames -> BOOLEAN]
    <3>1. \A u \in AcNames : (Named(acTpwd)[u] # nil) \in BOOLEAN
      OBVIOUS
    <3>2. [u \in AcNames |-> Named(acTpwd)[u] # nil] \in [AcNames -> BOOLEAN]
      BY <3>1, Zenon
    <3>3. UNCHANGED acPass \/ acPass' = [u \in AcNames |-> Named(acTpwd)[u] # nil]
      BY <1>4 DEF AcRename1, AcRename2, AcNoRename
    <3> QED
      BY <3>2, <3>3, Zenon DEF AcTypeOK
  <2>4. acAt' \in [AcProcs -> Places]
    BY <1>4 DEF AcRename1, AcRename2, AcNoRename, AcGo, AcTypeOK, Places
  <2>5. /\ acFile' \in [AcProcs -> [stale : BOOLEAN, data : Entries]]
        /\ acBad' \in BOOLEAN /\ UNCHANGED <<acNew, acMk>>
    BY <1>4 DEF AcRename1, AcRename2, AcNoRename, AcTypeOK
  <2> QED
    BY <2>2, <2>3, <2>4, <2>5 DEF AcTypeOK
<1>5. ASSUME NEW u \in NewUsers, Mkuser1(u) \/ Mkuser2(u) PROVE AcTypeOK'
  <2>1. acSpwd' \in Entries
    BY <1>5 DEF Mkuser1, Mkuser2, AcTypeOK, Entries, Marks
  <2>2. acPass' \in [AcNames -> BOOLEAN]
    BY <1>5, Zenon DEF Mkuser1, Mkuser2, AcTypeOK
  <2> QED
    BY <1>5, <2>1, <2>2 DEF Mkuser1, Mkuser2, AcTypeOK
<1> QED
  BY <1>1, <1>2, <1>3, <1>4, <1>5 DEF AcNext, AcStep

\* No two runs are past the same open: what one does with its temporary files
\* is not seen by another.
LEMMA OneOwner ==
  ASSUME TempsOwned, NEW p \in AcProcs, NEW q \in AcProcs, p # q
  PROVE  /\ HasLock(p) => ~HasLock(q)
         /\ HasTemp(p) => ~HasTemp(q)
         /\ acTspwd = NoTemp => ~HasLock(q)
         /\ acTpwd = NoTemp => ~HasTemp(q)
BY DEF TempsOwned, NoTemp, nil

\* A run that has failed in a way setpass does not look at stays in the history.
LEMMA BadStays == ASSUME AcTypeOK, AcNext PROVE acBad => acBad'
BY DEF AcNext, AcStep, AcAsk, AcRefuse, AcLock, AcTemp, AcCopy, AcRename1, AcRename2,
       AcNoRename, AcDie, Mkuser1, Mkuser2

\* Steps of a run that has no part in the temporary files.
LEMMA QuietInv ==
  ASSUME AcInv, ~acBad, AcTypeOK', NEW p \in AcProcs, AcAsk(p) \/ AcRefuse(p) \/ AcDie(p)
  PROVE  TempsOwned' /\ VersionsWhole' /\ CopyCurrent'
<1>1. \A q \in AcProcs : q # p => acAt'[q] = acAt[q] /\ acFile'[q] = acFile[q]
  BY DEF AcAsk, AcRefuse, AcDie, AcGo, AcInv, AcTypeOK
<1>2. /\ acAt'[p] \in {"asked", "done", "dead"}
      /\ acFile'[p] = acFile[p] \/ ~acFile'[p].stale
  BY DEF AcAsk, AcRefuse, AcDie, AcGo, CurrentFile, AcInv, AcTypeOK
<1>3. UNCHANGED <<acSpwd, acPass, acTspwd, acTpwd, acNew>>
  BY DEF AcAsk, AcRefuse, AcDie
<1>4. TempsOwned'
  BY <1>1, <1>2, <1>3 DEF AcInv, TempsOwned, HasLock, HasTemp
<1>5. VersionsWhole'
  BY <1>1, <1>2, <1>3 DEF AcInv, VersionsWhole, Complete
<1>6. CopyCurrent'
  BY <1>1, <1>2, <1>3 DEF AcInv, CopyCurrent
<1> QED
  BY <1>4, <1>5, <1>6

\* The opens with O_EXCL.
LEMMA TakeInv ==
  ASSUME AcInv, ~acBad, NEW p \in AcProcs, AcLock(p) \/ AcTemp(p)
  PROVE  TempsOwned' /\ VersionsWhole' /\ CopyCurrent'
<1>1. \A q \in AcProcs : q # p => acAt'[q] = acAt[q]
  BY DEF AcLock, AcTemp, AcGo, AcInv, AcTypeOK
<1>2. acAt'[p] \in {"locked", "open", "done"} /\ UNCHANGED <<acSpwd, acPass, acFile, acNew>>
  BY DEF AcLock, AcTemp, AcGo, AcInv, AcTypeOK
<1>3. TempsOwned'
  <2>1. ASSUME NEW q \in AcProcs, q # p
        PROVE  /\ HasLock(q)' => acTspwd'.by = q
               /\ HasTemp(q)' => acTpwd'.by = q
               /\ acAt'[q] = "copied" => acTspwd'.whole /\ acTpwd'.whole
               /\ acAt'[q] = "renamed" => acTpwd'.whole
    <3>1. CASE AcLock(p)
      <4>1. ~HasLock(q) /\ acTpwd' = acTpwd
        BY <2>1, <3>1, OneOwner DEF AcLock, LockFree, AcInv
      <4> QED
        BY <1>1, <2>1, <4>1 DEF AcInv, TempsOwned, HasLock, HasTemp
    <3>2. CASE AcTemp(p)
      <4>1. ~HasLock(q)
        BY <2>1, <3>2, OneOwner DEF AcTemp, AcInv, HasLock
      <4>2. acTpwd' = acTpwd \/ ~HasTemp(q)
        BY <2>1, <3>2, OneOwner DEF AcTemp, AcInv
      <4> QED
        BY <1>1, <2>1, <4>1, <4>2 DEF AcInv, TempsOwned, HasLock, HasTemp
    <3> QED
      BY <3>1, <3>2
  <2>2. /\ HasLock(p)' => acTspwd'.by = p
        /\ HasTemp(p)' => acTpwd'.by = p
    BY DEF AcLock, AcTemp, AcGo, AcInv, AcTypeOK, TempsOwned, HasLock, HasTemp
  <2> QED
    BY <1>2, <2>1, <2>2 DEF TempsOwned
<1>4. VersionsWhole'
  BY <1>1, <1>2 DEF AcInv, VersionsWhole, Complete
<1>5. CopyCurrent'
  BY <1>1, <1>2 DEF AcInv, CopyCurrent
<1> QED
  BY <1>3, <1>4, <1>5

\* The copy, from the file that main opened.
LEMMA CopyInv ==
  ASSUME AcInv, ~acBad, ~acBad', NEW p \in AcProcs, AcCopy(p)
  PROVE  TempsOwned' /\ VersionsWhole' /\ CopyCurrent'
<1>0. AcTypeOK /\ acAt[p] = "open"
  BY DEF AcInv, AcCopy
<1>1. \A q \in AcProcs : q # p => acAt'[q] = acAt[q] /\ acNew'[q] = acNew[q]
  BY <1>0 DEF AcCopy, AcGo, AcTypeOK
<1>2. UNCHANGED <<acSpwd, acPass, acFile>>
  BY DEF AcCopy
<1>3. acTspwd.by = p /\ acTpwd.by = p
  BY <1>0 DEF AcInv, TempsOwned, HasLock, HasTemp
<1>4. ASSUME NEW q \in AcProcs, q # p PROVE ~HasLock(q)' /\ ~HasTemp(q)'
  <2>1. ~HasLock(q) /\ ~HasTemp(q)
    BY <1>0, <1>4, OneOwner DEF AcInv, HasLock, HasTemp
  <2> QED
    BY <1>1, <1>4, <2>1 DEF HasLock, HasTemp
<1>5. CASE acAt'[p] = "copied"
  <2>1. /\ acNew'[p] = [u \in AcNames |-> IF u \in Own(p) THEN p ELSE Contents(p)[u]]
        /\ acTspwd'.by = p /\ acTpwd'.by = p /\ acTspwd'.whole /\ acTpwd'.whole
    BY <1>0, <1>3, <1>5 DEF AcCopy, AcGo, AcTypeOK, Temps
  <2>2. TempsOwned'
    BY <1>4, <1>5, <2>1 DEF TempsOwned, HasLock, HasTemp
  <2>3. Complete(Contents(p))
    BY DEF AcInv, VersionsWhole, Contents
  <2>4. Complete(acNew'[p])
    BY <2>1, <2>3 DEF Complete, AcNames
  <2>5. VersionsWhole'
    BY <1>1, <1>2, <2>4 DEF AcInv, VersionsWhole, Complete
  <2>6. CopyCurrent'
    <3> SUFFICES ASSUME NEW q \in AcProcs, acAt'[q] = "copied", ~acFile'[q].stale,
                        NEW u \in AcNames
                 PROVE  u = AcUser[q] \/ acNew'[q][u] = acSpwd'[u] \/ acSpwd'[u] = "mkuser"
      BY DEF CopyCurrent
    <3>1. q = p
      BY <1>4 DEF HasLock
    <3> QED
      BY <1>2, <2>1, <3>1 DEF Own, Contents
  <2> QED
    BY <2>2, <2>5, <2>6
<1>6. CASE acAt'[p] # "copied"
  <2>1. acAt'[p] = "done"
    BY <1>0, <1>6 DEF AcCopy, AcGo, AcTypeOK
  <2>2. TempsOwned'
    BY <1>4, <2>1 DEF TempsOwned, HasLock, HasTemp
  <2>3. VersionsWhole'
    BY <1>1, <1>2, <2>1 DEF AcInv, VersionsWhole, Complete
  <2>4. CopyCurrent'
    BY <1>4, <2>1 DEF CopyCurrent, HasLock
  <2> QED
    BY <2>2, <2>3, <2>4
<1> QED
  BY <1>5, <1>6

\* The two renames, and their failures that setpass notices in time.
LEMMA RenameInv ==
  ASSUME AcInv, ~acBad, ~acBad', NEW p \in AcProcs,
         AcRename1(p) \/ AcRename2(p) \/ AcNoRename(p)
  PROVE  TempsOwned' /\ VersionsWhole' /\ CopyCurrent'
<1>0. AcTypeOK
  BY DEF AcInv
<1>1. \A q \in AcProcs : q # p => acAt'[q] = acAt[q]
  BY <1>0 DEF AcRename1, AcRename2, AcNoRename, AcGo, AcTypeOK
<1>2. UNCHANGED acNew
  BY DEF AcRename1, AcRename2, AcNoRename
<1>3. CASE AcRename1(p)
  <2>1. /\ acAt[p] = "copied" /\ acTspwd.whole /\ acTspwd.by = p
        /\ acTpwd.by = p /\ acTpwd.whole /\ Complete(acNew[p])
    BY <1>3 DEF AcRename1, AcInv, TempsOwned, VersionsWhole, HasLock, HasTemp
  <2>2. /\ acSpwd' = acNew[p] /\ acFile' = Kept /\ acAt'[p] = "renamed"
        /\ UNCHANGED <<acPass, acTpwd>>
    BY <1>0, <1>3, <2>1 DEF AcRename1, AcGo, Named, AcTypeOK
  <2>3. ASSUME NEW q \in AcProcs, q # p PROVE ~HasLock(q)' /\ ~HasTemp(q)'
    <3>1. ~HasLock(q) /\ ~HasTemp(q)
      BY <2>1, <2>3, OneOwner DEF AcInv, HasLock, HasTemp
    <3> QED
      BY <1>1, <2>3, <3>1 DEF HasLock, HasTemp
  <2>4. TempsOwned'
    BY <2>1, <2>2, <2>3 DEF TempsOwned, HasLock, HasTemp
  <2>5. VersionsWhole'
    <3>1. \A q \in AcProcs : acFile'[q].stale => Complete(acFile'[q].data)
      BY <2>2 DEF Kept, AcInv, VersionsWhole
    <3> QED
      BY <1>1, <1>2, <2>1, <2>2, <3>1 DEF AcInv, VersionsWhole, Complete
  <2>6. CopyCurrent'
    BY <2>2, <2>3 DEF CopyCurrent, HasLock
  <2> QED
    BY <2>4, <2>5, <2>6
<1>4. CASE AcRename2(p)
  <2>1. /\ acAt[p] = "renamed" /\ acTpwd.whole /\ acTpwd.by = p /\ Complete(acNew[p])
    BY <1>4 DEF AcRename2, AcInv, TempsOwned, VersionsWhole, HasTemp
  <2>2. /\ acPass' = [u \in AcNames |-> acNew[p][u] # nil] /\ acAt'[p] = "done"
        /\ UNCHANGED <<acSpwd, acFile, acTspwd>>
    BY <1>0, <1>4, <2>1 DEF AcRename2, AcGo, Named, AcTypeOK
  <2>3. ASSUME NEW q \in AcProcs, q # p PROVE ~HasTemp(q)'
    <3>1. ~HasTemp(q)
      BY <2>1, <2>3, OneOwner DEF AcInv, HasTemp
    <3> QED
      BY <1>1, <2>3, <3>1 DEF HasTemp
  <2>4. TempsOwned'
    BY <1>1, <2>2, <2>3 DEF AcInv, TempsOwned, HasLock, HasTemp
  <2>5. \A u \in AcUsers : acPass'[u]
    BY <2>1, <2>2 DEF Complete, AcNames, nil
  <2>6. VersionsWhole'
    BY <1>1, <1>2, <2>2, <2>5 DEF AcInv, VersionsWhole, Complete
  <2>7. CopyCurrent'
    BY <1>1, <1>2, <2>2 DEF AcInv, CopyCurrent
  <2> QED
    BY <2>4, <2>6, <2>7
<1>5. CASE AcNoRename(p)
  <2>1. acAt[p] = "copied" /\ acAt'[p] = "done" /\ UNCHANGED <<acSpwd, acPass, acFile>>
    BY <1>0, <1>5 DEF AcNoRename, AcGo, AcTypeOK
  <2>2. ASSUME NEW q \in AcProcs, q # p PROVE ~HasLock(q)' /\ ~HasTemp(q)'
    <3>1. ~HasLock(q) /\ ~HasTemp(q)
      BY <2>1, <2>2, OneOwner DEF AcInv, HasLock, HasTemp
    <3> QED
      BY <1>1, <2>2, <3>1 DEF HasLock, HasTemp
  <2>3. TempsOwned'
    BY <2>1, <2>2 DEF TempsOwned, HasLock, HasTemp
  <2>4. VersionsWhole'
    BY <1>1, <1>2, <2>1 DEF AcInv, VersionsWhole, Complete
  <2>5. CopyCurrent'
    BY <2>1, <2>2 DEF CopyCurrent, HasLock
  <2> QED
    BY <2>3, <2>4, <2>5
<1> QED
  BY <1>3, <1>4, <1>5

\* mkuser adds to the files without the lock.
LEMMA MkuserInv ==
  ASSUME AcInv, ~acBad, NEW u \in NewUsers, Mkuser1(u) \/ Mkuser2(u)
  PROVE  TempsOwned' /\ VersionsWhole' /\ CopyCurrent'
<1>0. AcTypeOK /\ u \in AcNames /\ u \notin AcUsers
  BY DEF AcInv, AcNames
<1>1. UNCHANGED <<acTspwd, acTpwd, acAt, acFile, acNew>>
  BY DEF Mkuser1, Mkuser2
<1>2. \A w \in AcNames : acSpwd'[w] = acSpwd[w] \/ acSpwd'[w] = "mkuser"
  BY <1>0 DEF Mkuser1, Mkuser2, AcTypeOK, Entries
<1>3. \A w \in AcUsers : acPass[w] => acPass'[w]
  BY <1>0 DEF Mkuser1, Mkuser2, AcTypeOK, AcNames
<1>4. Complete(acSpwd) => Complete(acSpwd')
  BY <1>2 DEF Complete, AcNames
<1>5. TempsOwned'
  BY <1>1 DEF AcInv, TempsOwned, HasLock, HasTemp
<1>6. VersionsWhole'
  BY <1>1, <1>3, <1>4 DEF AcInv, VersionsWhole
<1>7. CopyCurrent'
  BY <1>1, <1>2 DEF AcInv, CopyCurrent
<1> QED
  BY <1>5, <1>6, <1>7

\* Every step keeps the inductive invariant.
LEMMA AcNextInv == AcInv /\ [AcNext]_acVars => AcInv'
<1> SUFFICES ASSUME AcInv, [AcNext]_acVars PROVE AcInv'
  OBVIOUS
<1>1. CASE UNCHANGED acVars
  BY <1>1 DEF acVars, AcInv, AcTypeOK, TempsOwned, VersionsWhole, CopyCurrent, HasLock,
             HasTemp, Complete
<1>2. CASE AcNext
  <2>1. AcTypeOK' /\ (~acBad' => ~acBad)
    BY <1>2, AcTypeStep, BadStays DEF AcInv
  <2>2. ASSUME ~acBad' PROVE TempsOwned' /\ VersionsWhole' /\ CopyCurrent'
    BY <1>2, <2>1, <2>2, QuietInv, TakeInv, CopyInv, RenameInv, MkuserInv
       DEF AcNext, AcStep
  <2> QED
    BY <2>1, <2>2 DEF AcInv
<1> QED
  BY <1>1, <1>2

\* The inductive invariant of the account files, for any number of runs.
THEOREM AccountsInvariance == AcSpec => []AcInv
BY AcInitInv, AcNextInv, PTL DEF AcSpec

\* Whatever runs of passwd, chsh and mkuser do at the same time, and wherever
\* they die, /etc/spwd and /etc/passwd hold every installed account at every
\* moment, as long as setpass has not met a failure that it does not look at.
THEOREM DatabaseCorrect == AcSpec => []DatabaseWhole
<1>1. AcInv => DatabaseWhole
  BY DEF AcInv, VersionsWhole, Complete, DatabaseWhole, nil
<1> QED
  BY <1>1, AccountsInvariance, PTL

\* Two runs whose database was opened after the other's rename never undo each
\* other: the lock file is enough for everything but what was read too early.
THEOREM OnlyStaleLosesCorrect == AcSpec => OnlyStaleLoses
<1> DEFINE Step == ~acBad => \A u \in AcNames : acSpwd'[u] # acSpwd[u] =>
       \/ acSpwd[u] = nil
       \/ \E p \in AcProcs : acAt[p] = "copied" /\ acAt'[p] = "renamed"
                             /\ (AcUser[p] = u \/ acFile[p].stale
                                 \/ acSpwd[u] = "mkuser")
<1>1. ASSUME AcInv, AcNext PROVE Step
  <2> SUFFICES ASSUME ~acBad, NEW u \in AcNames, acSpwd'[u] # acSpwd[u], acSpwd[u] # nil
               PROVE  \E p \in AcProcs : acAt[p] = "copied" /\ acAt'[p] = "renamed"
                        /\ (AcUser[p] = u \/ acFile[p].stale \/ acSpwd[u] = "mkuser")
    OBVIOUS
  <2>1. PICK p \in AcProcs : AcRename1(p)
    <3>1. ~\E w \in NewUsers : Mkuser1(w)
      BY <1>1 DEF Mkuser1, AcInv, AcTypeOK, Entries
    <3> QED
      BY <1>1, <3>1 DEF AcNext, AcStep, AcAsk, AcRefuse, AcLock, AcTemp, AcCopy, AcRename2,
                        AcNoRename, AcDie, Mkuser2
  <2>2. acAt[p] = "copied" /\ acAt'[p] = "renamed"
    BY <1>1, <2>1 DEF AcRename1, AcGo, AcInv, AcTypeOK
  <2>3. acSpwd' = acNew[p]
    BY <1>1, <2>1, <2>2 DEF AcRename1, AcInv, TempsOwned, HasLock, Named
  <2> QED
    BY <1>1, <2>2, <2>3 DEF AcInv, CopyCurrent
<1>2. AcInv /\ [AcNext]_acVars => [Step]_acVars
  BY <1>1
<1> QED
  BY <1>2, AccountsInvariance, PTL DEF AcSpec, OnlyStaleLoses


----------------------------------------------------------------------------
(* Terminals and sessions.                                                  *)

LgKinds  == {"free", "zombie", "getty", "login", "taken", "prompt", "shell", "job"}
LgRecs   == [kind : LgKinds, line : LgLines \cup {0}, user : LgUsers \cup {"root"},
             par : LgPids \cup {0}, shown : BOOLEAN]
LgTasks  == [set : {"on", "off", "none"}, pid : LgLines \cup {0}]
Sessions == {"getty", "login", "taken", "prompt", "shell"}
LgTypeOK ==
  /\ lgProc \in [LgPids -> LgRecs] /\ lgTask \in [LgLines -> LgTasks]
  /\ lgTab \in [LgLines -> {"on", "off", "none"}]
  /\ lgOwner \in [LgLines -> LgUsers \cup {"root"}] /\ lgMesg \subseteq LgLines
  /\ lgUtmp \in [LgLines -> LgUsers \cup {"", "none"}]
  /\ lgPid \in LgPids \cup {0}

\* A session leader works on its own line, which init has it down for; what
\* is left of a dead process has no line.
OwnLine ==
  /\ \A p \in LgPids :
       /\ lgProc[p].kind \in Sessions =>
            p \in LgLines /\ lgProc[p].line = p /\ lgTask[p].pid = p
       /\ lgProc[p].kind \in Sessions \ {"shell"} => lgProc[p].user = "root"
       /\ lgProc[p].kind \in {"free", "zombie"} => lgProc[p].line = 0
  /\ \A i \in LgLines : lgTask[i].pid \in {0, i}

\* From login's take-over to the shell the terminal is root's and closed to
\* the group.
Closed ==
  \A p \in LgPids : lgProc[p].kind \in {"taken", "prompt"} =>
    lgOwner[lgProc[p].line] = "root" /\ lgProc[p].line \notin lgMesg

\* The pid that wait returned is nobody's until init has entered the end.
Reaped ==
  /\ lgPid # 0 => lgInit \in {"dead", "dead2"}
  /\ lgPid \in LgLines => lgProc[lgPid].kind = "free"
  /\ lgInit = "boot" => \A p \in LgPids : lgProc[p].kind = "free"

LgInv == LgTypeOK /\ OwnLine /\ Closed /\ Reaped /\ SessionsExact

\* A free process, and what a change of some fields leaves of one.
LEMMA NoProcFields ==
  /\ NoProc \in LgRecs /\ NoProc.kind = "free" /\ NoProc.line = 0 /\ NoProc.user = "root"
BY DEF NoProc, LgRecs, LgKinds

\* A change of the kind alone.
LEMMA KindChanged ==
  ASSUME NEW r \in LgRecs, NEW k \in LgKinds, NEW q, q = [r EXCEPT !.kind = k]
  PROVE  /\ q \in LgRecs /\ q.kind = k /\ q.line = r.line /\ q.user = r.user
         /\ q.par = r.par /\ q.shown = r.shown
BY DEF LgRecs

\* The fields of a process.
LEMMA LgFields ==
  ASSUME NEW r \in LgRecs
  PROVE  /\ r.kind \in LgKinds /\ r.line \in LgLines \cup {0} /\ r.user \in LgUsers \cup {"root"}
         /\ r.par \in LgPids \cup {0} /\ r.shown \in BOOLEAN
BY DEF LgRecs

\* Those who die leave nothing on any line, and the others stay as they are.
LEMMA DiedFields ==
  ASSUME NEW procs \in [LgPids -> LgRecs], NEW ds
  PROVE  /\ Died(procs, ds) \in [LgPids -> LgRecs]
         /\ \A p \in LgPids :
              /\ p \in ds => /\ Died(procs, ds)[p].kind \in {"free", "zombie"}
                             /\ Died(procs, ds)[p].line = 0
                             /\ Died(procs, ds)[p].user = "root"
              /\ p \notin ds => /\ Died(procs, ds)[p].kind = procs[p].kind
                                /\ Died(procs, ds)[p].line = procs[p].line
                                /\ Died(procs, ds)[p].user = procs[p].user
                                /\ Died(procs, ds)[p].shown = procs[p].shown
<1> DEFINE R(p) == LET q == procs[p] IN
                   IF p \in ds THEN (IF q.par \in LgPids \ ds THEN NoProc ELSE Zombie)
                   ELSE IF q.par \in ds THEN [q EXCEPT !.par = 0] ELSE q
<1>1. Died(procs, ds) = [p \in LgPids |-> R(p)]
  BY DEF Died
<1>2. ASSUME NEW r \in LgRecs
      PROVE  LET q == [r EXCEPT !.par = 0]
             IN  /\ q \in LgRecs /\ q.kind = r.kind /\ q.line = r.line /\ q.user = r.user
                 /\ q.shown = r.shown
  BY DEF LgRecs
<1>3. Zombie \in LgRecs /\ Zombie.kind = "zombie" /\ Zombie.line = 0 /\ Zombie.user = "root"
  BY DEF Zombie, NoProc, LgRecs, LgKinds
<1>4. ASSUME NEW p \in LgPids
      PROVE  /\ R(p) \in LgRecs
             /\ p \in ds => R(p).kind \in {"free", "zombie"} /\ R(p).line = 0 /\ R(p).user = "root"
             /\ p \notin ds => /\ R(p).kind = procs[p].kind /\ R(p).line = procs[p].line
                               /\ R(p).user = procs[p].user /\ R(p).shown = procs[p].shown
  <2>1. procs[p] \in LgRecs
    OBVIOUS
  <2> QED
    BY <2>1, <1>2, <1>3, NoProcFields
<1> HIDE DEF R
<1> QED
  BY <1>1, <1>4

\* A process that is free stays so.
LEMMA DiedFree ==
  ASSUME NEW procs \in [LgPids -> LgRecs], NEW ds, NEW p \in LgPids \ ds, procs[p].kind = "free"
  PROVE  Died(procs, ds)[p].kind = "free"
BY DiedFields

\* The system as it boots.
LEMMA LgStartInv == LgStart => LgInv
<1> SUFFICES ASSUME LgStart PROVE LgInv
  OBVIOUS
<1>1. [set |-> "none", pid |-> 0] \in LgTasks
  BY DEF LgTasks
<1>2. LgTypeOK
  BY <1>1, NoProcFields DEF LgStart, LgTypeOK
<1>3. \A p \in LgPids : lgProc[p] = NoProc
  BY DEF LgStart
<1>4. \A p \in LgPids : lgProc[p].kind = "free" /\ lgProc[p].line = 0
  BY <1>3, NoProcFields
<1>5. OwnLine
  BY <1>4 DEF OwnLine, Sessions, LgStart
<1>6. Closed /\ Reaped
  <2>1. lgPid = 0 /\ 0 \notin LgLines
    BY LoginAssumption DEF LoginAssumption, LgStart
  <2> QED
    BY <1>4, <2>1 DEF Closed, Reaped
<1>7. SessionsExact
  BY <1>4 DEF SessionsExact, PromptPrivate, SessionsTracked, Kind
<1> QED
  BY <1>2, <1>5, <1>6, <1>7 DEF LgInv

\* What a reload of the table does.
LEMMA Readtabs ==
  ASSUME LgInv, Readtab
  PROVE  /\ lgProc' \in [LgPids -> LgRecs] /\ lgTask' \in [LgLines -> LgTasks]
         /\ \A i \in LgLines : lgTask'[i].pid = lgTask[i].pid
         /\ \A p \in LgPids :
              \/ lgProc'[p].kind \in {"free", "zombie"} /\ lgProc'[p].line = 0
                 /\ lgProc'[p].user = "root"
              \/ /\ lgProc'[p].kind = lgProc[p].kind /\ lgProc'[p].line = lgProc[p].line
                 /\ lgProc'[p].user = lgProc[p].user /\ lgProc'[p].shown = lgProc[p].shown
<1>1. lgProc \in [LgPids -> LgRecs] /\ lgProc' = Died(lgProc, Killed)
      /\ lgTask \in [LgLines -> LgTasks] /\ lgTab \in [LgLines -> {"on", "off", "none"}]
  BY DEF Readtab, LgInv, LgTypeOK
<1>2. ASSUME NEW r \in LgTasks, NEW s \in {"on", "off", "none"}
      PROVE  [r EXCEPT !.set = s] \in LgTasks /\ [r EXCEPT !.set = s].pid = r.pid
  BY DEF LgTasks
<1>3. \A i \in LgLines : lgTask'[i] \in LgTasks /\ lgTask'[i].pid = lgTask[i].pid
  BY <1>1, <1>2 DEF Readtab
<1>4. lgTask' \in [LgLines -> LgTasks]
  BY <1>3 DEF Readtab
<1> QED
  BY <1>1, <1>3, <1>4, DiedFields

\* Deaths keep what is known of those who live on.
Gone(p) == lgProc'[p].kind \in {"free", "zombie"} /\ lgProc'[p].line = 0
           /\ lgProc'[p].user = "root"
Stays(p) == /\ lgProc'[p].kind = lgProc[p].kind /\ lgProc'[p].line = lgProc[p].line
            /\ lgProc'[p].user = lgProc[p].user /\ lgProc'[p].shown = lgProc[p].shown
LEMMA DeathsKeep ==
  ASSUME LgInv, \A p \in LgPids : Gone(p) \/ Stays(p),
         \A i \in LgLines : lgTask'[i].pid = lgTask[i].pid,
         UNCHANGED <<lgOwner, lgMesg>>,
         \A p \in Kind({"shell"}) : lgProc[p].shown => lgUtmp'[lgProc[p].line] = lgUtmp[lgProc[p].line]
  PROVE  OwnLine' /\ Closed' /\ PromptPrivate' /\ SessionsTracked'
<1> USE DEF Gone, Stays
<1>t. OwnLine /\ Closed /\ PromptPrivate /\ SessionsTracked
  BY DEF LgInv, SessionsExact
<1>1. OwnLine'
  BY <1>t DEF OwnLine, Sessions
<1>2. Closed'
  BY <1>t DEF Closed
<1>3. ASSUME NEW p \in LgPids, NEW k \in SUBSET (Sessions \cup {"job"}), lgProc'[p].kind \in k
      PROVE  lgProc[p].kind \in k /\ Stays(p)
  BY <1>3 DEF Sessions
<1>4. PromptPrivate'
  <2> SUFFICES ASSUME NEW p \in LgPids, lgProc'[p].kind = "prompt",
                      NEW q \in LgPids \ {p}, Holds(q, lgProc[p].line)'
               PROVE  lgProc'[q].user = "root"
    BY DEF PromptPrivate, Kind
  <2>1. lgProc[p].kind = "prompt" /\ Stays(p)
    OBVIOUS
  <2>2. Stays(q)
    BY DEF Holds
  <2>3. Holds(q, lgProc[p].line)
    BY <2>1, <2>2 DEF Holds
  <2> QED
    BY <1>t, <2>1, <2>2, <2>3 DEF PromptPrivate, Kind
<1>5. SessionsTracked'
  <2>1. ASSUME NEW p \in Kind(Sessions)' PROVE lgTask'[lgProc'[p].line].pid = p
    <3>1. p \in Kind(Sessions) /\ Stays(p) /\ p \in LgPids
      BY <2>1 DEF Kind, Sessions
    <3> QED
      BY <1>t, <3>1 DEF OwnLine, Kind
  <2>2. ASSUME NEW p \in Kind({"shell"})', lgProc'[p].shown
        PROVE  lgUtmp'[lgProc'[p].line] = lgProc'[p].user
    <3>1. p \in Kind({"shell"}) /\ Stays(p)
      BY <2>2 DEF Kind
    <3> QED
      BY <1>t, <2>2, <3>1 DEF SessionsTracked
  <2> QED
    BY <2>1, <2>2 DEF SessionsTracked, Sessions
<1> QED
  BY <1>1, <1>2, <1>4, <1>5

\* Every step of init, of enable, of login and of the users' programs.
LEMMA LgNextInv == LgInv /\ [LgNext]_lgVars => LgInv'
<1> SUFFICES ASSUME LgInv, [LgNext]_lgVars PROVE LgInv'
  OBVIOUS
<1>t. LgTypeOK /\ OwnLine /\ Closed /\ Reaped /\ PromptPrivate /\ SessionsTracked
  BY DEF LgInv, SessionsExact
<1>f. \A p \in LgPids : lgProc[p] \in LgRecs /\ lgProc[p].kind \in LgKinds
  BY <1>t, LgFields DEF LgTypeOK
<1>l. LgLines \subseteq Nat \ {0} /\ LgJobs \subseteq Nat \ {0} /\ LgLines \cap LgJobs = {}
      /\ LgPids = LgLines \cup LgJobs /\ 0 \notin LgLines
  BY LoginAssumption DEF LoginAssumption, LgPids
<1>s. (LgTypeOK /\ OwnLine /\ Closed /\ Reaped /\ PromptPrivate /\ SessionsTracked)' => LgInv'
  BY DEF LgInv, SessionsExact
<1>1. ASSUME NEW ok \in BOOLEAN, LgBoot(ok) PROVE LgInv'
  <2>1. \A p \in LgPids : lgProc[p].kind = "free"
    BY <1>1, <1>t DEF LgBoot, Reaped
  <2>2. /\ lgInit' \in {"respawn", "single"} /\ lgPid' = lgPid /\ lgPid = 0
        /\ UNCHANGED <<lgTab, lgOwner, lgMesg>>
        /\ lgUtmp' \in [LgLines -> LgUsers \cup {"", "none"}]
    BY <1>1, <1>t DEF LgBoot, Reaped
  <2>3. Kind({"shell"}) = {}
    BY <2>1 DEF Kind
  <2>4. /\ lgProc' \in [LgPids -> LgRecs] /\ lgTask' \in [LgLines -> LgTasks]
        /\ \A p \in LgPids : Gone(p) \/ Stays(p)
        /\ \A i \in LgLines : lgTask'[i].pid = lgTask[i].pid
    <3>1. CASE Readtab
      BY <3>1, Readtabs DEF Gone, Stays
    <3>2. CASE UNCHANGED <<lgTask, lgProc>>
      BY <3>2, <1>t DEF LgTypeOK, Stays
    <3> QED
      BY <1>1, <3>1, <3>2 DEF LgBoot
  <2>5. OwnLine' /\ Closed' /\ PromptPrivate' /\ SessionsTracked'
    BY <2>2, <2>3, <2>4, DeathsKeep
  <2>6. LgTypeOK' /\ Reaped'
    BY <1>t, <1>l, <2>2, <2>4 DEF LgTypeOK, Reaped
  <2> QED
    BY <1>s, <2>5, <2>6
<1>2. CASE LgSingle \/ LgRespawned
  <2>1. /\ UNCHANGED <<lgTab, lgTask, lgPid, lgHup, lgReload, lgProc, lgOwner, lgMesg, lgUtmp>>
        /\ lgPid = 0 /\ lgInit' # "boot"
    BY <1>2, <1>t DEF LgSingle, LgRespawned, Reaped
  <2>2. OwnLine' /\ Closed' /\ PromptPrivate' /\ SessionsTracked'
    BY <2>1, DeathsKeep DEF Stays
  <2> QED
    BY <2>1, <2>2, <1>s, <1>t, <1>l DEF LgTypeOK, Reaped
<1>3. CASE LgReread
  <2>2. /\ lgInit = "dead" /\ lgInit' = "dead2" /\ Readtab
        /\ UNCHANGED <<lgTab, lgPid, lgOwner, lgMesg, lgUtmp>>
    BY <1>3 DEF LgReread
  <2>4. /\ lgProc' \in [LgPids -> LgRecs] /\ lgTask' \in [LgLines -> LgTasks]
        /\ \A p \in LgPids : Gone(p) \/ Stays(p)
        /\ \A i \in LgLines : lgTask'[i].pid = lgTask[i].pid
    BY <2>2, Readtabs DEF Gone, Stays
  <2>5. OwnLine' /\ Closed' /\ PromptPrivate' /\ SessionsTracked'
    BY <2>2, <2>4, DeathsKeep
  <2>6. LgTypeOK'
    BY <1>t, <2>2, <2>4 DEF LgTypeOK
  <2>7. lgPid \in LgLines => lgProc'[lgPid].kind = "free"
    <3> SUFFICES ASSUME lgPid \in LgLines PROVE lgProc'[lgPid].kind = "free"
      OBVIOUS
    <3>1. lgPid \in LgPids /\ lgProc[lgPid].kind = "free"
      BY <1>t, <1>l DEF Reaped
    <3>2. lgPid \notin Killed
      BY <3>1 DEF Killed, Killf, Holds
    <3> QED
      <4>1. lgProc' = Died(lgProc, Killed) /\ lgProc \in [LgPids -> LgRecs] /\ lgPid' = lgPid
        BY <1>t, <2>2 DEF Readtab, LgTypeOK
      <4>2. Died(lgProc, Killed)[lgPid].kind = "free"
        BY <4>1, <3>1, <3>2, DiedFree
      <4> QED
        BY <4>1, <4>2
  <2>8. Reaped'
    BY <1>t, <2>2, <2>7 DEF Reaped
  <2> QED
    BY <1>s, <2>5, <2>6, <2>8
<1>4. ASSUME NEW i \in LgLines, NEW p \in LgLines, LgRespawn(i, p) PROVE LgInv'
  <2> DEFINE g == [NoProc EXCEPT !.kind = "getty", !.line = i]
             t == [lgTask[i] EXCEPT !.pid = p]
  <2>1. /\ lgInit = "respawn" /\ p = i /\ lgProc' = [lgProc EXCEPT ![i] = g]
        /\ lgTask' = [lgTask EXCEPT ![i] = t]
        /\ UNCHANGED <<lgTab, lgInit, lgPid, lgHup, lgReload, lgOwner, lgMesg, lgUtmp>>
    BY <1>4, <1>t DEF LgRespawn, LgTypeOK
  <2>2. g \in LgRecs /\ g.kind = "getty" /\ g.line = i /\ g.user = "root"
    BY DEF NoProc, LgRecs, LgKinds
  <2>3. t \in LgTasks /\ t.pid = i
    BY <1>t, <2>1 DEF LgTypeOK, LgTasks
  <2> HIDE DEF g, t
  <2>4. /\ lgProc' \in [LgPids -> LgRecs] /\ lgProc'[i] = g
        /\ \A q \in LgPids \ {i} : lgProc'[q] = lgProc[q]
        /\ lgTask'[i].pid = i /\ \A j \in LgLines \ {i} : lgTask'[j] = lgTask[j]
    BY <1>t, <1>l, <2>1, <2>2, <2>3 DEF LgTypeOK
  <2>5. LgTypeOK'
    BY <1>t, <2>1, <2>3, <2>4 DEF LgTypeOK
  <2>6. OwnLine' /\ Closed' /\ Reaped'
    BY <1>t, <1>l, <2>1, <2>2, <2>4 DEF OwnLine, Sessions, Closed, Reaped
  <2>7. PromptPrivate'
    <3> SUFFICES ASSUME NEW r \in LgPids, lgProc'[r].kind = "prompt",
                        NEW q \in LgPids \ {r}, Holds(q, lgProc[r].line)'
                 PROVE  lgProc'[q].user = "root"
      BY DEF PromptPrivate, Kind
    <3>1. r # i /\ q # i
      BY <2>2, <2>4 DEF Holds
    <3>2. lgProc'[r] = lgProc[r] /\ lgProc'[q] = lgProc[q]
      BY <3>1, <2>4
    <3> QED
      BY <1>t, <3>2 DEF PromptPrivate, Kind, Holds
  <2>8. SessionsTracked'
    BY <1>t, <1>l, <2>1, <2>2, <2>4, <2>6 DEF OwnLine, Sessions, SessionsTracked, Kind
  <2> QED
    BY <1>s, <2>5, <2>6, <2>7, <2>8
<1>5. ASSUME NEW p \in LgPids \cup {0}, LgWait(p) PROVE LgInv'
  <2>1. /\ lgInit = "wait" /\ lgInit' = "dead" /\ lgPid' = p
        /\ UNCHANGED <<lgTab, lgTask, lgHup, lgReload, lgOwner, lgMesg, lgUtmp>>
    BY <1>5 DEF LgWait
  <2>2. \/ p \in LgPids /\ lgProc' = [lgProc EXCEPT ![p] = NoProc]
        \/ p = 0 /\ lgProc' = lgProc
    BY <1>5 DEF LgWait
  <2>3. lgProc' \in [LgPids -> LgRecs] /\ \A q \in LgPids : Gone(q) \/ Stays(q)
    BY <1>t, <2>2, NoProcFields DEF LgTypeOK, Gone, Stays
  <2>4. p \in LgLines => lgProc'[p].kind = "free"
    BY <1>t, <1>l, <2>2, NoProcFields DEF LgTypeOK
  <2>5. OwnLine' /\ Closed' /\ PromptPrivate' /\ SessionsTracked'
    BY <2>1, <2>3, DeathsKeep
  <2>6. LgTypeOK' /\ Reaped'
    BY <1>t, <2>1, <2>3, <2>4 DEF LgTypeOK, Reaped
  <2> QED
    BY <1>s, <2>5, <2>6
<1>6. ASSUME NEW n \in LgUsers \cup {""}, LgDead(n) PROVE LgInv'
  <2>1. /\ lgTask' = [i \in LgLines |-> IF i \in Ended THEN [lgTask[i] EXCEPT !.pid = 0] ELSE lgTask[i]]
        /\ lgUtmp' = [i \in LgLines |-> IF i \in Ended THEN n ELSE lgUtmp[i]]
        /\ lgInit' = "respawn" /\ lgPid' = 0
        /\ UNCHANGED <<lgTab, lgHup, lgReload, lgProc, lgOwner, lgMesg>>
    BY <1>6 DEF LgDead
  <2>2. ASSUME NEW i \in Ended PROVE i \in LgLines /\ lgProc[i].kind = "free" /\ i \in LgPids
    BY <1>t, <1>l, <2>2 DEF Ended, OwnLine, Reaped
  <2>3. \A i \in LgLines : [lgTask[i] EXCEPT !.pid = 0] \in LgTasks
                           /\ [lgTask[i] EXCEPT !.pid = 0].pid = 0
    BY <1>t DEF LgTypeOK, LgTasks
  <2>4. /\ lgTask' \in [LgLines -> LgTasks]
        /\ \A i \in LgLines : lgTask'[i].pid \in {0, i}
        /\ \A i \in LgLines \ Ended : lgTask'[i] = lgTask[i]
    BY <1>t, <2>1, <2>3 DEF LgTypeOK, OwnLine
  <2>5. LgTypeOK' /\ Reaped'
    BY <1>t, <1>l, <2>1, <2>4 DEF LgTypeOK, Reaped
  <2>6. OwnLine'
    <3>1. ASSUME NEW p \in LgPids, lgProc[p].kind \in Sessions
          PROVE  p \in LgLines \ Ended
      BY <1>t, <2>2, <3>1 DEF OwnLine, Sessions
    <3> QED
      BY <1>t, <2>1, <2>4, <3>1 DEF OwnLine
  <2>9. Closed' /\ PromptPrivate'
    BY <1>t, <2>1 DEF Closed, PromptPrivate, Kind, Holds
  <2>7. ASSUME NEW p \in Kind(Sessions) PROVE lgProc[p].line = p /\ p \in LgLines \ Ended
    BY <1>t, <2>2 DEF Kind, OwnLine, Sessions
  <2>8. SessionsTracked'
    <3>1. \A p \in Kind(Sessions) : lgTask'[lgProc[p].line].pid = p
      BY <1>t, <2>4, <2>7 DEF SessionsTracked, Sessions, Kind
    <3>2. \A p \in Kind({"shell"}) : lgUtmp'[lgProc[p].line] = lgUtmp[lgProc[p].line]
      BY <2>1, <2>7 DEF Sessions, Kind
    <3> QED
      BY <1>t, <2>1, <3>1, <3>2 DEF SessionsTracked, Kind, Sessions
  <2> QED
    BY <1>s, <2>5, <2>6, <2>8, <2>9
<1>7. ASSUME NEW i \in LgEdited, NEW s \in {"on", "off"}, LgEnable(i, s) PROVE LgInv'
  <2>1. /\ lgTab' = [lgTab EXCEPT ![i] = s]
        /\ UNCHANGED <<lgTask, lgInit, lgPid, lgReload, lgProc, lgOwner, lgMesg, lgUtmp>>
    BY <1>7 DEF LgEnable
  <2>2. lgTab' \in [LgLines -> {"on", "off", "none"}]
    BY <1>t, <2>1 DEF LgTypeOK
  <2>3. OwnLine' /\ Closed' /\ PromptPrivate' /\ SessionsTracked'
    BY <2>1, DeathsKeep DEF Stays
  <2> QED
    BY <2>1, <2>2, <2>3, <1>s, <1>t DEF LgTypeOK, Reaped
<1>8. CASE LgSighup
  <2>1. /\ UNCHANGED <<lgTab, lgTask, lgProc, lgOwner, lgMesg, lgUtmp>>
        /\ (lgInit' = "dead" /\ lgPid' = 0) \/ UNCHANGED <<lgInit, lgPid>>
    BY <1>8 DEF LgSighup
  <2>2. OwnLine' /\ Closed' /\ PromptPrivate' /\ SessionsTracked'
    BY <2>1, DeathsKeep DEF Stays
  <2> QED
    BY <2>1, <2>2, <1>s, <1>t, <1>l DEF LgTypeOK, Reaped
<1>9. ASSUME NEW p \in LgPids, LgGetty(p) \/ LgTake(p) PROVE LgInv'
  <2> DEFINE k == IF lgProc[p].kind = "getty" THEN "login" ELSE "taken"
             i == lgProc[p].line
             g == [lgProc[p] EXCEPT !.kind = k]
  <2>1. /\ lgProc[p].kind \in {"getty", "login"} /\ lgProc' = [lgProc EXCEPT ![p] = g]
        /\ UNCHANGED <<lgTab, lgTask, lgInit, lgPid, lgHup, lgReload, lgUtmp>>
        /\ \/ UNCHANGED <<lgOwner, lgMesg>> /\ k = "login"
           \/ lgOwner' = [lgOwner EXCEPT ![i] = "root"] /\ lgMesg' = lgMesg \ {i}
    BY <1>9, <1>t DEF LgGetty, LgTake, Stage, FirstTakes, LgTypeOK
  <2>2. i = p /\ p \in LgLines /\ lgTask[p].pid = p /\ lgProc[p].user = "root" /\ lgProc[p] \in LgRecs
    BY <1>t, <2>1 DEF OwnLine, Sessions, LgTypeOK
  <2>3. g \in LgRecs /\ g.kind = k /\ g.line = i /\ g.user = "root" /\ k \in {"login", "taken"}
    <3>1. k \in LgKinds
      BY DEF LgKinds
    <3> QED
      BY <3>1, <2>2, KindChanged
  <2>4. /\ lgProc' \in [LgPids -> LgRecs] /\ lgProc'[p] = g
        /\ \A q \in LgPids \ {p} : lgProc'[q] = lgProc[q]
    BY <1>t, <2>1, <2>3 DEF LgTypeOK
  <2> HIDE DEF g
  <2>o. /\ lgOwner' \in [LgLines -> LgUsers \cup {"root"}] /\ lgMesg' \subseteq LgLines
        /\ \A j \in LgLines : lgOwner[j] = "root" => lgOwner'[j] = "root"
        /\ k = "taken" => lgOwner'[p] = "root" /\ p \notin lgMesg'
        /\ lgMesg' \subseteq lgMesg
    BY <1>t, <2>1, <2>2 DEF LgTypeOK
  <2> HIDE DEF k
  <2>5. LgTypeOK'
    BY <1>t, <2>1, <2>o, <2>4 DEF LgTypeOK
  <2>10. Reaped'
    <3>1. lgPid # p /\ lgInit # "boot"
      BY <1>t, <2>1, <2>2 DEF Reaped
    <3> QED
      BY <1>t, <1>l, <2>1, <2>4, <3>1 DEF Reaped
  <2>6. OwnLine'
    BY <1>t, <2>1, <2>2, <2>3, <2>4 DEF OwnLine, Sessions
  <2>9. Closed'
    <3> SUFFICES ASSUME NEW r \in LgPids, lgProc'[r].kind \in {"taken", "prompt"}
                 PROVE  lgOwner'[lgProc'[r].line] = "root" /\ lgProc'[r].line \notin lgMesg'
      BY DEF Closed
    <3>1. CASE r = p
      BY <3>1, <2>2, <2>3, <2>4, <2>o
    <3>2. CASE r # p
      <4>1. lgProc'[r] = lgProc[r] /\ lgProc[r].line \in LgLines
        BY <1>t, <3>2, <2>4 DEF OwnLine, Sessions
      <4> QED
        BY <1>t, <4>1, <2>o DEF Closed
    <3> QED
      BY <3>1, <3>2
  <2>7. PromptPrivate'
    <3> SUFFICES ASSUME NEW r \in LgPids, lgProc'[r].kind = "prompt",
                        NEW q \in LgPids \ {r}, Holds(q, lgProc[r].line)'
                 PROVE  lgProc'[q].user = "root"
      BY DEF PromptPrivate, Kind
    <3>1. r # p /\ lgProc'[r] = lgProc[r]
      BY <2>3, <2>4
    <3>2. CASE q = p
      BY <3>2, <2>3, <2>4
    <3>3. CASE q # p
      <4>1. lgProc'[q] = lgProc[q]
        BY <3>3, <2>4
      <4> QED
        BY <1>t, <3>1, <4>1 DEF PromptPrivate, Kind, Holds
    <3> QED
      BY <3>2, <3>3
  <2>8. SessionsTracked'
    BY <1>t, <2>1, <2>2, <2>3, <2>4 DEF SessionsTracked, Kind
  <2> QED
    BY <1>s, <2>5, <2>6, <2>7, <2>8, <2>9, <2>10
<1>10. ASSUME NEW p \in LgPids, LgReset(p) PROVE LgInv'
  <2> DEFINE i == lgProc[p].line
             ds == Killf(p, i)
             procs == Died(lgProc, ds)
             g == [procs[p] EXCEPT !.kind = "prompt"]
  <2>1. /\ lgProc[p].kind = "taken" /\ lgProc' = [procs EXCEPT ![p].kind = "prompt"]
        /\ UNCHANGED <<lgTab, lgTask, lgInit, lgPid, lgHup, lgReload, lgOwner, lgMesg, lgUtmp>>
    BY <1>10 DEF LgReset
  <2>2. i = p /\ p \in LgLines /\ lgTask[p].pid = p /\ lgProc[p].user = "root" /\ p \notin ds
        /\ lgOwner[p] = "root" /\ p \notin lgMesg
    BY <1>t, <2>1 DEF OwnLine, Sessions, Killf, Closed
  <2>3. /\ procs \in [LgPids -> LgRecs]
        /\ \A q \in ds \cap LgPids : /\ procs[q].kind \in {"free", "zombie"} /\ procs[q].line = 0
                                     /\ procs[q].user = "root"
        /\ \A q \in LgPids \ ds :
             /\ procs[q].kind = lgProc[q].kind /\ procs[q].line = lgProc[q].line
             /\ procs[q].user = lgProc[q].user /\ procs[q].shown = lgProc[q].shown
    <3>1. lgProc \in [LgPids -> LgRecs]
      BY <1>t DEF LgTypeOK
    <3> HIDE DEF ds
    <3> QED
      BY <3>1, DiedFields
  <2> HIDE DEF procs
  <2>4. g \in LgRecs /\ g.kind = "prompt" /\ g.line = i /\ g.user = "root"
    <3>1. "prompt" \in LgKinds /\ procs[p] \in LgRecs
      BY <2>3 DEF LgKinds
    <3> QED
      BY <3>1, <2>2, <2>3, KindChanged
  <2>5. /\ lgProc' \in [LgPids -> LgRecs] /\ lgProc'[p] = g
        /\ \A q \in LgPids \ {p} : lgProc'[q] = procs[q]
    <3>1. lgProc' = [procs EXCEPT ![p] = g]
      BY <2>1, <2>3
    <3> HIDE DEF g
    <3> QED
      BY <3>1, <2>3, <2>4
  <2> HIDE DEF g
  <2>s. \A q \in LgPids \ {p} : Gone(q) \/ (Stays(q) /\ q \notin ds)
    BY <2>3, <2>5 DEF Gone, Stays
  <2>6. LgTypeOK'
    BY <1>t, <2>1, <2>5 DEF LgTypeOK
  <2>7. Reaped'
    <3>1. ASSUME lgPid \in LgLines PROVE lgProc'[lgPid].kind = "free"
      <4>1. lgPid # p /\ lgProc[lgPid].kind = "free" /\ lgPid \in LgPids
        BY <1>t, <1>l, <2>1, <3>1 DEF Reaped
      <4>2. lgPid \notin ds
        BY <4>1 DEF Killf, Holds
      <4> QED
        BY <2>3, <2>5, <4>1, <4>2
    <3> QED
      BY <1>t, <2>1, <3>1 DEF Reaped
  <2>8. OwnLine'
    <3>1. ASSUME NEW q \in LgPids
          PROVE  /\ lgProc'[q].kind \in Sessions =>
                      q \in LgLines /\ lgProc'[q].line = q /\ lgTask'[q].pid = q
                 /\ lgProc'[q].kind \in Sessions \ {"shell"} => lgProc'[q].user = "root"
                 /\ lgProc'[q].kind \in {"free", "zombie"} => lgProc'[q].line = 0
      <4>1. CASE q = p
        BY <4>1, <2>1, <2>2, <2>4, <2>5
      <4>2. CASE q # p
        <5>1. Gone(q) \/ Stays(q)
          BY <4>2, <2>s
        <5> QED
          BY <1>t, <2>1, <5>1 DEF OwnLine, Sessions, Gone, Stays
      <4> QED
        BY <4>1, <4>2
    <3> QED
      BY <1>t, <2>1, <3>1 DEF OwnLine
  <2>9. Closed'
    <3> SUFFICES ASSUME NEW r \in LgPids, lgProc'[r].kind \in {"taken", "prompt"}
                 PROVE  lgOwner'[lgProc'[r].line] = "root" /\ lgProc'[r].line \notin lgMesg'
      BY DEF Closed
    <3>1. CASE r = p
      <4>1. lgProc'[r].line = p /\ lgOwner' = lgOwner /\ lgMesg' = lgMesg
        BY <3>1, <2>1, <2>2, <2>4, <2>5
      <4> QED
        BY <4>1, <2>2
    <3>2. CASE r # p
      <4>1. Stays(r)
        BY <3>2, <2>s DEF Gone
      <4> QED
        BY <1>t, <4>1, <2>1 DEF Closed, Stays
    <3> QED
      BY <3>1, <3>2
  <2>10. PromptPrivate'
    <3> SUFFICES ASSUME NEW r \in LgPids, lgProc'[r].kind = "prompt",
                        NEW q \in LgPids \ {r}, Holds(q, lgProc[r].line)'
                 PROVE  lgProc'[q].user = "root"
      BY DEF PromptPrivate, Kind
    <3>1. CASE q = p
      BY <3>1, <2>4, <2>5
    <3>2. CASE q # p /\ r = p
      <4>1. lgProc'[r].line = i /\ (Stays(q) => q \notin ds)
        BY <3>2, <2>4, <2>5, <2>s DEF Gone, Stays, Killf, Holds
      <4>2. CASE Gone(q)
        BY <4>2 DEF Gone
      <4>3. CASE Stays(q)
        BY <3>2, <4>1, <4>3 DEF Stays, Killf, Holds
      <4> QED
        BY <3>2, <4>2, <4>3, <2>s
    <3>3. CASE q # p /\ r # p
      <4>1. Stays(r) /\ (Gone(q) \/ Stays(q))
        BY <3>3, <2>s DEF Gone
      <4> QED
        BY <1>t, <4>1 DEF PromptPrivate, Kind, Holds, Gone, Stays
    <3> QED
      BY <3>1, <3>2, <3>3
  <2>11. SessionsTracked'
    <3>1. ASSUME NEW q \in LgPids, lgProc'[q].kind \in Sessions
          PROVE  lgTask'[lgProc'[q].line].pid = q
      BY <2>8, <3>1 DEF OwnLine
    <3>2. ASSUME NEW q \in LgPids, lgProc'[q].kind = "shell", lgProc'[q].shown
          PROVE  lgUtmp'[lgProc'[q].line] = lgProc'[q].user
      <4>1. Stays(q)
        BY <3>2, <2>4, <2>5, <2>s DEF Gone
      <4> QED
        BY <1>t, <2>1, <3>2, <4>1 DEF SessionsTracked, Kind, Stays
    <3> QED
      BY <3>1, <3>2 DEF SessionsTracked, Kind, Sessions
  <2> QED
    BY <1>s, <2>6, <2>7, <2>8, <2>9, <2>10, <2>11
<1>11. ASSUME NEW p \in LgPids, LgExit(p) PROVE LgInv'
  <2>1. /\ lgProc' = Died(lgProc, {p}) /\ lgProc[p].kind # "free"
        /\ UNCHANGED <<lgTab, lgTask, lgInit, lgPid, lgHup, lgReload, lgOwner, lgMesg, lgUtmp>>
        /\ lgProc \in [LgPids -> LgRecs]
    BY <1>11, <1>t DEF LgExit, LgTypeOK
  <2>2. lgProc' \in [LgPids -> LgRecs] /\ \A q \in LgPids : Gone(q) \/ Stays(q)
    BY <2>1, DiedFields DEF Gone, Stays
  <2>3. OwnLine' /\ Closed' /\ PromptPrivate' /\ SessionsTracked'
    BY <2>1, <2>2, DeathsKeep
  <2>4. LgTypeOK'
    BY <1>t, <2>1, <2>2 DEF LgTypeOK
  <2>5. Reaped'
    <3>1. ASSUME lgPid \in LgLines PROVE lgProc'[lgPid].kind = "free"
      <4>1. lgPid \in LgPids \ {p} /\ lgProc[lgPid].kind = "free"
        BY <1>t, <1>l, <2>1, <3>1 DEF Reaped
      <4> QED
        BY <2>1, <4>1, DiedFree
    <3> QED
      BY <1>t, <2>1, <3>1 DEF Reaped
  <2> QED
    BY <1>s, <2>3, <2>4, <2>5
<1>12. ASSUME NEW p \in LgPids, LgMesg(p) PROVE LgInv'
  <2> DEFINE i == lgProc[p].line
  <2>1. /\ lgProc[p].kind = "shell" /\ lgMesg' \in {lgMesg \cup {i}, lgMesg \ {i}}
        /\ UNCHANGED <<lgTab, lgTask, lgInit, lgPid, lgHup, lgReload, lgProc, lgOwner, lgUtmp>>
    BY <1>12 DEF LgMesg
  <2>2. i = p /\ p \in LgLines
    BY <1>t, <2>1 DEF OwnLine, Sessions
  <2>3. LgTypeOK' /\ Reaped'
    BY <1>t, <2>1, <2>2 DEF LgTypeOK, Reaped
  <2>6. OwnLine' /\ SessionsTracked'
    BY <1>t, <2>1 DEF OwnLine, SessionsTracked, Kind
  <2>4. PromptPrivate'
    BY <1>t, <2>1 DEF PromptPrivate, Kind, Holds
  <2>5. Closed'
    <3> SUFFICES ASSUME NEW r \in LgPids, lgProc[r].kind \in {"taken", "prompt"}
                 PROVE  lgOwner[lgProc[r].line] = "root" /\ lgProc[r].line \notin lgMesg'
      BY <2>1 DEF Closed
    <3>1. lgProc[r].line # i
      BY <1>t, <2>1, <2>2 DEF OwnLine, Sessions
    <3> QED
      BY <1>t, <2>1, <3>1 DEF Closed
  <2> QED
    BY <1>s, <2>3, <2>4, <2>5, <2>6
<1>13. ASSUME NEW p \in LgPids, NEW u \in LgUsers, LgLogin(p, u) PROVE LgInv'
  <2> DEFINE i == lgProc[p].line
             b == lgUtmp[i] # "none"
             g == [lgProc[p] EXCEPT !.kind = "shell", !.user = u, !.shown = b]
  <2>1. /\ lgProc[p].kind = "prompt" /\ lgProc' = [lgProc EXCEPT ![p] = g]
        /\ lgUtmp' = (IF b THEN [lgUtmp EXCEPT ![i] = u] ELSE lgUtmp)
        /\ lgOwner' = [lgOwner EXCEPT ![i] = u] /\ lgMesg' = lgMesg \ {i}
        /\ UNCHANGED <<lgTab, lgTask, lgInit, lgPid, lgHup, lgReload>>
    BY <1>13 DEF LgLogin
  <2>2. i = p /\ p \in LgLines /\ lgTask[p].pid = p /\ lgProc[p] \in LgRecs
    BY <1>t, <2>1 DEF OwnLine, Sessions, LgTypeOK
  <2>3. g \in LgRecs /\ g.kind = "shell" /\ g.line = p /\ g.user = u /\ (g.shown => b)
    <3>1. "shell" \in LgKinds /\ u \in LgUsers \cup {"root"} /\ b \in BOOLEAN
      BY DEF LgKinds
    <3> HIDE DEF b
    <3> QED
      BY <2>2, <3>1 DEF LgRecs
  <2> HIDE DEF g
  <2>4. /\ lgProc' \in [LgPids -> LgRecs] /\ lgProc'[p] = g
        /\ \A q \in LgPids \ {p} : lgProc'[q] = lgProc[q]
    BY <1>t, <2>1, <2>3 DEF LgTypeOK
  <2>5. LgTypeOK'
    BY <1>t, <2>1, <2>2, <2>4 DEF LgTypeOK
  <2>6. Reaped'
    <3>1. lgPid # p /\ lgInit # "boot"
      BY <1>t, <2>1, <2>2 DEF Reaped
    <3> QED
      BY <1>t, <1>l, <2>1, <2>4, <3>1 DEF Reaped
  <2>7. OwnLine'
    BY <1>t, <2>1, <2>2, <2>3, <2>4 DEF OwnLine, Sessions
  <2>8. ASSUME NEW r \in LgPids, lgProc'[r].kind \in {"taken", "prompt"}
        PROVE  r # p /\ lgProc'[r] = lgProc[r] /\ lgProc[r].line = r /\ r \in LgLines
    BY <1>t, <2>3, <2>4, <2>8 DEF OwnLine, Sessions
  <2>9. Closed'
    <3> SUFFICES ASSUME NEW r \in LgPids, lgProc'[r].kind \in {"taken", "prompt"}
                 PROVE  lgOwner'[lgProc'[r].line] = "root" /\ lgProc'[r].line \notin lgMesg'
      BY DEF Closed
    <3>1. lgProc'[r].line = r /\ r # i /\ r \in LgLines /\ lgOwner[r] = "root" /\ r \notin lgMesg
      BY <1>t, <2>2, <2>8 DEF Closed
    <3>2. lgOwner \in [LgLines -> LgUsers \cup {"root"}]
      BY <1>t DEF LgTypeOK
    <3> QED
      BY <2>1, <3>1, <3>2
  <2>10. PromptPrivate'
    <3> SUFFICES ASSUME NEW r \in LgPids, lgProc'[r].kind = "prompt",
                        NEW q \in LgPids \ {r}, Holds(q, lgProc[r].line)'
                 PROVE  lgProc'[q].user = "root"
      BY DEF PromptPrivate, Kind
    <3>1. r # p /\ lgProc'[r] = lgProc[r] /\ lgProc[r].line = r
      BY <2>8
    <3>2. q # p /\ lgProc'[q] = lgProc[q]
      BY <3>1, <2>3, <2>4 DEF Holds
    <3> QED
      BY <1>t, <3>1, <3>2 DEF PromptPrivate, Kind, Holds
  <2>11. SessionsTracked'
    <3>1. ASSUME NEW q \in LgPids, lgProc'[q].kind \in Sessions
          PROVE  lgTask'[lgProc'[q].line].pid = q
      BY <2>7, <3>1 DEF OwnLine
    <3>2. ASSUME NEW q \in LgPids, lgProc'[q].kind = "shell", lgProc'[q].shown
          PROVE  lgUtmp'[lgProc'[q].line] = lgProc'[q].user
      <4>1. CASE q = p
        <5>1. b /\ lgUtmp' = [lgUtmp EXCEPT ![p] = u]
          BY <4>1, <3>2, <2>1, <2>2, <2>3, <2>4
        <5> QED
          BY <1>t, <4>1, <5>1, <2>2, <2>3, <2>4 DEF LgTypeOK
      <4>2. CASE q # p
        <5>1. lgProc'[q] = lgProc[q] /\ lgProc[q].line = q
          BY <1>t, <3>2, <4>2, <2>4 DEF OwnLine, Sessions
        <5>2. lgUtmp[q] = lgProc[q].user
          BY <1>t, <3>2, <5>1 DEF SessionsTracked, Kind
        <5> QED
          BY <4>2, <5>1, <5>2, <2>1, <2>2
      <4> QED
        BY <4>1, <4>2
    <3> QED
      BY <3>1, <3>2 DEF SessionsTracked, Kind, Sessions
  <2> QED
    BY <1>s, <2>5, <2>6, <2>7, <2>9, <2>10, <2>11
<1>14. ASSUME NEW p \in LgLines, NEW q \in LgJobs, LgJob(p, q) PROVE LgInv'
  <2> DEFINE g == [lgProc[p] EXCEPT !.kind = "job", !.par = p, !.shown = FALSE]
  <2>1. /\ lgProc[p].kind = "shell" /\ lgProc' = [lgProc EXCEPT ![q] = g]
        /\ UNCHANGED <<lgTab, lgTask, lgInit, lgPid, lgHup, lgReload, lgOwner, lgMesg, lgUtmp>>
    BY <1>14 DEF LgJob
  <2>2. lgProc[p].line = p /\ p \in LgPids /\ q \in LgPids \ LgLines /\ lgProc[p] \in LgRecs
    BY <1>t, <1>l, <2>1 DEF OwnLine, Sessions, LgTypeOK
  <2>3. g \in LgRecs /\ g.kind = "job" /\ g.line = p
    <3>1. "job" \in LgKinds /\ p \in LgPids \cup {0} /\ FALSE \in BOOLEAN
      BY <2>2 DEF LgKinds
    <3> QED
      BY <2>2, <3>1 DEF LgRecs
  <2> HIDE DEF g
  <2>4. /\ lgProc' \in [LgPids -> LgRecs] /\ lgProc'[q] = g
        /\ \A r \in LgPids \ {q} : lgProc'[r] = lgProc[r]
    BY <1>t, <2>1, <2>2, <2>3 DEF LgTypeOK
  <2>5. LgTypeOK'
    BY <1>t, <2>1, <2>4 DEF LgTypeOK
  <2>6. Reaped'
    <3>1. lgInit # "boot"
      BY <1>t, <2>1, <2>2 DEF Reaped
    <3> QED
      BY <1>t, <1>l, <2>1, <2>2, <2>4, <3>1 DEF Reaped
  <2>7. OwnLine'
    BY <1>t, <2>1, <2>3, <2>4 DEF OwnLine, Sessions
  <2>8. Closed'
    BY <1>t, <2>1, <2>3, <2>4 DEF Closed
  <2>9. PromptPrivate'
    <3> SUFFICES ASSUME NEW r \in LgPids, lgProc'[r].kind = "prompt",
                        NEW h \in LgPids \ {r}, Holds(h, lgProc[r].line)'
                 PROVE  lgProc'[h].user = "root"
      BY DEF PromptPrivate, Kind
    <3>1. r # q /\ lgProc'[r] = lgProc[r]
      BY <2>3, <2>4
    <3>2. lgProc[r].line = r /\ r # p
      BY <1>t, <2>1, <3>1 DEF OwnLine, Sessions
    <3>3. h # q /\ lgProc'[h] = lgProc[h]
      BY <3>1, <3>2, <2>3, <2>4 DEF Holds
    <3> QED
      BY <1>t, <3>1, <3>3 DEF PromptPrivate, Kind, Holds
  <2>10. SessionsTracked'
    BY <1>t, <2>1, <2>3, <2>4 DEF SessionsTracked, Kind
  <2> QED
    BY <1>s, <2>5, <2>6, <2>7, <2>8, <2>9, <2>10
<1>15. ASSUME NEW p \in LgJobs, NEW i \in LgLines, LgWrite(p, i) PROVE LgInv'
  <2> DEFINE g == [lgProc[p] EXCEPT !.line = i]
  <2>1. /\ lgProc[p].kind = "job" /\ lgProc' = [lgProc EXCEPT ![p] = g]
        /\ lgOwner[i] = lgProc[p].user \/ i \in lgMesg
        /\ UNCHANGED <<lgTab, lgTask, lgInit, lgPid, lgHup, lgReload, lgOwner, lgMesg, lgUtmp>>
    BY <1>15, <1>t, <1>l DEF LgWrite, LgTypeOK
  <2>2. p \in LgPids \ LgLines /\ lgProc[p] \in LgRecs
    BY <1>t, <1>l DEF LgTypeOK
  <2>3. g \in LgRecs /\ g.kind = "job" /\ g.line = i /\ g.user = lgProc[p].user
    BY <2>1, <2>2 DEF LgRecs
  <2> HIDE DEF g
  <2>4. /\ lgProc' \in [LgPids -> LgRecs] /\ lgProc'[p] = g
        /\ \A r \in LgPids \ {p} : lgProc'[r] = lgProc[r]
    BY <1>t, <2>1, <2>2, <2>3 DEF LgTypeOK
  <2>5. LgTypeOK'
    BY <1>t, <2>1, <2>4 DEF LgTypeOK
  <2>6. Reaped'
    <3>1. lgInit # "boot"
      BY <1>t, <2>1, <2>2 DEF Reaped
    <3> QED
      BY <1>t, <1>l, <2>1, <2>2, <2>4, <3>1 DEF Reaped
  <2>7. OwnLine'
    BY <1>t, <2>1, <2>3, <2>4 DEF OwnLine, Sessions
  <2>8. Closed'
    BY <1>t, <2>1, <2>3, <2>4 DEF Closed
  <2>9. PromptPrivate'
    <3> SUFFICES ASSUME NEW r \in LgPids, lgProc'[r].kind = "prompt",
                        NEW h \in LgPids \ {r}, Holds(h, lgProc[r].line)'
                 PROVE  lgProc'[h].user = "root"
      BY DEF PromptPrivate, Kind
    <3>1. r # p /\ lgProc'[r] = lgProc[r]
      BY <2>3, <2>4
    <3>2. lgOwner[lgProc[r].line] = "root" /\ lgProc[r].line \notin lgMesg
      BY <1>t, <3>1 DEF Closed
    <3>3. CASE h = p
      BY <3>1, <3>2, <3>3, <2>1, <2>3, <2>4 DEF Holds
    <3>4. CASE h # p
      <4>1. lgProc'[h] = lgProc[h]
        BY <3>4, <2>4
      <4> QED
        BY <1>t, <3>1, <4>1 DEF PromptPrivate, Kind, Holds
    <3> QED
      BY <3>3, <3>4
  <2>10. SessionsTracked'
    BY <1>t, <2>1, <2>3, <2>4 DEF SessionsTracked, Kind
  <2> QED
    BY <1>s, <2>5, <2>6, <2>7, <2>8, <2>9, <2>10
<1>16. CASE UNCHANGED lgVars
  <2>1. UNCHANGED <<lgTab, lgTask, lgInit, lgPid, lgProc, lgOwner, lgMesg, lgUtmp>>
    BY <1>16 DEF lgVars
  <2>2. OwnLine' /\ Closed' /\ PromptPrivate' /\ SessionsTracked'
    BY <2>1, DeathsKeep DEF Stays
  <2> QED
    BY <2>1, <2>2, <1>s, <1>t DEF LgTypeOK, Reaped
<1>17. CASE LgInitStep
  BY <1>17, <1>1, <1>2, <1>3, <1>4, <1>5, <1>6 DEF LgInitStep
<1> QED
  BY <1>7, <1>8, <1>9, <1>10, <1>11, <1>12, <1>13, <1>14, <1>15, <1>16, <1>17 DEF LgNext

\* While login asks for a name no other user's process has the terminal, every
\* session is the one init has down for its line, and a session in utmp is
\* there under its user's name (login.c, init.c), for any number of lines,
\* users and jobs.
THEOREM SessionsCorrect == LgSpec => []SessionsExact
<1>1. LgInv => SessionsExact
  BY DEF LgInv
<1> QED
  BY <1>1, LgStartInv, LgNextInv, PTL DEF LgSpec

\* A table that switches a line off kills whoever holds it.
LEMMA LgOffStep ==
  ASSUME LgInv, [LgNext]_lgVars, NEW i \in LgLines, lgTask[i].set = "on", lgTask'[i].set = "off",
         NEW p \in LgPids \ LgLate
  PROVE  lgProc'[p].line # i \/ lgProc'[p].kind = "zombie"
<1>t. LgTypeOK /\ OwnLine /\ i # 0
  BY LoginAssumption DEF LgInv, LoginAssumption
<1>0. lgTask[i] \in LgTasks
  BY <1>t DEF LgTypeOK
<1>1. Readtab
  <2>1. CASE \E ok \in BOOLEAN : LgBoot(ok)
    BY <2>1 DEF LgBoot
  <2>2. CASE LgReread
    BY <2>2 DEF LgReread
  <2>3. ASSUME NEW j \in LgLines, NEW q \in LgLines, LgRespawn(j, q) PROVE lgTask'[i].set = lgTask[i].set
    <3>1. [lgTask[i] EXCEPT !.pid = q].set = lgTask[i].set
      BY <1>0 DEF LgTasks
    <3> QED
      BY <2>3, <3>1, <1>t DEF LgRespawn, LgTypeOK
  <2>4. ASSUME NEW n \in LgUsers \cup {""}, LgDead(n) PROVE lgTask'[i].set = lgTask[i].set
    <3>1. [lgTask[i] EXCEPT !.pid = 0].set = lgTask[i].set
      BY <1>0 DEF LgTasks
    <3> QED
      BY <2>4, <3>1 DEF LgDead
  <2>5. CASE UNCHANGED lgTask
    BY <2>5
  <2>6. CASE LgInitStep
    BY <2>1, <2>2, <2>3, <2>4, <2>5, <2>6 DEF LgInitStep, LgSingle, LgRespawned, LgWait
  <2> QED
    BY <2>5, <2>6 DEF LgNext, LgSighup, LgEnable, LgGetty, LgTake, LgReset, LgExit, LgMesg,
       LgLogin, LgJob, LgWrite, lgVars
<1>2. lgTab[i] = "off"
  <2>1. [lgTask[i] EXCEPT !.set = lgTab[i]].set = lgTab[i]
    BY <1>0 DEF LgTasks
  <2> QED
    BY <1>1, <2>1 DEF Readtab
<1>3. i \in Changed
  BY <1>2 DEF Changed
<1>4. lgProc \in [LgPids -> LgRecs] /\ lgProc' = Died(lgProc, Killed)
  BY <1>1, <1>t DEF Readtab, LgTypeOK
<1>5. CASE p \in Killed
  <2>1. lgProc'[p].line = 0
    BY <1>4, <1>5, DiedFields
  <2> QED
    BY <2>1, <1>t
<1>6. CASE p \notin Killed
  <2>1. lgProc'[p].kind = lgProc[p].kind /\ lgProc'[p].line = lgProc[p].line
    BY <1>4, <1>6, DiedFields
  <2>2. ~Holds(p, i) /\ lgProc[p].kind # "getty"
    <3>1. p \in LgPids \ {0} /\ p \notin LgLate
      BY LoginAssumption DEF LgPids, LoginAssumption
    <3>2. p \notin Killf(0, i)
      BY <1>3, <1>6 DEF Killed
    <3> QED
      BY <3>1, <3>2 DEF Killf, LgLate
  <2> QED
    BY <1>t, <2>1, <2>2 DEF Holds, OwnLine
<1> QED
  BY <1>5, <1>6

\* A line that a reload of the table switches off (readtab and killf in init.c)
\* has no process left but a getty that had not opened it yet.
THEOREM OffCorrect == LgSpec => OffIsOff
<1>1. LgInv /\ [LgNext]_lgVars =>
        [\A i \in LgLines : lgTask[i].set = "on" /\ lgTask'[i].set = "off"
           => \A p \in LgPids \ LgLate : lgProc'[p].line # i \/ lgProc'[p].kind = "zombie"]_lgVars
  BY LgOffStep
<1> QED
  BY <1>1, LgStartInv, LgNextInv, PTL DEF LgSpec, OffIsOff

----------------------------------------------------------------------------
(* malloc's heap.                                                           *)

\* What a program holds has a place and a size, and the block realloc will give
\* back is one of those.
HpRecords == [at : HpAddrs, units : Nat, short : BOOLEAN]
HeapInv ==
  /\ HeapTypeOK /\ BlocksApart /\ HeldBlocks
  /\ hLive \subseteq HpRecords
  /\ hWalk \in [at : Int, need : Int, want : Int, old : Int]
  /\ hWalk.old # -1 => \E x \in hLive : x.at = hWalk.old

\* Every set of addresses has a least one.
LEMMA LeastAddr ==
  ASSUME NEW T, T \subseteq Nat, T # {}
  PROVE  \E n \in T : \A m \in T : n <= m
<1> DEFINE R == OpToRel(<, Nat)
<1>1. IsWellFoundedOn(R, Nat)
  BY NatLessThanWellFounded
<1> HIDE DEF R
<1>2. PICK n \in T : \A m \in T : ~ (<<m, n>> \in R)
  BY <1>1, WFMin
<1>3. \A m \in T : <<m, n>> \in R <=> m < n
  BY DEF R, OpToRel
<1>4. \A m \in T : ~(m < n)
  BY <1>2, <1>3, Zenon
<1> QED
  BY <1>4, SMT

\* The facts about the heap that most steps need.
LEMMA HeapFacts ==
  ASSUME HeapInv
  PROVE  /\ HeapMax \in Nat /\ hBrk \in 0 .. HeapMax /\ hHeads \subseteq 0 .. HeapMax
         /\ \A a \in 0 .. HeapMax : hSize[a] \in Nat /\ hFree[a] \in BOOLEAN
         /\ \A a \in hHeads : a \in Int /\ hSize[a] \in Int /\ hSize[a] >= 1 /\ a + hSize[a] <= hBrk
         /\ hSize \in [0 .. HeapMax -> Nat] /\ hFree \in [0 .. HeapMax -> BOOLEAN]
         /\ hOthers \subseteq 0 .. hBrk - 1
         /\ \A x \in hLive : x.at \in hHeads /\ ~hFree[x.at] /\ x.units \in Nat
         /\ hWalk # NoWalk => /\ hWalk.at \in hHeads \cup {-2} /\ hWalk.want \in Nat
                              /\ hWalk.need = hWalk.want + 1
BY HeapAssumption DEF HeapAssumption, HeapInv, HeapTypeOK, HeldBlocks, HpAddrs, HpRecords

\* The same with the types apart.
LEMMA HeapTypes ==
  ASSUME HeapInv
  PROVE  /\ HeapMax \in Nat /\ hBrk \in 0 .. HeapMax /\ hHeads \subseteq 0 .. HeapMax
         /\ hSize \in [0 .. HeapMax -> Nat] /\ hFree \in [0 .. HeapMax -> BOOLEAN]
         /\ hOthers \subseteq 0 .. hBrk - 1
BY HeapFacts
LEMMA HeapSizes ==
  ASSUME HeapInv, NEW c \in hHeads
  PROVE  c \in Int /\ hSize[c] \in Int /\ hSize[c] >= 1 /\ c + hSize[c] <= hBrk
BY HeapFacts
LEMMA HeapApart ==
  ASSUME HeapInv, NEW c \in hHeads
  PROVE  /\ \A d \in hHeads : c < d => c + hSize[c] <= d
         /\ \A o \in hOthers : o < c \/ c + hSize[c] <= o
BY DEF HeapInv, BlocksApart

LEMMA HeapInitInv == HeapInit => HeapInv
BY HeapAssumption DEF HeapAssumption, HeapInit, HeapInv, HeapTypeOK, HpAddrs, NoWalk, BlocksApart, HeldBlocks

\* A walk begins at the first header.
LEMMA BeginInv ==
  ASSUME HeapInv, HpIdle, NEW w \in HpSizes, NEW old \in Int, HpBegin(w, old),
         old # -1 => \E x \in hLive : x.at = old,
         UNCHANGED <<hHeads, hSize, hFree, hBrk, hOthers, hLive>>
  PROVE  HeapInv'
<1>1. w \in Nat /\ hHeads \subseteq Nat
  BY HeapFacts, HeapAssumption DEF HeapAssumption
<1>2. ASSUME hHeads # {} PROVE \E a \in hHeads : HpFirst(a)
  <2>1. PICK a \in hHeads : \A c \in hHeads : a <= c
    BY <1>1, <1>2, LeastAddr
  <2>2. \A c \in hHeads : c >= a
    BY <1>1, <2>1
  <2> QED
    BY <2>2 DEF HpFirst
<1>3. ASSUME hHeads # {} PROVE (CHOOSE a \in hHeads : HpFirst(a)) \in hHeads
  BY <1>2, <1>3
<1>4. hWalk'.at \in hHeads \cup {-2} /\ hWalk'.want = w /\ hWalk'.need = w + 1 /\ hWalk'.old = old
      /\ hWalk' \in [at : Int, need : Int, want : Int, old : Int]
  <2> DEFINE at == IF hHeads = {} THEN -2 ELSE CHOOSE a \in hHeads : HpFirst(a)
  <2>1. at \in hHeads \cup {-2}
    BY <1>3
  <2>3. hWalk' = [at |-> at, need |-> w + 1, want |-> w, old |-> old]
    BY DEF HpBegin, Rounded
  <2> HIDE DEF at
  <2>2. at \in Int
    BY <1>1, <2>1
  <2> QED
    BY <1>1, <2>1, <2>2, <2>3
<1>5. HeapTypeOK'
  BY <1>1, <1>4 DEF HeapInv, HeapTypeOK
<1>6. BlocksApart' /\ HeldBlocks'
  BY DEF HeapInv, BlocksApart, HeldBlocks
<1> QED
  BY <1>4, <1>5, <1>6 DEF HeapInv

LEMMA MergeInv == ASSUME HeapInv, HpMerge PROVE HeapInv'
<1> DEFINE a == hWalk.at
<1>1. PICK b \in hHeads : /\ Merges(a, b) /\ a >= 0
                          /\ hHeads' = hHeads \ {b}
                          /\ hSize' = [hSize EXCEPT ![a] = @ + hSize[b], ![b] = 0]
                          /\ hFree' = [hFree EXCEPT ![b] = FALSE]
  BY DEF HpMerge
<1>2. UNCHANGED <<hBrk, hWalk, hOthers, hLive>>
  BY DEF HpMerge
<1>3. hFree[a] /\ hFree[b] /\ b > a /\ a + hSize[a] = b
  BY <1>1 DEF Merges, HpNext, Adjacent
<1>4. a \in hHeads
  BY <1>1, HeapFacts DEF NoWalk
<1> HIDE DEF a
<1>t. /\ HeapMax \in Nat /\ hBrk \in 0 .. HeapMax /\ hHeads \subseteq 0 .. HeapMax
      /\ hSize \in [0 .. HeapMax -> Nat] /\ hFree \in [0 .. HeapMax -> BOOLEAN]
      /\ hOthers \subseteq 0 .. hBrk - 1
  BY HeapTypes
<1>s. /\ a \in Int /\ hSize[a] \in Int /\ hSize[a] >= 1
      /\ b \in Int /\ hSize[b] \in Int /\ hSize[b] >= 1 /\ b + hSize[b] <= hBrk
  BY <1>4, HeapSizes
<1>5. /\ hSize'[a] = hSize[a] + hSize[b] /\ \A c \in hHeads' : c # a => hSize'[c] = hSize[c]
      /\ \A c \in hHeads' : hFree'[c] = hFree[c]
      /\ hSize' \in [0 .. HeapMax -> Nat] /\ hFree' \in [0 .. HeapMax -> BOOLEAN]
  <2>1. hSize' = [hSize EXCEPT ![a] = hSize[a] + hSize[b], ![b] = 0]
    BY <1>1
  <2>2. hFree' = [hFree EXCEPT ![b] = FALSE] /\ hHeads' = hHeads \ {b}
    BY <1>1
  <2>3. a \in 0 .. HeapMax /\ b \in 0 .. HeapMax /\ a # b /\ hSize[a] + hSize[b] \in Nat
    BY <1>3, <1>4, <1>t, <1>s
  <2>4. hSize' \in [0 .. HeapMax -> Nat] /\ hFree' \in [0 .. HeapMax -> BOOLEAN]
    BY <2>1, <2>2, <2>3, <1>t
  <2> QED
    BY <2>1, <2>2, <2>3, <2>4, <1>t
<1>6. \A c \in hHeads' : hSize'[c] >= 1 /\ c + hSize'[c] <= hBrk
  <2> SUFFICES ASSUME NEW c \in hHeads' PROVE hSize'[c] >= 1 /\ c + hSize'[c] <= hBrk
    OBVIOUS
  <2>1. c \in hHeads /\ c \in Int /\ hSize[c] \in Int /\ hSize[c] >= 1 /\ c + hSize[c] <= hBrk
    BY <1>1, HeapSizes
  <2>2. CASE c = a
    <3>1. hSize'[c] = hSize[a] + hSize[b]
      BY <1>5, <2>2
    <3> QED
      BY <1>3, <1>s, <2>2, <3>1
  <2>3. CASE c # a
    BY <1>5, <2>1, <2>3
  <2> QED
    BY <2>2, <2>3
<1>7. HeapTypeOK'
  <2>1. hWalk'.at \in hHeads'
    BY <1>1, <1>2, <1>3, <1>4, <1>s DEF a
  <2>2. hWalk.want \in Nat /\ hWalk.need = hWalk.want + 1 /\ hWalk.old \in Int
    BY <1>1, <1>s, HeapFacts DEF HeapInv, NoWalk, a
  <2> QED
    BY <1>1, <1>2, <1>5, <1>6, <1>t, <2>1, <2>2 DEF HeapTypeOK, HpAddrs
<1>8. BlocksApart'
  <2>2. ASSUME NEW c \in hHeads', NEW d \in hHeads', c < d PROVE c + hSize'[c] <= d
    <3>1. c \in hHeads /\ d \in hHeads /\ d # b /\ d \in Int /\ c \in Int
          /\ c + hSize[c] <= d /\ hSize[c] \in Int
      BY <1>1, <1>t, <2>2, HeapApart, HeapSizes
    <3>2. CASE c = a
      <4>1. b < d
        BY <1>3, <1>s, <2>2, <3>1, <3>2
      <4>2. b + hSize[b] <= d
        BY <3>1, <4>1, HeapApart
      <4> QED
        BY <1>3, <1>5, <1>s, <3>1, <3>2, <4>2
    <3> QED
      BY <1>5, <3>1, <3>2
  <2>3. ASSUME NEW c \in hHeads', NEW o \in hOthers PROVE o < c \/ c + hSize'[c] <= o
    <3>1. c \in hHeads /\ o \in Int /\ c \in Int /\ hSize[c] \in Int /\ (o < c \/ c + hSize[c] <= o)
      BY <1>1, <1>t, HeapApart, HeapSizes
    <3>2. o < b \/ b + hSize[b] <= o
      BY HeapApart
    <3>3. CASE c = a
      <4>1. hSize'[c] = hSize[a] + hSize[b]
        BY <1>5, <3>3
      <4> QED
        BY <1>3, <1>s, <3>1, <3>2, <3>3, <4>1
    <3>4. CASE c # a
      BY <1>5, <3>1, <3>4
    <3> QED
      BY <3>3, <3>4
  <2> QED
    BY <1>2, <2>2, <2>3 DEF BlocksApart
<1>9. HeldBlocks'
  <2>1. HeldBlocks
    BY DEF HeapInv
  <2>2. \A x \in hLive : x.at # b /\ x.at # a
    BY <1>3, <2>1 DEF HeldBlocks
  <2> QED
    BY <1>1, <1>2, <1>5, <2>1, <2>2 DEF HeldBlocks
<1> QED
  BY <1>2, <1>7, <1>8, <1>9 DEF HeapInv

\* The program gets the block at a in place of the one it gave back.
LEMMA GivenHeld ==
  ASSUME HeapInv, hWalk # NoWalk, NEW a \in HpAddrs, Given(a), hFree' = Freed(a) \/
           (\E f \in HpAddrs \ hHeads : f # a /\ hFree' = [Freed(a) EXCEPT ![f] = TRUE]),
         hWalk' = NoWalk, hHeads \subseteq hHeads', a \in hHeads',
         \A x \in hLive : x.at # a /\ hSize'[x.at] = hSize[x.at],
         hWalk.want < hSize'[a]
  PROVE  /\ HeldBlocks' /\ hLive' \subseteq HpRecords /\ hFree' \in [HpAddrs -> BOOLEAN]
         /\ hWalk' \in [at : Int, need : Int, want : Int, old : Int] /\ hWalk'.old = -1
<1> DEFINE new == [at |-> a, units |-> hWalk.want, short |-> FALSE]
           kept == {x \in hLive : x.at # hWalk.old}
<1>1. hLive' = kept \cup {new}
  BY DEF Given
<1>2. new \in HpRecords /\ new.at = a /\ new.units = hWalk.want
  BY HeapFacts DEF HpRecords
<1> HIDE DEF new
<1>3. hLive' \subseteq HpRecords
  BY <1>1, <1>2 DEF HeapInv
<1>4. Freed(a) \in [HpAddrs -> BOOLEAN]
  BY HeapFacts DEF Freed, HpAddrs
<1>5. hFree' \in [HpAddrs -> BOOLEAN]
  BY <1>4
<1>6. HeldBlocks /\ hHeads \subseteq HpAddrs
  BY DEF HeapInv, HeapTypeOK
<1>7. \A x \in kept : x.at \in HpAddrs /\ ~Freed(a)[x.at] /\ x.at # a
  <2>1. \A x \in kept : x.at \in hHeads /\ ~hFree[x.at] /\ x.at # a /\ x.at # hWalk.old
    BY <1>6 DEF HeldBlocks
  <2> QED
    BY <1>6, <2>1 DEF Freed, GivesBack
<1>8. ~Freed(a)[a]
  BY DEF Freed
<1>9. \A x \in hLive' : ~hFree'[x.at]
  <2>1. \A x \in hLive' : ~Freed(a)[x.at] /\ x.at \in hHeads \cup {a} /\ x.at \in HpAddrs
    BY <1>1, <1>2, <1>6, <1>7, <1>8 DEF HeldBlocks
  <2> QED
    BY <1>4, <2>1
<1>10. HeldBlocks'
  <2>1. \A x \in hLive' : x.at \in hHeads'
    BY <1>1, <1>2, <1>6 DEF HeldBlocks
  <2>2. \A x, y \in hLive' : x.at = y.at => x = y
    BY <1>1, <1>2, <1>6 DEF HeldBlocks
  <2>3. \A x \in hLive' : x.units < hSize'[x.at] \/ (x.short /\ x.units = hSize'[x.at])
    BY <1>1, <1>2, <1>6 DEF HeldBlocks
  <2> QED
    BY <1>9, <2>1, <2>2, <2>3 DEF HeldBlocks
<1> QED
  BY <1>3, <1>5, <1>10 DEF NoWalk

LEMMA SplitInv == ASSUME HeapInv, HpSplit PROVE HeapInv'
<1> DEFINE a == hWalk.at
           f == a + hWalk.need
<1>1. /\ a >= 0 /\ hFree[a] /\ hSize[a] >= hWalk.need + 1
      /\ hHeads' = hHeads \cup {f}
      /\ hSize' = [hSize EXCEPT ![a] = hWalk.need, ![f] = hSize[a] - hWalk.need]
      /\ hFree' = [Freed(a) EXCEPT ![f] = TRUE]
      /\ Given(a) /\ hWalk' = NoWalk /\ UNCHANGED <<hBrk, hOthers>>
  BY DEF HpSplit, Splits
<1>2. hWalk # NoWalk /\ a \in hHeads /\ hWalk.need \in Int /\ hWalk.need >= 1 /\ hWalk.want \in Nat
      /\ hWalk.need = hWalk.want + 1
  BY <1>1, HeapFacts, SMTT(30) DEF NoWalk
<1>t. /\ HeapMax \in Nat /\ hBrk \in 0 .. HeapMax /\ hHeads \subseteq 0 .. HeapMax
      /\ hSize \in [0 .. HeapMax -> Nat] /\ hFree \in [0 .. HeapMax -> BOOLEAN]
      /\ hOthers \subseteq 0 .. hBrk - 1
  BY HeapTypes
<1>s. a \in Int /\ hSize[a] \in Int /\ hSize[a] >= 1 /\ a + hSize[a] <= hBrk
  BY <1>2, HeapSizes
<1>n. hWalk.need \in Int
  BY <1>2
<1> HIDE DEF a
<1>3. f \in 0 .. HeapMax /\ a < f /\ f < a + hSize[a] /\ f \notin hHeads
  <2>1. hWalk.need >= 1 /\ hSize[a] >= hWalk.need + 1 /\ a >= 0
    BY <1>1, <1>2
  <2>2. a < f /\ f < a + hSize[a] /\ f \in 0 .. HeapMax
    <3>1. f = a + hWalk.need
      OBVIOUS
    <3> HIDE DEF f
    <3>2. a < f /\ f < a + hSize[a]
      BY <2>1, <3>1, <1>s, <1>n
    <3>3. f \in Int
      BY <3>1, <1>s, <1>n
    <3> QED
      BY <2>1, <3>2, <3>3, <1>t, <1>s
  <2>3. ASSUME f \in hHeads PROVE FALSE
    BY <1>2, <1>s, <2>2, <2>3, HeapApart
  <2> QED
    BY <2>2, <2>3
<1> HIDE DEF f
<1>f. f = a + hWalk.need
  BY DEF a, f
<1>g. hWalk.need >= 1 /\ hSize[a] >= hWalk.need + 1
  BY <1>1, <1>2
<1>4. /\ hSize'[a] = hWalk.need /\ hSize'[f] = hSize[a] - hWalk.need
      /\ \A c \in hHeads : c # a => hSize'[c] = hSize[c]
      /\ hSize' \in [0 .. HeapMax -> Nat]
  <2>1. hSize' = [hSize EXCEPT ![a] = hWalk.need, ![f] = hSize[a] - hWalk.need]
    BY <1>1
  <2>2. hWalk.need \in Nat /\ hSize[a] - hWalk.need \in Nat
    BY <1>g, <1>n, <1>s
  <2>3. a \in 0 .. HeapMax /\ a # f
    BY <1>2, <1>3, <1>s, <1>t
  <2> QED
    BY <1>3, <1>t, <2>1, <2>2, <2>3
<1>5. /\ HeldBlocks' /\ hLive' \subseteq HpRecords /\ hFree' \in [HpAddrs -> BOOLEAN]
      /\ hWalk' \in [at : Int, need : Int, want : Int, old : Int] /\ hWalk'.old = -1
  <2>1. a \in HpAddrs /\ f \in HpAddrs \ hHeads /\ f # a
    BY <1>2, <1>3, HeapFacts DEF HpAddrs
  <2>2. \A x \in hLive : x.at # a /\ hSize'[x.at] = hSize[x.at]
    <3>1. \A x \in hLive : x.at \in hHeads /\ ~hFree[x.at]
      BY HeapFacts
    <3>2. hFree[a]
      BY <1>1
    <3> QED
      BY <1>4, <3>1, <3>2
  <2>3. hHeads \subseteq hHeads' /\ a \in hHeads' /\ hWalk.want < hSize'[a]
    <3>1. hHeads \subseteq hHeads' /\ a \in hHeads'
      BY <1>1, <1>2
    <3>2. hSize'[a] = hWalk.want + 1 /\ hWalk.want \in Nat
      BY <1>2, <1>4
    <3> QED
      BY <3>1, <3>2
  <2>4. \E g \in HpAddrs \ hHeads : g # a /\ hFree' = [Freed(a) EXCEPT ![g] = TRUE]
    BY <1>1, <2>1
  <2> QED
    BY <1>1, <1>2, <2>1, <2>2, <2>3, <2>4, GivenHeld
<1>6. \A c \in hHeads' : hSize'[c] >= 1 /\ c + hSize'[c] <= hBrk
  <2> SUFFICES ASSUME NEW c \in hHeads' PROVE hSize'[c] >= 1 /\ c + hSize'[c] <= hBrk
    OBVIOUS
  <2>1. CASE c \in hHeads /\ c # a
    BY <1>4, <2>1, HeapSizes
  <2>2. CASE c = a
    <3>1. hSize'[c] = hWalk.need
      BY <1>4, <2>2
    <3>2. hBrk \in Int
      BY <1>t
    <3> QED
      BY <1>g, <1>n, <1>s, <2>2, <3>1, <3>2
  <2>3. CASE c = f
    <3>1. hSize'[c] = hSize[a] - hWalk.need /\ c = a + hWalk.need
      BY <1>4, <1>f, <2>3
    <3> QED
      BY <1>g, <1>n, <1>s, <3>1
  <2> QED
    BY <1>1, <2>1, <2>2, <2>3
<1>7. HeapTypeOK'
  <2>1. hHeads' \subseteq 0 .. HeapMax
    BY <1>1, <1>3, <1>t
  <2>2. hWalk' = NoWalk /\ hBrk' = hBrk /\ hOthers' = hOthers
    BY <1>1
  <2>3. hSize' \in [0 .. HeapMax -> Nat]
    BY <1>4
  <2> QED
    BY <1>5, <1>6, <1>t, <2>1, <2>2, <2>3 DEF HeapTypeOK, HpAddrs
<1>8. BlocksApart'
  <2>1. \A c \in hHeads' : (c \in hHeads /\ c # a) \/ c = a \/ c = f
    BY <1>1
  <2>2. ASSUME NEW c \in hHeads', NEW d \in hHeads', c < d PROVE c + hSize'[c] <= d
    <3>1. CASE c \in hHeads /\ c # a
      <4>1. c < a => c + hSize[c] <= a
        BY <1>2, <3>1, HeapApart
      <4>2. a < c => a + hSize[a] <= c
        BY <1>2, <3>1, HeapApart
      <4>3. d # f => c + hSize[c] <= d
        BY <1>1, <2>2, <3>1, HeapApart
      <4>4. c \in Int /\ hSize[c] \in Int
        BY <3>1, HeapSizes
      <4> QED
        <5>1. hSize'[c] = hSize[c] /\ (a < c \/ c < a) /\ (d = f \/ c + hSize[c] <= d)
          BY <1>4, <1>s, <3>1, <4>3, <4>4
        <5> QED
          BY <1>3, <1>s, <2>2, <4>1, <4>2, <4>4, <5>1
    <3>2. CASE c = a
      <4>1. d \in hHeads => a + hSize[a] <= d
        BY <1>2, <2>2, <3>2, HeapApart
      <4>2. d \in Int
        BY <1>1, <1>3, <1>t
      <4>3. hSize'[c] = hWalk.need /\ (d \in hHeads \/ d = a + hWalk.need)
        BY <1>1, <1>4, <1>f, <3>2
      <4> QED
        BY <1>g, <1>n, <1>s, <2>2, <3>2, <4>1, <4>2, <4>3
    <3>3. CASE c = f
      <4>1. d \in hHeads /\ a < d /\ d \in Int
        BY <1>1, <1>3, <1>s, <1>t, <2>2, <3>3
      <4>2. a + hSize[a] <= d
        BY <1>2, <4>1, HeapApart
      <4> QED
        <5>1. hSize'[c] = hSize[a] - hWalk.need /\ c = a + hWalk.need
          BY <1>4, <1>f, <3>3
        <5> QED
          BY <1>n, <1>s, <4>1, <4>2, <5>1
    <3> QED
      BY <2>1, <3>1, <3>2, <3>3
  <2>3. ASSUME NEW c \in hHeads', NEW o \in hOthers PROVE o < c \/ c + hSize'[c] <= o
    <3>1. (o < a \/ a + hSize[a] <= o) /\ o \in Int
      BY <1>2, <1>t, HeapApart
    <3>2. CASE c \in hHeads /\ c # a
      BY <1>4, <3>2, HeapApart
    <3>3. CASE c = a
      <4>1. hSize'[c] = hWalk.need
        BY <1>4, <3>3
      <4> QED
        BY <1>g, <1>n, <1>s, <3>1, <3>3, <4>1
    <3>4. CASE c = f
      <4>1. hSize'[c] = hSize[a] - hWalk.need /\ c = a + hWalk.need
        BY <1>4, <1>f, <3>4
      <4> QED
        BY <1>g, <1>n, <1>s, <3>1, <4>1
    <3> QED
      BY <2>1, <3>2, <3>3, <3>4
  <2> QED
    BY <1>1, <2>2, <2>3 DEF BlocksApart
<1> QED
  BY <1>5, <1>7, <1>8 DEF HeapInv

LEMMA TakeInvHp == ASSUME HeapInv, HpTake PROVE HeapInv'
<1> DEFINE a == hWalk.at
<1>1. /\ a >= 0 /\ hFree[a] /\ hSize[a] >= hWalk.need
      /\ hFree' = Freed(a) /\ Given(a) /\ hWalk' = NoWalk
      /\ UNCHANGED <<hHeads, hSize, hBrk, hOthers>>
  BY DEF HpTake
<1>2. hWalk # NoWalk /\ a \in hHeads /\ hWalk.want \in Nat /\ hWalk.need = hWalk.want + 1
  BY <1>1, HeapFacts DEF NoWalk
<1>3. /\ HeldBlocks' /\ hLive' \subseteq HpRecords /\ hFree' \in [HpAddrs -> BOOLEAN]
      /\ hWalk' \in [at : Int, need : Int, want : Int, old : Int] /\ hWalk'.old = -1
  <2>1. a \in HpAddrs /\ a \in hHeads'
    BY <1>1, <1>2, HeapFacts DEF HpAddrs
  <2>2. \A x \in hLive : x.at # a /\ hSize'[x.at] = hSize[x.at]
    BY <1>1, HeapFacts
  <2>3. hWalk.want < hSize'[a]
    BY <1>1, <1>2, HeapFacts
  <2> HIDE DEF a
  <2> QED
    BY <1>1, <1>2, <2>1, <2>2, <2>3, GivenHeld
<1>4. HeapTypeOK' /\ BlocksApart'
  BY <1>1, <1>3 DEF HeapInv, HeapTypeOK, BlocksApart
<1> QED
  BY <1>3, <1>4 DEF HeapInv

LEMMA AdvanceInv == ASSUME HeapInv, HpAdvance PROVE HeapInv'
<1>1. /\ hWalk.at >= 0 /\ UNCHANGED <<hHeads, hSize, hFree, hBrk, hOthers, hLive>>
      /\ \E b \in hHeads \cup {-2} : hWalk' = [hWalk EXCEPT !.at = b]
  BY DEF HpAdvance
<1>2. PICK b \in hHeads \cup {-2} : hWalk' = [hWalk EXCEPT !.at = b]
  BY <1>1
<1>3. hWalk # NoWalk /\ b \in Int
  BY <1>1, HeapFacts DEF NoWalk
<1>4. /\ hWalk' \in [at : Int, need : Int, want : Int, old : Int]
      /\ hWalk'.at = b /\ hWalk'.need = hWalk.need /\ hWalk'.want = hWalk.want /\ hWalk'.old = hWalk.old
  BY <1>2, <1>3 DEF HeapInv
<1>5. HeapTypeOK'
  BY <1>1, <1>3, <1>4 DEF HeapInv, HeapTypeOK
<1>6. BlocksApart' /\ HeldBlocks'
  BY <1>1 DEF HeapInv, BlocksApart, HeldBlocks
<1> QED
  BY <1>1, <1>4, <1>5, <1>6 DEF HeapInv

LEMMA GrowInv == ASSUME HeapInv, HpGrow PROVE HeapInv'
<1>1. hWalk # NoWalk /\ hWalk.want \in Nat /\ hWalk.need = hWalk.want + 1 /\ hWalk' = NoWalk
      /\ UNCHANGED hOthers
  BY HeapFacts DEF HpGrow, NoWalk
<1>2. CASE UNCHANGED <<hHeads, hSize, hFree, hBrk, hLive>>
  BY <1>1, <1>2 DEF HeapInv, HeapTypeOK, BlocksApart, HeldBlocks, NoWalk
<1>3. CASE /\ hBrk + hWalk.need <= HeapMax
           /\ hHeads' = hHeads \cup {hBrk} /\ hBrk' = hBrk + hWalk.need
           /\ hSize' = [hSize EXCEPT ![hBrk] = hWalk.need]
           /\ hFree' = Freed(hBrk) /\ Given(hBrk)
  <2>t. HeapMax \in Nat /\ hBrk \in 0 .. HeapMax
    BY HeapTypes
  <2>n. hBrk' = hBrk + hWalk.need /\ hBrk' <= HeapMax
    BY <1>3
  <2>u. hBrk' \in 0 .. HeapMax /\ hBrk < hBrk'
    BY <1>1, <2>t, <2>n
  <2>c. \A c \in hHeads : c < hBrk
    BY <2>t, HeapSizes
  <2>1. hBrk \in 0 .. HeapMax /\ hBrk' \in 0 .. HeapMax /\ hBrk < hBrk' /\ \A c \in hHeads : c < hBrk
    BY <2>t, <2>u, <2>c
  <2>2. /\ hSize'[hBrk] = hWalk.need /\ hSize' \in [0 .. HeapMax -> Nat]
        /\ \A c \in hHeads : hSize'[c] = hSize[c]
    BY <1>1, <1>3, <2>1, HeapTypes
  <2>3. /\ HeldBlocks' /\ hLive' \subseteq HpRecords /\ hFree' \in [HpAddrs -> BOOLEAN]
        /\ hWalk' \in [at : Int, need : Int, want : Int, old : Int] /\ hWalk'.old = -1
    <3>1. hBrk \in HpAddrs /\ hBrk \in hHeads' /\ hHeads \subseteq hHeads'
      BY <1>3, <2>1 DEF HpAddrs
    <3>2. \A x \in hLive : x.at # hBrk /\ hSize'[x.at] = hSize[x.at]
      BY <2>1, <2>2, HeapFacts
    <3>3. hWalk.want < hSize'[hBrk]
      BY <1>1, <2>2
    <3> QED
      BY <1>1, <1>3, <3>1, <3>2, <3>3, GivenHeld
  <2>4. \A c \in hHeads' : hSize'[c] >= 1 /\ c + hSize'[c] <= hBrk'
    <3> SUFFICES ASSUME NEW c \in hHeads' PROVE hSize'[c] >= 1 /\ c + hSize'[c] <= hBrk'
      OBVIOUS
    <3>1. CASE c \in hHeads
      <4>1. c \in Int /\ hSize[c] \in Int /\ hSize[c] >= 1 /\ c + hSize[c] <= hBrk
        BY <3>1, HeapSizes
      <4> QED
        BY <2>1, <2>2, <3>1, <4>1
    <3>2. CASE c = hBrk
      BY <1>1, <1>3, <2>1, <2>2, <3>2
    <3> QED
      BY <1>3, <3>1, <3>2
  <2>5. HeapTypeOK'
    <3>1. hHeads' \subseteq 0 .. HeapMax /\ hOthers' \subseteq 0 .. hBrk' - 1
      BY <1>1, <1>3, <2>1, HeapTypes
    <3> QED
      BY <1>1, <2>1, <2>2, <2>3, <2>4, <3>1 DEF HeapTypeOK, HpAddrs
  <2>6. BlocksApart'
    <3>1. BlocksApart
      BY DEF HeapInv
    <3>2. ASSUME NEW c \in hHeads', NEW d \in hHeads', c < d PROVE c + hSize'[c] <= d
      BY <1>3, <2>1, <2>2, <3>1, <3>2, HeapFacts DEF BlocksApart
    <3>3. ASSUME NEW c \in hHeads', NEW o \in hOthers PROVE o < c \/ c + hSize'[c] <= o
      BY <1>3, <2>1, <2>2, <3>1, HeapFacts DEF BlocksApart
    <3> QED
      BY <1>1, <3>2, <3>3 DEF BlocksApart
  <2> QED
    BY <2>3, <2>5, <2>6 DEF HeapInv
<1> QED
  BY <1>2, <1>3 DEF HpGrow

LEMMA FreeInv == ASSUME HeapInv, NEW x \in hLive, HpFree(x) PROVE HeapInv'
<1>1. /\ hFree' = [hFree EXCEPT ![x.at] = TRUE] /\ hLive' = hLive \ {x} /\ hWalk = NoWalk
      /\ UNCHANGED <<hHeads, hSize, hBrk, hWalk, hOthers>>
  BY DEF HpFree, HpIdle
<1>2. HeldBlocks'
  <2>1. HeldBlocks /\ hHeads \subseteq HpAddrs /\ hFree \in [HpAddrs -> BOOLEAN]
    BY DEF HeapInv, HeapTypeOK
  <2>2. \A y \in hLive' : y.at # x.at /\ y.at \in HpAddrs
    BY <1>1, <2>1 DEF HeldBlocks
  <2>3. \A y \in hLive' : hFree'[y.at] = hFree[y.at]
    BY <1>1, <2>1, <2>2
  <2> QED
    BY <1>1, <2>1, <2>3 DEF HeldBlocks
<1>3. HeapTypeOK' /\ BlocksApart'
  BY <1>1 DEF HeapInv, HeapTypeOK, BlocksApart
<1> QED
  BY <1>1, <1>2, <1>3 DEF HeapInv, NoWalk

LEMMA ReallocInv ==
  ASSUME HeapInv, NEW x \in hLive, NEW w \in HpSizes, Realloc(x, w) PROVE HeapInv'
<1>1. HpIdle /\ UNCHANGED <<hHeads, hSize, hFree, hBrk, hOthers>>
  BY DEF Realloc
<1>2. CASE HpBegin(w, x.at) /\ UNCHANGED hLive
  <2>1. x.at \in Int /\ \E y \in hLive : y.at = x.at
    BY HeapFacts
  <2> QED
    BY <1>1, <1>2, <2>1, BeginInv
<1>3. CASE /\ SameSize(x, w) /\ UNCHANGED hWalk
           /\ hLive' = (hLive \ {x}) \cup {[at |-> x.at, units |-> w, short |-> TRUE]}
  <2> DEFINE new == [at |-> x.at, units |-> w, short |-> TRUE]
  <2>0. w \in Nat /\ x.at \in HpAddrs
    BY HeapAssumption DEF HeapAssumption, HeapInv, HpRecords
  <2>1. new \in HpRecords /\ new.at = x.at /\ new.units = hSize[x.at] /\ new.short
    BY <1>3, <2>0 DEF SameSize, HpRecords
  <2>2. hLive' = (hLive \ {x}) \cup {new}
    BY <1>3
  <2> HIDE DEF new
  <2>3. hLive' \subseteq HpRecords
    BY <2>1, <2>2 DEF HeapInv
  <2>4. HeldBlocks'
    <3>1. HeldBlocks
      BY DEF HeapInv
    <3> QED
      BY <1>1, <2>1, <2>2, <3>1 DEF HeldBlocks
  <2>5. HeapTypeOK' /\ BlocksApart'
    BY <1>1, <1>3 DEF HeapInv, HeapTypeOK, BlocksApart
  <2>6. hWalk' = NoWalk
    BY <1>1, <1>3 DEF HpIdle
  <2> QED
    BY <2>3, <2>4, <2>5, <2>6 DEF HeapInv, NoWalk
<1> QED
  BY <1>2, <1>3 DEF Realloc

LEMMA SbrkInv == ASSUME HeapInv, NEW n \in OtherBrk, Sbrk(n) PROVE HeapInv'
<1>1. /\ hBrk + n <= HeapMax /\ hBrk' = hBrk + n /\ hWalk = NoWalk
      /\ hOthers' = hOthers \cup (hBrk .. hBrk + n - 1)
      /\ UNCHANGED <<hHeads, hSize, hFree, hWalk, hLive>>
  BY DEF Sbrk, HpIdle
<1>2. n \in Nat /\ n >= 1
  BY HeapAssumption DEF HeapAssumption
<1>3. HeapTypeOK'
  <2>1. hBrk' \in 0 .. HeapMax /\ hOthers' \subseteq 0 .. hBrk' - 1
    BY <1>1, <1>2, HeapFacts
  <2>2. \A a \in hHeads : hSize[a] >= 1 /\ a + hSize[a] <= hBrk'
    BY <1>1, <1>2, HeapFacts
  <2> QED
    BY <1>1, <2>1, <2>2, HeapFacts DEF HeapTypeOK, HpAddrs
<1>4. BlocksApart'
  <2>1. BlocksApart
    BY DEF HeapInv
  <2>2. ASSUME NEW c \in hHeads, NEW o \in hOthers' PROVE o < c \/ c + hSize[c] <= o
    BY <1>1, <1>2, <2>1, HeapFacts DEF BlocksApart
  <2> QED
    BY <1>1, <2>1, <2>2 DEF BlocksApart
<1>5. HeldBlocks'
  BY <1>1 DEF HeapInv, HeldBlocks
<1> QED
  BY <1>1, <1>3, <1>4, <1>5 DEF HeapInv

LEMMA HeapNextInv == HeapInv /\ [HeapNext]_heapVars => HeapInv'
<1> SUFFICES ASSUME HeapInv, [HeapNext]_heapVars PROVE HeapInv'
  OBVIOUS
<1>1. ASSUME NEW w \in HpSizes, Malloc(w) PROVE HeapInv'
  <2>1. HpIdle /\ HpBegin(w, -1) /\ UNCHANGED <<hHeads, hSize, hFree, hBrk, hOthers, hLive>>
    BY <1>1 DEF Malloc
  <2> QED
    BY <2>1, BeginInv
<1>2. CASE UNCHANGED heapVars
  BY <1>2 DEF heapVars, HeapInv, HeapTypeOK, BlocksApart, HeldBlocks
<1> QED
  BY <1>1, <1>2, MergeInv, SplitInv, TakeInvHp, AdvanceInv, GrowInv, FreeInv, ReallocInv, SbrkInv
     DEF HeapNext

\* No two blocks of malloc overlap, none lies over memory that somebody else has
\* from sbrk, and what a program holds is a block in use, its alone and large
\* enough for what it asked (malloc.c, free.c, realloc.c), however blocks are
\* split, merged, freed and reallocated and wherever memory ends; the exception
\* is the block that realloc (realloc.c:41) gives back as it was.
THEOREM HeapCorrect == HeapSpec => []HeapExact
<1>1. HeapInv => HeapExact
  BY DEF HeapInv, HeapExact
<1> QED
  BY <1>1, HeapInitInv, HeapNextInv, PTL DEF HeapSpec

----------------------------------------------------------------------------
(* /etc/mtab.                                                               *)

\* The slots that hold a directory, and the runs that are about to write its
\* entry and to free it.
SlotsOf(d)     == {i \in DOMAIN mtFile : mtFile[i] = d}
Writes(d) == {r \in MtRuns : mtRun[r].dir = d /\ mtRun[r].pc \in {"find", "write"}}
Frees(d)  == {r \in MtRuns : mtRun[r].dir = d /\ mtRun[r].pc \in {"clear", "zero"}}
MtStates  == [pc : {"none", "find", "write", "clear", "zero"}, dir : MtDirs \cup {"free"}, at : Nat]

\* A run has a directory and stands on a slot of the file or behind the last.
RunWhole(r) == LET m == mtRun[r]
               IN  IF m.pc = "none" THEN m.dir = "free"
                   ELSE m.dir \in MtDirs /\ m.at \in 1 .. Len(mtFile) + 1
MtTypeOK ==
  /\ mtFile \in Seq(MtDirs \cup {"free"}) /\ mtRun \in [MtRuns -> MtStates] /\ mtClash \in BOOLEAN
  /\ \A r \in MtRuns : RunWhole(r)

\* The entry that a run is to free is before it.
FreesIt(r, d) == IF mtRun[r].pc = "zero" THEN mtRun[r].at \in SlotsOf(d)
                 ELSE \E i \in SlotsOf(d) : i >= mtRun[r].at

\* A directory has one entry for its mount, unless that is still to be written,
\* and one for the mount before it that is still to be freed.
One(b) == IF b THEN 1 ELSE 0
EntriesOf(d) ==
  /\ \A r, q \in Writes(d) : r = q
  /\ \A r, q \in Frees(d) : r = q
  /\ Writes(d) # {} => d \in mtMounted
  /\ Cardinality(SlotsOf(d)) = One(d \in mtMounted /\ Writes(d) = {}) + One(Frees(d) # {})
  /\ \A r \in Frees(d) : FreesIt(r, d)
MtInv == MtTypeOK /\ (~mtClash => \A d \in MtDirs \ mtAstray : EntriesOf(d))

LEMMA MtFinite == ASSUME MtTypeOK, NEW d PROVE IsFiniteSet(SlotsOf(d)) /\ SlotsOf(d) \subseteq 1 .. Len(mtFile)
<1>1. Len(mtFile) \in Nat /\ DOMAIN mtFile = 1 .. Len(mtFile)
  BY DEF MtTypeOK
<1>2. IsFiniteSet(1 .. Len(mtFile))
  BY <1>1, FS_Interval
<1>3. SlotsOf(d) \subseteq 1 .. Len(mtFile)
  BY <1>1 DEF SlotsOf
<1> QED
  BY <1>2, <1>3, FS_Subset

\* What a step does to one directory: nothing changes if its entries, its runs
\* and its mount are the same.
LEMMA Undisturbed ==
  ASSUME NEW d, EntriesOf(d), SlotsOf(d)' = SlotsOf(d), Writes(d)' = Writes(d), Frees(d)' = Frees(d),
         d \in mtMounted' <=> d \in mtMounted,
         \A r \in Frees(d) : FreesIt(r, d)'
  PROVE  EntriesOf(d)'
BY DEF EntriesOf, One

\* The runs of a directory are the same when the run of another one moves.
LEMMA RunOfOthers ==
  ASSUME NEW r \in MtRuns, NEW e, mtRun[r].dir # e, mtRun'[r].dir # e,
         \A q \in MtRuns \ {r} : mtRun'[q] = mtRun[q]
  PROVE  /\ Writes(e)' = Writes(e) /\ Frees(e)' = Frees(e)
         /\ \A q \in Frees(e) : mtRun'[q] = mtRun[q]
BY DEF Writes, Frees

\* A step of one run that leaves the file and the mounts of other directories.
LEMMA OthersSame ==
  ASSUME NEW r \in MtRuns, NEW e, EntriesOf(e), mtRun[r].dir # e, mtRun'[r].dir # e,
         \A q \in MtRuns \ {r} : mtRun'[q] = mtRun[q],
         SlotsOf(e)' = SlotsOf(e), e \in mtMounted' <=> e \in mtMounted
  PROVE  EntriesOf(e)'
<1>1. Writes(e)' = Writes(e) /\ Frees(e)' = Frees(e) /\ \A q \in Frees(e) : mtRun'[q] = mtRun[q]
  BY RunOfOthers
<1>2. \A q \in Frees(e) : FreesIt(q, e)'
  BY <1>1 DEF EntriesOf, FreesIt
<1> QED
  BY <1>1, <1>2, Undisturbed

LEMMA MtInitInv == MtInit => MtInv
<1> SUFFICES ASSUME MtInit PROVE MtInv
  OBVIOUS
<1>1. MtTypeOK
  <2>1. mtRun \in [MtRuns -> MtStates]
    BY DEF MtInit, MtNone, MtStates
  <2>2. \A r \in MtRuns : RunWhole(r)
    BY DEF MtInit, MtNone, RunWhole
  <2>3. mtFile \in Seq(MtDirs \cup {"free"})
    BY DEF MtInit
  <2> QED
    BY <2>1, <2>2, <2>3 DEF MtInit, MtTypeOK
<1>2. ASSUME NEW d \in MtDirs PROVE EntriesOf(d)
  <2>1. SlotsOf(d) = {} /\ Writes(d) = {} /\ Frees(d) = {} /\ d \notin mtMounted
    BY DEF MtInit, MtNone, SlotsOf, Writes, Frees
  <2> QED
    BY <2>1, FS_EmptySet DEF EntriesOf, One
<1> QED
  BY <1>1, <1>2 DEF MtInv

\* The types of one run, and what the file is at its slot.
LEMMA MtFacts ==
  ASSUME MtTypeOK, NEW r \in MtRuns
  PROVE  /\ mtRun[r] \in MtStates /\ Len(mtFile) \in Nat /\ DOMAIN mtFile = 1 .. Len(mtFile)
         /\ mtRun[r].pc # "none" => mtRun[r].dir \in MtDirs /\ mtRun[r].at \in 1 .. Len(mtFile) + 1
         /\ mtRun[r].pc = "none" => mtRun[r].dir = "free"
         /\ \A i \in 1 .. Len(mtFile) : mtFile[i] \in MtDirs \cup {"free"}
         /\ mtRun[r].pc # "none" => (Slot(mtRun[r].at) = "end" <=> ~(mtRun[r].at <= Len(mtFile)))
         /\ "free" \notin MtDirs /\ "end" \notin MtDirs
<1>1. /\ mtRun[r] \in MtStates /\ Len(mtFile) \in Nat /\ DOMAIN mtFile = 1 .. Len(mtFile)
      /\ \A i \in 1 .. Len(mtFile) : mtFile[i] \in MtDirs \cup {"free"}
  BY DEF MtTypeOK
<1>2. /\ mtRun[r].pc # "none" => mtRun[r].dir \in MtDirs /\ mtRun[r].at \in 1 .. Len(mtFile) + 1
      /\ mtRun[r].pc = "none" => mtRun[r].dir = "free"
  BY DEF MtTypeOK, RunWhole
<1>3. "free" \notin MtDirs /\ "end" \notin MtDirs
  BY MtabAssumption DEF MtabAssumption
<1>4. ASSUME mtRun[r].pc # "none"
      PROVE  Slot(mtRun[r].at) = "end" <=> ~(mtRun[r].at <= Len(mtFile))
  <2>1. mtRun[r].at \in 1 .. Len(mtFile) + 1
    BY <1>2, <1>4
  <2>2. CASE mtRun[r].at <= Len(mtFile)
    <3>1. mtFile[mtRun[r].at] # "end"
      BY <1>1, <1>3, <2>1, <2>2
    <3> QED
      BY <2>2, <3>1 DEF Slot
  <2>3. CASE ~(mtRun[r].at <= Len(mtFile))
    BY <2>3 DEF Slot
  <2> QED
    BY <2>2, <2>3
<1> QED
  BY <1>1, <1>2, <1>3, <1>4

LEMMA XMountInv ==
  ASSUME MtInv, NEW r \in MtRuns, NEW d \in MtDirs, NEW ro \in BOOLEAN, XMount(r, d, ro)
  PROVE  MtInv'
<1> DEFINE m == [pc |-> "find", dir |-> d, at |-> 1]
<1>1. /\ mtRun[r].pc = "none" /\ d \notin mtMounted /\ mtMounted' = mtMounted \cup {d}
      /\ mtRun' = IF ro THEN mtRun ELSE [mtRun EXCEPT ![r] = m]
      /\ mtAstray' = IF ro THEN mtAstray \cup {d} ELSE mtAstray
      /\ UNCHANGED <<mtFile, mtClash>>
  BY DEF XMount
<1>2. MtTypeOK
  BY DEF MtInv
<1>3. mtRun \in [MtRuns -> MtStates] /\ Len(mtFile) \in Nat /\ mtRun[r].dir = "free" /\ d # "free"
  BY <1>1, <1>2, MtFacts DEF MtTypeOK
<1>4. m \in MtStates /\ m.dir \in MtDirs /\ m.at \in 1 .. Len(mtFile) + 1
  BY <1>3 DEF MtStates
<1>5. MtTypeOK'
  <2>1. mtRun' \in [MtRuns -> MtStates]
    BY <1>1, <1>3, <1>4
  <2>2. ASSUME NEW q \in MtRuns PROVE RunWhole(q)'
    BY <1>1, <1>2, <1>3, <1>4 DEF MtTypeOK, RunWhole
  <2> QED
    BY <1>1, <1>2, <2>1, <2>2 DEF MtTypeOK
<1>6. ASSUME ~mtClash, NEW e \in MtDirs \ mtAstray' PROVE EntriesOf(e)'
  <2>1. EntriesOf(e) /\ SlotsOf(e)' = SlotsOf(e)
    BY <1>1, <1>6 DEF MtInv, SlotsOf
  <2>2. \A q \in MtRuns \ {r} : mtRun'[q] = mtRun[q]
    BY <1>1, <1>3
  <2>3. mtRun'[r].dir \in {"free", d}
    BY <1>1, <1>3
  <2>4. CASE e # d
    BY <1>1, <1>3, <1>6, <2>1, <2>2, <2>3, <2>4, MtabAssumption, OthersSame DEF MtabAssumption
  <2>5. CASE e = d
    <3>1. ~ro /\ Writes(d) = {}
      BY <1>1, <1>6, <2>1, <2>5 DEF EntriesOf
    <3>2. mtRun'[r] = m /\ mtRun[r].pc = "none"
      BY <1>1, <1>3, <3>1
    <3>3. Writes(d)' = {r} /\ Frees(d)' = Frees(d) /\ r \notin Frees(d)
      BY <2>2, <3>1, <3>2 DEF Writes, Frees
    <3>4. \A q \in Frees(d) : FreesIt(q, d)'
      BY <2>1, <2>2, <2>5, <3>3 DEF EntriesOf, FreesIt, Frees
    <3> QED
      BY <1>1, <2>1, <2>5, <3>1, <3>3, <3>4 DEF EntriesOf, One
  <2> QED
    BY <2>4, <2>5
<1> QED
  BY <1>1, <1>5, <1>6 DEF MtInv

LEMMA UmountInv ==
  ASSUME MtInv, NEW r \in MtRuns, NEW d \in MtDirs, Umount(r, d) PROVE MtInv'
<1> DEFINE m == [pc |-> "clear", dir |-> d, at |-> 1]
<1>1. /\ mtRun[r].pc = "none" /\ d \in mtMounted /\ mtMounted' = mtMounted \ {d}
      /\ mtRun' = [mtRun EXCEPT ![r] = m]
      /\ mtAstray' = IF \E q \in MtRuns : mtRun[q].dir = d THEN mtAstray \cup {d} ELSE mtAstray
      /\ UNCHANGED <<mtFile, mtClash>>
  BY DEF Umount
<1>2. MtTypeOK
  BY DEF MtInv
<1>3. mtRun \in [MtRuns -> MtStates] /\ Len(mtFile) \in Nat /\ mtRun[r].dir = "free" /\ d # "free"
  BY <1>1, <1>2, MtFacts DEF MtTypeOK
<1>4. m \in MtStates /\ m.dir \in MtDirs /\ m.at \in 1 .. Len(mtFile) + 1
  BY <1>3 DEF MtStates
<1>5. MtTypeOK'
  <2>1. mtRun' \in [MtRuns -> MtStates]
    BY <1>1, <1>3, <1>4
  <2>2. ASSUME NEW q \in MtRuns PROVE RunWhole(q)'
    BY <1>1, <1>2, <1>3, <1>4 DEF MtTypeOK, RunWhole
  <2> QED
    BY <1>1, <1>2, <2>1, <2>2 DEF MtTypeOK
<1>6. ASSUME ~mtClash, NEW e \in MtDirs \ mtAstray' PROVE EntriesOf(e)'
  <2>1. EntriesOf(e) /\ SlotsOf(e)' = SlotsOf(e)
    BY <1>1, <1>6 DEF MtInv, SlotsOf
  <2>2. \A q \in MtRuns \ {r} : mtRun'[q] = mtRun[q]
    BY <1>1, <1>3
  <2>3. mtRun'[r] = m
    BY <1>1, <1>3
  <2>4. CASE e # d
    BY <1>1, <1>3, <1>6, <2>1, <2>2, <2>3, <2>4, MtabAssumption, OthersSame DEF MtabAssumption
  <2>5. CASE e = d
    <3>1. \A q \in MtRuns : mtRun[q].dir # d
      BY <1>1, <1>6, <2>5
    <3>2. Writes(d) = {} /\ Frees(d) = {}
      BY <3>1 DEF Writes, Frees
    <3>3. Writes(d)' = {} /\ Frees(d)' = {r}
      BY <2>2, <2>3, <3>1 DEF Writes, Frees
    <3>4. Cardinality(SlotsOf(d)) = 1
      BY <1>1, <2>1, <2>5, <3>2 DEF EntriesOf, One
    <3>5. PICK i \in SlotsOf(d) : TRUE
      BY <3>4, FS_EmptySet
    <3>6. i >= 1
      BY <1>2, <3>5, MtFinite
    <3>7. FreesIt(r, d)'
      BY <2>1, <2>3, <2>5, <3>5, <3>6 DEF FreesIt
    <3> QED
      BY <1>1, <2>1, <2>5, <3>3, <3>4, <3>7 DEF EntriesOf, One
  <2> QED
    BY <2>4, <2>5
<1> QED
  BY <1>1, <1>5, <1>6 DEF MtInv

LEMMA ReadSlotInv ==
  ASSUME MtInv, NEW r \in MtRuns, ReadSlot(r) PROVE MtInv'
<1> DEFINE m == mtRun[r]
           x == mtRun'[r]
           d == m.dir
<1>1. MtTypeOK /\ m.pc \in {"find", "clear"} /\ UNCHANGED <<mtMounted, mtFile, mtClash, mtAstray>>
  BY DEF MtInv, ReadSlot
<1>2. /\ m \in MtStates /\ Len(mtFile) \in Nat /\ DOMAIN mtFile = 1 .. Len(mtFile)
      /\ d \in MtDirs /\ m.at \in 1 .. Len(mtFile) + 1 /\ mtRun \in [MtRuns -> MtStates]
      /\ Slot(m.at) = "end" <=> ~(m.at <= Len(mtFile))
      /\ d # "free" /\ d # "end" /\ "free" \notin MtDirs
  BY <1>1, MtFacts DEF MtTypeOK
<1>3. /\ \A q \in MtRuns \ {r} : mtRun'[q] = mtRun[q]
      /\ mtRun' = [mtRun EXCEPT ![r] = x]
      /\ \/ ~Stops(r) /\ x = [m EXCEPT !.at = @ + 1]
         \/ Stops(r) /\ m.pc = "find" /\ x = [m EXCEPT !.pc = "write"]
         \/ Stops(r) /\ m.pc = "clear" /\ Slot(m.at) = "end" /\ x = MtNone
         \/ Stops(r) /\ m.pc = "clear" /\ Slot(m.at) # "end" /\ x = [m EXCEPT !.pc = "zero"]
  <2>1. CASE ~Stops(r)
    <3>1. mtRun' = [mtRun EXCEPT ![r].at = @ + 1]
      BY <2>1 DEF ReadSlot
    <3> QED
      BY <1>2, <2>1, <3>1
  <2>2. CASE Stops(r) /\ m.pc = "find"
    <3>1. mtRun' = [mtRun EXCEPT ![r].pc = "write"]
      BY <2>2 DEF ReadSlot
    <3> QED
      BY <1>2, <2>2, <3>1
  <2>3. CASE Stops(r) /\ m.pc # "find" /\ Slot(m.at) = "end"
    <3>1. mtRun' = [mtRun EXCEPT ![r] = MtNone]
      BY <2>3 DEF ReadSlot
    <3> QED
      BY <1>1, <1>2, <2>3, <3>1
  <2>4. CASE Stops(r) /\ m.pc # "find" /\ Slot(m.at) # "end"
    <3>1. mtRun' = [mtRun EXCEPT ![r].pc = "zero"]
      BY <2>4 DEF ReadSlot
    <3> QED
      BY <1>1, <1>2, <2>4, <3>1
  <2> QED
    BY <2>1, <2>2, <2>3, <2>4
<1>4. Stops(r) <=> Slot(m.at) \in {"end", IF m.pc = "find" THEN "free" ELSE d}
  BY <1>1 DEF Stops, Sought
<1>5. ~Stops(r) => m.at + 1 \in 1 .. Len(mtFile) + 1
  BY <1>2, <1>4
<1>6. MtTypeOK'
  <2>1. x \in MtStates
    BY <1>2, <1>3 DEF MtStates, MtNone
  <2>2. mtRun' \in [MtRuns -> MtStates]
    BY <1>2, <1>3, <2>1
  <2>3. RunWhole(r)'
    BY <1>1, <1>2, <1>3, <1>5 DEF RunWhole, MtNone, MtStates
  <2>4. ASSUME NEW q \in MtRuns \ {r} PROVE RunWhole(q)'
    BY <1>1, <1>3 DEF MtTypeOK, RunWhole
  <2> QED
    BY <1>1, <2>2, <2>3, <2>4 DEF MtTypeOK
<1>7. ASSUME ~mtClash, NEW e \in MtDirs \ mtAstray PROVE EntriesOf(e)'
  <2>1. EntriesOf(e) /\ SlotsOf(e)' = SlotsOf(e)
    BY <1>1, <1>7 DEF MtInv, SlotsOf
  <2>2. CASE e # d
    <3>1. x.dir # e
      BY <1>2, <1>3, <1>7, <2>2 DEF MtNone, MtStates
    <3> QED
      BY <1>1, <1>3, <2>1, <2>2, <3>1, OthersSame
  <2>3. CASE e = d
    <3>1. ASSUME m.pc = "clear" PROVE \E i \in SlotsOf(e) : i >= m.at /\ i \in 1 .. Len(mtFile)
      <4>1. r \in Frees(e)
        BY <2>3, <3>1 DEF Frees
      <4>2. FreesIt(r, e)
        BY <2>1, <2>3, <4>1 DEF EntriesOf
      <4> QED
        BY <1>1, <3>1, <4>2, MtFinite DEF FreesIt
    <3>2. x # MtNone
      BY <1>2, <1>3, <3>1 DEF MtNone, MtStates
    <3>3. x.dir = e /\ (m.pc = "find" <=> x.pc \in {"find", "write"})
          /\ (m.pc = "clear" <=> x.pc \in {"clear", "zero"})
      BY <1>1, <1>2, <1>3, <2>3, <3>2 DEF MtStates
    <3>4. Writes(e)' = Writes(e) /\ Frees(e)' = Frees(e)
      BY <1>1, <1>3, <2>3, <3>3 DEF Writes, Frees
    <3>5. \A q \in Frees(e) : FreesIt(q, e)'
      <4>1. ASSUME NEW q \in Frees(e), q # r PROVE FreesIt(q, e)'
        BY <1>3, <2>1, <2>3, <4>1 DEF EntriesOf, FreesIt, Frees
      <4>2. ASSUME r \in Frees(e) PROVE FreesIt(r, e)'
        <5>1. m.pc = "clear"
          BY <1>1, <4>2 DEF Frees
        <5>2. CASE ~Stops(r)
          <6>1. PICK i \in SlotsOf(e) : i >= m.at /\ i \in 1 .. Len(mtFile)
            BY <3>1, <5>1
          <6>2. i # m.at
            BY <1>2, <1>4, <2>3, <5>1, <5>2, <6>1 DEF Slot, SlotsOf
          <6>3. x.pc = "clear" /\ x.at = m.at + 1
            BY <1>2, <1>3, <5>1, <5>2 DEF MtStates
          <6>4. i >= x.at
            BY <1>2, <6>1, <6>2, <6>3
          <6> QED
            BY <2>1, <2>3, <6>1, <6>3, <6>4 DEF FreesIt
        <5>3. CASE Stops(r)
          <6>1. Slot(m.at) = d /\ x.pc = "zero" /\ x.at = m.at
            BY <1>2, <1>3, <1>4, <3>2, <5>1, <5>3 DEF MtStates
          <6>2. m.at \in SlotsOf(e)
            BY <1>2, <2>3, <6>1 DEF Slot, SlotsOf
          <6> QED
            BY <2>1, <2>3, <6>1, <6>2 DEF FreesIt
        <5> QED
          BY <5>2, <5>3
      <4> QED
        BY <4>1, <4>2
    <3> QED
      BY <1>1, <2>1, <2>3, <3>4, <3>5, Undisturbed
  <2> QED
    BY <2>2, <2>3
<1> QED
  BY <1>1, <1>6, <1>7 DEF MtInv

LEMMA MtKillInv ==
  ASSUME MtInv, NEW r \in MtRuns, MtKill(r) PROVE MtInv'
<1>1. /\ MtTypeOK /\ mtRun[r].pc # "none" /\ mtAstray' = mtAstray \cup {mtRun[r].dir}
      /\ mtRun' = [mtRun EXCEPT ![r] = MtNone] /\ UNCHANGED <<mtMounted, mtFile, mtClash>>
  BY DEF MtInv, MtKill
<1>2. mtRun \in [MtRuns -> MtStates] /\ MtNone \in MtStates
  BY <1>1 DEF MtTypeOK, MtNone, MtStates
<1>3. mtRun'[r] = MtNone /\ \A q \in MtRuns \ {r} : mtRun'[q] = mtRun[q]
  BY <1>1, <1>2
<1>4. MtTypeOK'
  <2>1. mtRun' \in [MtRuns -> MtStates]
    BY <1>1, <1>2
  <2>2. ASSUME NEW q \in MtRuns PROVE RunWhole(q)'
    BY <1>1, <1>3 DEF MtTypeOK, RunWhole, MtNone
  <2> QED
    BY <1>1, <2>1, <2>2 DEF MtTypeOK
<1>5. ASSUME ~mtClash, NEW e \in MtDirs \ mtAstray' PROVE EntriesOf(e)'
  <2>1. EntriesOf(e) /\ SlotsOf(e)' = SlotsOf(e) /\ e # mtRun[r].dir
    BY <1>1, <1>5 DEF MtInv, SlotsOf
  <2>2. mtRun'[r].dir # e
    BY <1>3, <1>5, MtabAssumption DEF MtabAssumption, MtNone
  <2> QED
    BY <1>1, <1>3, <2>1, <2>2, OthersSame
<1> QED
  BY <1>1, <1>4, <1>5 DEF MtInv

\* What a write does to the entries of each directory, unless it clashes.
LEMMA SlotWritten ==
  ASSUME MtTypeOK, NEW at \in 1 .. Len(mtFile) + 1, NEW c \in MtDirs \cup {"free"},
         mtFile' = Stored(mtFile, at, c)
  PROVE  /\ mtFile' \in Seq(MtDirs \cup {"free"}) /\ Len(mtFile') >= Len(mtFile)
         /\ Len(mtFile) \in Nat /\ Len(mtFile') \in Nat
         /\ \A e \in MtDirs :
              SlotsOf(e)' = IF c = e THEN SlotsOf(e) \cup {at} ELSE SlotsOf(e) \ {at}
<1>1. /\ mtFile \in Seq(MtDirs \cup {"free"}) /\ Len(mtFile) \in Nat
      /\ DOMAIN mtFile = 1 .. Len(mtFile)
  BY DEF MtTypeOK
<1>2. CASE at <= Len(mtFile)
  <2>1. mtFile' = [mtFile EXCEPT ![at] = c]
    BY <1>2 DEF Stored
  <2>2. mtFile' \in Seq(MtDirs \cup {"free"}) /\ Len(mtFile') = Len(mtFile)
        /\ DOMAIN mtFile' = 1 .. Len(mtFile)
    <3>1. at \in 1 .. Len(mtFile)
      BY <1>1, <1>2
    <3>2. Len(mtFile') = Len(mtFile) /\ mtFile' \in Seq(MtDirs \cup {"free"})
      BY <1>1, <2>1, <3>1
    <3> QED
      BY <1>1, <2>1, <3>2
  <2>3. ASSUME NEW e \in MtDirs
        PROVE  SlotsOf(e)' = IF c = e THEN SlotsOf(e) \cup {at} ELSE SlotsOf(e) \ {at}
    BY <1>1, <1>2, <2>1, <2>2 DEF SlotsOf
  <2> QED
    BY <1>1, <2>2, <2>3
<1>3. CASE ~(at <= Len(mtFile))
  <2>1. at = Len(mtFile) + 1 /\ mtFile' = Append(mtFile, c)
    BY <1>1, <1>3 DEF Stored
  <2>2. /\ mtFile' \in Seq(MtDirs \cup {"free"}) /\ Len(mtFile') = Len(mtFile) + 1
        /\ DOMAIN mtFile' = 1 .. Len(mtFile) + 1
        /\ mtFile'[at] = c /\ \A i \in 1 .. Len(mtFile) : mtFile'[i] = mtFile[i]
    BY <1>1, <2>1
  <2>3. ASSUME NEW e \in MtDirs
        PROVE  SlotsOf(e)' = IF c = e THEN SlotsOf(e) \cup {at} ELSE SlotsOf(e) \ {at}
    BY <1>1, <2>1, <2>2 DEF SlotsOf
  <2> QED
    BY <1>1, <2>2, <2>3
<1> QED
  BY <1>2, <1>3

LEMMA WriteSlotInv ==
  ASSUME MtInv, NEW r \in MtRuns, WriteSlot(r) PROVE MtInv'
<1> DEFINE m == mtRun[r]
           c == IF m.pc = "write" THEN m.dir ELSE "free"
<1>1. /\ MtTypeOK /\ m.pc \in {"write", "zero"} /\ mtFile' = Stored(mtFile, m.at, c)
      /\ mtClash' = (mtClash \/ Slot(m.at) \notin {"end", Sought(m)})
      /\ mtRun' = [mtRun EXCEPT ![r] = MtNone] /\ UNCHANGED <<mtMounted, mtAstray>>
  BY DEF MtInv, WriteSlot
<1>2. /\ m \in MtStates /\ Len(mtFile) \in Nat /\ DOMAIN mtFile = 1 .. Len(mtFile)
      /\ m.dir \in MtDirs /\ m.at \in 1 .. Len(mtFile) + 1 /\ mtRun \in [MtRuns -> MtStates]
      /\ Slot(m.at) = "end" <=> ~(m.at <= Len(mtFile))
      /\ "free" \notin MtDirs /\ "end" \notin MtDirs
  BY <1>1, MtFacts DEF MtTypeOK
<1>3. mtRun'[r] = MtNone /\ \A q \in MtRuns \ {r} : mtRun'[q] = mtRun[q]
  BY <1>1, <1>2
<1>4. c \in MtDirs \cup {"free"}
  BY <1>2
<1>5. /\ mtFile' \in Seq(MtDirs \cup {"free"}) /\ Len(mtFile') >= Len(mtFile) /\ Len(mtFile') \in Nat
      /\ \A e \in MtDirs :
           SlotsOf(e)' = IF c = e THEN SlotsOf(e) \cup {m.at} ELSE SlotsOf(e) \ {m.at}
  BY <1>1, <1>2, <1>4, SlotWritten
<1>6. MtTypeOK'
  <2>1. mtRun' \in [MtRuns -> MtStates]
    BY <1>1, <1>2 DEF MtNone, MtStates
  <2>2. ASSUME NEW q \in MtRuns PROVE RunWhole(q)'
    <3>1. CASE q = r
      BY <1>3, <3>1 DEF RunWhole, MtNone
    <3>2. CASE q # r
      <4>1. RunWhole(q) /\ mtRun'[q] = mtRun[q] /\ mtRun[q] \in MtStates
        BY <1>1, <1>2, <1>3, <3>2 DEF MtTypeOK
      <4> QED
        BY <1>2, <1>5, <4>1 DEF RunWhole
    <3> QED
      BY <3>1, <3>2
  <2>3. mtClash' \in BOOLEAN
    BY <1>1 DEF MtTypeOK
  <2> QED
    BY <1>5, <2>1, <2>2, <2>3 DEF MtTypeOK
<1>7. ASSUME ~mtClash', NEW e \in MtDirs \ mtAstray' PROVE EntriesOf(e)'
  <2>1. EntriesOf(e) /\ e \in MtDirs
    BY <1>1, <1>7 DEF MtInv
  <2>2. Slot(m.at) \in {"end", IF m.pc = "write" THEN "free" ELSE m.dir}
    BY <1>1, <1>7 DEF Sought
  <2>3. \A i \in SlotsOf(e) : i = m.at => Slot(m.at) = e
    BY <1>2 DEF SlotsOf, Slot
  <2>4. CASE e # m.dir
    <3>1. m.at \notin SlotsOf(e) /\ c # e
      BY <1>1, <1>2, <1>7, <2>2, <2>3, <2>4
    <3>2. SlotsOf(e)' = SlotsOf(e)
      BY <1>5, <2>1, <3>1
    <3>3. mtRun'[r].dir # e
      BY <1>2, <1>3, <2>1 DEF MtNone
    <3> QED
      BY <1>1, <1>3, <2>1, <2>4, <3>2, <3>3, OthersSame
  <2>5. CASE e = m.dir /\ m.pc = "write"
    <3>1. m.at \notin SlotsOf(e) /\ SlotsOf(e)' = SlotsOf(e) \cup {m.at}
      BY <1>2, <1>5, <2>1, <2>2, <2>3, <2>5
    <3>2. r \in Writes(e) /\ r \notin Frees(e)
      BY <2>5 DEF Writes, Frees
    <3>3. Writes(e)' = {} /\ Frees(e)' = Frees(e)
      BY <1>3, <2>1, <3>2 DEF Writes, Frees, MtNone, EntriesOf
    <3>4. e \in mtMounted /\ e \in mtMounted'
      BY <1>1, <2>1, <3>2 DEF EntriesOf
    <3>5. Cardinality(SlotsOf(e)') = Cardinality(SlotsOf(e)) + 1
      <4>1. IsFiniteSet(SlotsOf(e))
        BY <1>1, MtFinite
      <4>2. Cardinality(SlotsOf(e) \cup {m.at}) = Cardinality(SlotsOf(e)) + 1
        BY <3>1, <4>1, FS_AddElement
      <4> QED
        BY <3>1, <4>2
    <3>6. \A q \in Frees(e) : FreesIt(q, e)'
      BY <1>3, <2>1, <3>1, <3>2 DEF EntriesOf, FreesIt, Frees
    <3>7. Cardinality(SlotsOf(e)') = 1 + One(Frees(e) # {})
      <4>1. Cardinality(SlotsOf(e)) = One(Frees(e) # {})
        BY <2>1, <3>2 DEF EntriesOf, One
      <4> QED
        BY <3>5, <4>1 DEF One
    <3> QED
      BY <2>1, <3>3, <3>4, <3>6, <3>7 DEF EntriesOf, One
  <2>6. CASE e = m.dir /\ m.pc = "zero"
    <3>1. r \in Frees(e) /\ r \notin Writes(e)
      BY <2>6 DEF Frees, Writes
    <3>2. m.at \in SlotsOf(e)
      BY <2>1, <2>6, <3>1 DEF EntriesOf, FreesIt
    <3>3. SlotsOf(e)' = SlotsOf(e) \ {m.at}
      BY <1>2, <1>5, <2>1, <2>6
    <3>4. Writes(e)' = Writes(e) /\ Frees(e)' = {}
      BY <1>3, <2>1, <3>1 DEF Writes, Frees, MtNone, EntriesOf
    <3>5. Cardinality(SlotsOf(e)') = Cardinality(SlotsOf(e)) - 1
      <4>1. IsFiniteSet(SlotsOf(e))
        BY <1>1, MtFinite
      <4>2. Cardinality(SlotsOf(e) \ {m.at}) = Cardinality(SlotsOf(e)) - 1
        BY <3>2, <4>1, FS_RemoveElement
      <4> QED
        BY <3>3, <4>2
    <3>6. Cardinality(SlotsOf(e)') = One(e \in mtMounted /\ Writes(e) = {})
      <4>1. Cardinality(SlotsOf(e)) = One(e \in mtMounted /\ Writes(e) = {}) + 1
        BY <2>1, <3>1 DEF EntriesOf, One
      <4> QED
        BY <3>5, <4>1 DEF One
    <3> QED
      BY <1>1, <2>1, <3>4, <3>6 DEF EntriesOf, One
  <2> QED
    BY <1>1, <2>4, <2>5, <2>6
<1> QED
  BY <1>1, <1>6, <1>7 DEF MtInv

LEMMA MtNextInv == MtInv /\ [MtNext]_mtVars => MtInv'
<1> SUFFICES ASSUME MtInv, [MtNext]_mtVars PROVE MtInv'
  OBVIOUS
<1>1. CASE UNCHANGED mtVars
  <2>1. MtTypeOK'
    BY <1>1 DEF mtVars, MtInv, MtTypeOK, RunWhole
  <2>2. \A d \in MtDirs \ mtAstray : EntriesOf(d) => EntriesOf(d)'
    BY <1>1 DEF mtVars, EntriesOf, SlotsOf, Writes, Frees, FreesIt
  <2> QED
    BY <1>1, <2>1, <2>2 DEF mtVars, MtInv
<1> QED
  BY <1>1, XMountInv, UmountInv, ReadSlotInv, WriteSlotInv, MtKillInv DEF MtNext

\* When no run of mount or umount is under way, /etc/mtab has one entry for every
\* mounted directory and none for another (mount.c, umount.c), though any number
\* of runs read and write it without a lock; the exceptions are those of
\* MtabExact.
THEOREM MtabCorrect == MtSpec => []MtabExact
<1>1. MtInv => MtabExact
  <2> SUFFICES ASSUME MtInv, ~mtClash, \A r \in MtRuns : mtRun[r].pc = "none",
                      NEW d \in MtDirs \ mtAstray
               PROVE  Cardinality({i \in DOMAIN mtFile : mtFile[i] = d}) =
                        IF d \in mtMounted THEN 1 ELSE 0
    BY DEF MtabExact
  <2>1. EntriesOf(d)
    BY DEF MtInv
  <2>2. Writes(d) = {} /\ Frees(d) = {}
    BY DEF Writes, Frees
  <2> QED
    BY <2>1, <2>2 DEF EntriesOf, SlotsOf, One
<1> QED
  BY <1>1, MtInitInv, MtNextInv, PTL DEF MtSpec

----------------------------------------------------------------------------
(* The shell.                                                               *)

\* What a process of the shell is, the stages of its pipeline that it is still
\* to start (left) among those of the pipeline (stage).
ShStates == [st : {"none", "excom", "prog", "zombie"}, job : {"none", "fg", "bg", "stage", "init"},
             left : Nat, stage : Nat, in : Nat, out : Nat, fds : SUBSET (Nat \X {"r", "w"}),
             code : Nat]
StagesLeft(p) ==
  ShRunning(p) => /\ 1 <= shProc[p].left /\ shProc[p].left <= shProc[p].stage
                  /\ shProc[p].st = "prog" => shProc[p].left = 1
                  /\ shProc[p].left > 1 => shProc[p].fds = {} /\ shProc[p].out = tty

\* A process writes to the pipe that another reads only if its stage is to the
\* left of the next one the reader starts.
LeftOf(w, p) ==
  (ShRunning(p) /\ shProc[p].in # tty /\ <<shProc[p].in, "w">> \in Ends(w))
    => shProc[w].stage < shProc[p].stage - shProc[p].left + 1
StagesInv ==
  /\ shProc \in [ShPids -> ShStates]
  /\ \A p \in ShPids : StagesLeft(p)
  /\ \A p, w \in ShPids : LeftOf(w, p)

\* While the shell waits, the process it waits for has not been taken up, and
\* when that has ended its status is the one to report.
StatusInv ==
  /\ shPc \in {"main", "read", "run"} => shLast = shWant
  /\ shPc = "wait" => /\ shFg \in ShPids /\ shProc[shFg].job = "fg" /\ shProc[shFg].st # "none"
                      /\ shProc[shFg].st = "zombie" => shProc[shFg].code = shWant
ShInv == StagesInv /\ StatusInv

\* What is chosen as the next free process or pipe is one of them.
LEMMA FreshIn ==
  ASSUME NEW T, T \subseteq Nat, T # {} PROVE Fresh(T) \in T
BY LeastAddr DEF Fresh

LEMMA ShInitInv == ShInit => ShInv
<1> SUFFICES ASSUME ShInit PROVE ShInv
  OBVIOUS
<1>1. shProc \in [ShPids -> ShStates]
  BY DEF ShInit, Nobody, tty, ShStates
<1>2. \A p \in ShPids : ~ShRunning(p)
  BY DEF ShInit, Nobody, ShRunning
<1> QED
  BY <1>1, <1>2 DEF ShInit, ShInv, StagesInv, StagesLeft, LeftOf, StatusInv

\* Steps that end processes, or only rename what they are for, keep the rest.
LEMMA FewerRun ==
  ASSUME StagesInv, shProc' \in [ShPids -> ShStates],
         \A x \in ShPids : ShRunning(x)' =>
           /\ ShRunning(x)
           /\ shProc'[x].left = shProc[x].left /\ shProc'[x].stage = shProc[x].stage
           /\ shProc'[x].in = shProc[x].in /\ shProc'[x].out = shProc[x].out
           /\ shProc'[x].fds = shProc[x].fds
           /\ shProc'[x].st = "prog" => shProc[x].left = 1
  PROVE  StagesInv'
<1>1. ASSUME NEW x \in ShPids PROVE StagesLeft(x)'
  BY DEF StagesInv, StagesLeft
<1>2. ASSUME NEW p \in ShPids, NEW w \in ShPids PROVE LeftOf(w, p)'
  <2>1. \A e : e \in Ends(w)' => e \in Ends(w) /\ ShRunning(w)'
    BY DEF Ends
  <2>2. LeftOf(w, p)
    BY DEF StagesInv
  <2> QED
    BY <2>1, <2>2 DEF LeftOf
<1> QED
  BY <1>1, <1>2 DEF StagesInv

\* The end of a process: its own, and of those it has started.
LEMMA EndedInv ==
  ASSUME ShInv, NEW p \in ShPids, NEW st \in Statuses, ShRunning(p), ShEnded(p, st) PROVE ShInv'
<1>1. shProc \in [ShPids -> ShStates] /\ st \in Nat /\ StagesInv /\ StatusInv
  BY DEF ShInv, StagesInv, Statuses, NotFound
<1> DEFINE k == IF shProc[p].job = "init" THEN "none" ELSE "zombie"
           c == IF shProc[p].job = "stage" THEN shProc[p].code ELSE st
           n == [Nobody EXCEPT !.st = k, !.job = shProc[p].job, !.code = c]
<1>2. /\ n \in ShStates /\ n.st = k /\ n.job = shProc[p].job /\ n.code = c
      /\ Nobody \in ShStates /\ Nobody.st = "none" /\ (shProc[p].job = "fg" => c = st)
  <2>1. c \in Nat
    BY <1>1 DEF ShStates
  <2> QED
    BY <1>1, <2>1 DEF Nobody, tty, ShStates
<1> HIDE DEF n, c
<1>3. shProc' = [x \in ShPids |->
        IF x = p THEN n
        ELSE IF shProc[x].job = "stage" /\ shProc[x].code = p
        THEN IF shProc[x].st = "zombie" THEN Nobody ELSE [shProc[x] EXCEPT !.job = "init", !.code = 0]
        ELSE shProc[x]]
  BY DEF ShEnded, n, k, c
<1>4. shProc'[p] = n /\ ~ShRunning(p)'
  BY <1>2, <1>3 DEF ShRunning
<1>5. ASSUME NEW x \in ShPids, x # p
      PROVE  /\ shProc'[x] \in ShStates
             /\ \/ shProc'[x] = shProc[x]
                \/ shProc'[x] = Nobody
                \/ shProc'[x] = [shProc[x] EXCEPT !.job = "init", !.code = 0]
             /\ shProc[x].job # "stage" => shProc'[x] = shProc[x]
  BY <1>1, <1>2, <1>3, <1>5 DEF ShStates
<1>6. StagesInv'
  <2>1. shProc' \in [ShPids -> ShStates]
    <3>1. \A x \in ShPids : shProc'[x] \in ShStates
      BY <1>2, <1>4, <1>5
    <3> QED
      BY <1>3, <3>1
  <2>2. ASSUME NEW x \in ShPids, ShRunning(x)'
        PROVE /\ ShRunning(x)
              /\ shProc'[x].left = shProc[x].left /\ shProc'[x].stage = shProc[x].stage
              /\ shProc'[x].in = shProc[x].in /\ shProc'[x].out = shProc[x].out
              /\ shProc'[x].fds = shProc[x].fds
              /\ shProc'[x].st = "prog" => shProc[x].left = 1
    <3>1. x # p /\ shProc'[x] # Nobody
      BY <1>2, <1>4, <2>2 DEF ShRunning
    <3>2. shProc[x] \in ShStates
      BY <1>1
    <3>3. /\ shProc'[x].left = shProc[x].left /\ shProc'[x].stage = shProc[x].stage
          /\ shProc'[x].in = shProc[x].in /\ shProc'[x].out = shProc[x].out
          /\ shProc'[x].fds = shProc[x].fds /\ shProc'[x].st = shProc[x].st
      <4>1. \/ shProc'[x] = shProc[x]
            \/ shProc'[x] = [shProc[x] EXCEPT !.job = "init", !.code = 0]
        BY <1>5, <3>1
      <4>2. CASE shProc'[x] = shProc[x]
        BY <4>2
      <4>3. CASE shProc'[x] = [shProc[x] EXCEPT !.job = "init", !.code = 0]
        BY <3>2, <4>3 DEF ShStates
      <4> QED
        BY <4>1, <4>2, <4>3
    <3>4. ShRunning(x)
      BY <2>2, <3>3 DEF ShRunning
    <3> QED
      BY <1>1, <3>3, <3>4 DEF StagesInv, StagesLeft
  <2> QED
    BY <1>1, <2>1, <2>2, FewerRun
<1>7. StatusInv'
  <2>1. shPc' = shPc /\ shFg' = shFg /\ shLast' = shLast
        /\ shWant' = IF shPc = "wait" /\ shFg = p THEN st ELSE shWant
    BY DEF ShEnded
  <2>2. CASE shPc # "wait"
    BY <1>1, <2>1, <2>2 DEF StatusInv
  <2>3. CASE shPc = "wait" /\ shFg = p
    <3>1. shProc[p].job = "fg"
      BY <1>1, <2>3 DEF StatusInv
    <3>2. shProc'[p].st = k /\ shProc'[p].job = "fg" /\ shProc'[p].code = st /\ k = "zombie"
      BY <1>2, <1>4, <3>1
    <3> QED
      BY <2>1, <2>3, <3>2 DEF StatusInv
  <2>4. CASE shPc = "wait" /\ shFg # p
    <3>1. shProc'[shFg] = shProc[shFg]
      BY <1>1, <1>5, <2>4 DEF StatusInv
    <3> QED
      BY <1>1, <2>1, <2>4, <3>1 DEF StatusInv
  <2> QED
    BY <2>2, <2>3, <2>4
<1> QED
  BY <1>6, <1>7 DEF ShInv

\* Steps of the shell that leave its processes alone.
LEMMA LineInv ==
  ASSUME ShInv, shProc' = shProc, shPc # "wait", shPc' # "wait",
         (shLast = shWant /\ shLast' = shLast /\ shWant' = shWant) \/ shLast' = shWant'
           \/ shPc' \notin {"main", "read", "run"}
  PROVE  ShInv'
<1>1. StagesInv'
  BY DEF ShInv, StagesInv, StagesLeft, LeftOf, ShRunning, Ends
<1>2. StatusInv'
  BY DEF StatusInv
<1> QED
  BY <1>1, <1>2 DEF ShInv

LEMMA ShLineSteps ==
  ASSUME ShInv,
         ShMain \/ ShReadLine \/ ShReadEnd \/ CmdBuiltin \/ CmdExit \/ CmdGoto \/ CmdAssign
  PROVE  ShInv'
<1>1. shPc \in {"main", "read", "run"} => shLast = shWant
  BY DEF ShInv, StatusInv
<1>2. CASE ShMain
  <2>1. shPc = "main" /\ shPc' \in {"run", "read"} /\ UNCHANGED <<shLast, shWant, shProc>>
    BY <1>2 DEF ShMain
  <2> QED
    BY <1>1, <2>1, LineInv
<1>3. CASE ShReadLine
  <2>1. shPc = "read" /\ shPc' \in {"run", "read"} /\ UNCHANGED <<shLast, shWant, shProc>>
    BY <1>3 DEF ShReadLine
  <2> QED
    BY <1>1, <2>1, LineInv
<1>4. CASE ShReadEnd
  <2>1. shPc = "read" /\ shPc' \in {"over", "read"} /\ UNCHANGED <<shLast, shWant, shProc>>
    BY <1>4 DEF ShReadEnd
  <2> QED
    BY <1>1, <2>1, LineInv
<1>5. CASE CmdBuiltin
  <2>1. shPc = "run" /\ shPc' \in {"run", "read"} /\ shLast' = shWant' /\ shProc' = shProc
    BY <1>5 DEF CmdBuiltin, BuiltinSets, NextCommand
  <2> QED
    BY <2>1, LineInv
<1>6. CASE CmdExit
  <2>1. shPc = "run" /\ shPc' = "over" /\ shProc' = shProc
    BY <1>6 DEF CmdExit
  <2> QED
    BY <2>1, LineInv
<1>7. CASE CmdGoto
  <2>1. shPc = "run" /\ shPc' \in {"run", "read"} /\ shLast' = shWant' /\ shProc' = shProc
    <3>1. CASE ~InFile
      BY <1>7, <3>1 DEF CmdGoto, BuiltinSets, NextCommand
    <3>2. CASE InFile
      BY <1>7, <3>2 DEF CmdGoto
    <3> QED
      BY <3>1, <3>2
  <2> QED
    BY <2>1, LineInv
<1>8. CASE CmdAssign
  <2>1. shPc = "run" /\ shPc' \in {"run", "read"} /\ UNCHANGED <<shLast, shWant, shProc>>
    BY <1>8 DEF CmdAssign, NextCommand
  <2> QED
    BY <1>1, <2>1, LineInv
<1> QED
  BY <1>2, <1>3, <1>4, <1>5, <1>6, <1>7, <1>8

LEMMA ShWaitInv ==
  ASSUME ShInv, NEW p \in ShPids, ShWait(p) PROVE ShInv'
<1>1. /\ shPc = "wait" /\ shProc[p].st = "zombie" /\ shProc' = [shProc EXCEPT ![p] = Nobody]
      /\ shWant' = shWant
      /\ IF p = shFg THEN shLast' = shProc[p].code /\ shFg' = 0 /\ NextCommand
                     ELSE UNCHANGED <<shLast, shFg, shPc, shRest>>
  BY DEF ShWait, Taken
<1>2. /\ shProc \in [ShPids -> ShStates] /\ Nobody \in ShStates /\ Nobody.st = "none"
      /\ StagesInv /\ StatusInv
  BY DEF ShInv, StagesInv, Nobody, tty, ShStates
<1>3. shProc'[p] = Nobody /\ \A x \in ShPids \ {p} : shProc'[x] = shProc[x]
  BY <1>1, <1>2
<1>4. StagesInv'
  <2>1. shProc' \in [ShPids -> ShStates]
    BY <1>1, <1>2
  <2>2. ASSUME NEW x \in ShPids, ShRunning(x)'
        PROVE  ShRunning(x) /\ shProc'[x] = shProc[x] /\ (shProc[x].st = "prog" => shProc[x].left = 1)
    <3>1. x # p
      BY <1>2, <1>3, <2>2 DEF ShRunning
    <3> QED
      BY <1>2, <1>3, <2>2, <3>1 DEF ShRunning, StagesInv, StagesLeft
  <2> QED
    BY <1>2, <2>1, <2>2, FewerRun
<1>5. StatusInv'
  <2>1. CASE p = shFg
    <3>1. shLast' = shWant' /\ shPc' \in {"run", "read"}
      BY <1>1, <1>2, <2>1 DEF StatusInv, NextCommand
    <3> QED
      BY <3>1 DEF StatusInv
  <2>2. CASE p # shFg
    BY <1>1, <1>2, <1>3, <2>2 DEF StatusInv
  <2> QED
    BY <2>1, <2>2
<1> QED
  BY <1>4, <1>5 DEF ShInv

LEMMA ShExecInv ==
  ASSUME ShInv, NEW p \in ShPids, ShExec(p) PROVE ShInv'
<1>1. shProc[p].st = "excom" /\ shProc[p].left = 1 /\ ShRunning(p)
  BY DEF ShExec, ShRunning
<1>2. CASE ShEnded(p, NotFound)
  BY <1>1, <1>2, EndedInv DEF Statuses
<1>3. CASE /\ shProc' = [shProc EXCEPT ![p].st = "prog"]
           /\ UNCHANGED <<shPc, shSource, shLine, shRest, shFg, shLast, shWant>>
  <2>1. shProc \in [ShPids -> ShStates] /\ StagesInv /\ StatusInv
    BY DEF ShInv, StagesInv
  <2>2. shProc'[p] = [shProc[p] EXCEPT !.st = "prog"] /\ \A x \in ShPids \ {p} : shProc'[x] = shProc[x]
    BY <1>3, <2>1
  <2>3. shProc[p] \in ShStates
    BY <2>1
  <2>4. /\ shProc'[p] \in ShStates /\ shProc'[p].left = shProc[p].left
        /\ shProc'[p].stage = shProc[p].stage /\ shProc'[p].in = shProc[p].in
        /\ shProc'[p].out = shProc[p].out /\ shProc'[p].fds = shProc[p].fds
        /\ shProc'[p].job = shProc[p].job /\ shProc'[p].st = "prog"
    BY <2>2, <2>3 DEF ShStates
  <2>5. StagesInv'
    <3>1. shProc' \in [ShPids -> ShStates]
      BY <1>3, <2>1, <2>4
    <3>2. ASSUME NEW x \in ShPids, ShRunning(x)'
          PROVE /\ ShRunning(x)
                /\ shProc'[x].left = shProc[x].left /\ shProc'[x].stage = shProc[x].stage
                /\ shProc'[x].in = shProc[x].in /\ shProc'[x].out = shProc[x].out
                /\ shProc'[x].fds = shProc[x].fds
                /\ shProc'[x].st = "prog" => shProc[x].left = 1
      <4>1. CASE x = p
        BY <1>1, <2>4, <4>1
      <4>2. CASE x # p
        BY <2>1, <2>2, <3>2, <4>2 DEF ShRunning, StagesInv, StagesLeft
      <4> QED
        BY <4>1, <4>2
    <3> QED
      BY <2>1, <3>1, <3>2, FewerRun
  <2>6. StatusInv'
    <3>1. CASE shFg = p
      BY <1>1, <1>3, <2>1, <2>4, <3>1 DEF StatusInv
    <3>2. CASE shFg # p
      BY <1>3, <2>1, <2>2, <3>2 DEF StatusInv
    <3> QED
      BY <3>1, <3>2
  <2> QED
    BY <2>5, <2>6 DEF ShInv
<1> QED
  BY <1>2, <1>3 DEF ShExec

LEMMA FreshPid == Unused # {} => Fresh(Unused) \in Unused
<1>1. Unused \subseteq Nat
  BY ShellAssumption DEF ShellAssumption, Unused
<1> QED
  BY <1>1, FreshIn

LEMMA ShForkInv ==
  ASSUME ShInv, NEW n \in 1 .. MaxStages, NEW job \in {"fg", "bg"}, ShFork(n, job) PROVE ShInv'
<1>1. /\ shProc \in [ShPids -> ShStates] /\ StagesInv /\ StatusInv /\ shPc = "run"
      /\ MaxStages \in Nat
  BY ShellAssumption DEF ShInv, StagesInv, ShFork, ShellAssumption
<1>2. CASE shLast' = NotFound /\ shWant' = NotFound /\ NextCommand /\ UNCHANGED <<shFg, shProc>>
  <2>1. shPc' \in {"run", "read"}
    BY <1>2 DEF NextCommand
  <2> QED
    BY <1>1, <1>2, <2>1, LineInv
<1>3. CASE /\ Unused # {}
           /\ LET p == Fresh(Unused) IN
                /\ shProc' = [shProc EXCEPT ![p] = [Nobody EXCEPT !.st = "excom", !.job = job, !.left = n, !.stage = n]]
                /\ IF job = "fg"
                   THEN shPc' = "wait" /\ shFg' = p /\ UNCHANGED shRest
                   ELSE NextCommand /\ UNCHANGED shFg
           /\ UNCHANGED <<shLast, shWant>>
  <2>p. PICK p \in ShPids : p = Fresh(Unused) /\ shProc[p].st = "none"
    BY <1>3, FreshPid DEF Unused
  <2> DEFINE x == [Nobody EXCEPT !.st = "excom", !.job = job, !.left = n, !.stage = n]
  <2>1. p \in ShPids /\ shProc[p].st = "none" /\ n \in Nat /\ 1 <= n
    BY <1>1, <2>p
  <2>2. /\ x \in ShStates /\ x.st = "excom" /\ x.job = job /\ x.left = n /\ x.stage = n
        /\ x.in = tty /\ x.out = tty /\ x.fds = {}
    BY <2>1 DEF Nobody, tty, ShStates
  <2>3. shProc' = [shProc EXCEPT ![p] = x]
    BY <1>3, <2>p
  <2>4. \/ job = "fg" /\ shPc' = "wait" /\ shFg' = p
        \/ job = "bg" /\ shPc' \in {"run", "read"}
    BY <1>3, <2>p DEF NextCommand
  <2> HIDE DEF x
  <2>5. shProc'[p] = x /\ \A y \in ShPids \ {p} : shProc'[y] = shProc[y]
    BY <1>1, <2>1, <2>3
  <2>6. shProc' \in [ShPids -> ShStates]
    BY <1>1, <2>1, <2>2, <2>3
  <2>7. ASSUME NEW y \in ShPids PROVE StagesLeft(y)'
    <3>1. CASE y = p
      BY <2>2, <2>5, <3>1 DEF StagesLeft, ShRunning
    <3>2. CASE y # p
      BY <1>1, <2>5, <3>2 DEF StagesInv, StagesLeft, ShRunning
    <3> QED
      BY <3>1, <3>2
  <2>8. ASSUME NEW y \in ShPids, NEW w \in ShPids PROVE LeftOf(w, y)'
    <3>1. CASE y = p
      BY <2>2, <2>5, <3>1 DEF LeftOf
    <3>2. CASE y # p /\ w = p
      <4>1. Ends(p)' = {<<tty, "r">>, <<tty, "w">>}
        BY <2>2, <2>5 DEF Ends, ShRunning
      <4> QED
        BY <3>2, <4>1 DEF LeftOf
    <3>3. CASE y # p /\ w # p
      <4>1. LeftOf(w, y)
        BY <1>1 DEF StagesInv
      <4> QED
        BY <2>5, <3>3, <4>1 DEF LeftOf, Ends, ShRunning
    <3> QED
      BY <3>1, <3>2, <3>3
  <2>9. StatusInv'
    BY <1>1, <1>3, <2>1, <2>2, <2>4, <2>5 DEF StatusInv
  <2> QED
    BY <2>6, <2>7, <2>8, <2>9 DEF ShInv, StagesInv
<1> QED
  BY <1>2, <1>3 DEF ShFork

LEMMA ShStageInv ==
  ASSUME ShInv, NEW p \in ShPids, ShStage(p) PROVE ShInv'
<1>1. /\ shProc \in [ShPids -> ShStates] /\ StagesInv /\ StatusInv
      /\ shProc[p].st = "excom" /\ shProc[p].left > 1 /\ ShRunning(p)
  BY DEF ShInv, StagesInv, ShStage, ShRunning
<1>2. CASE ShEnded(p, NotFound)
  BY <1>1, <1>2, EndedInv DEF Statuses
<1>3. CASE /\ Unused # {} /\ FreePipes # {}
           /\ LET c == Fresh(Unused)
                  q == Fresh(FreePipes)
              IN shProc' = [shProc EXCEPT
                   ![c] = [shProc[p] EXCEPT !.job = "stage", !.left = 1, !.code = p,
                             !.stage = shProc[p].stage - shProc[p].left + 1,
                             !.out = q, !.fds = @ \cup {<<q, "r">>, <<q, "w">>}],
                   ![p] = [shProc[p] EXCEPT !.left = @ - 1, !.in = q, !.fds = RightEnds(p, q)]]
           /\ UNCHANGED <<shPc, shSource, shLine, shRest, shFg, shLast, shWant>>
  <2>c. PICK c \in ShPids : c = Fresh(Unused) /\ shProc[c].st = "none"
    BY <1>3, FreshPid DEF Unused
  <2>f. FreePipes \subseteq ShPipes /\ ShPipes \subseteq Nat /\ 0 \notin ShPipes
    BY ShellAssumption DEF ShellAssumption, FreePipes
  <2>q. PICK q \in ShPipes : q = Fresh(FreePipes) /\ q \in FreePipes
    BY <1>3, <2>f, FreshIn
  <2> DEFINE x == [shProc[p] EXCEPT !.job = "stage", !.left = 1, !.code = p,
                     !.stage = shProc[p].stage - shProc[p].left + 1,
                     !.out = q, !.fds = shProc[p].fds \cup {<<q, "r">>, <<q, "w">>}]
             y == [shProc[p] EXCEPT !.left = shProc[p].left - 1, !.in = q, !.fds = shProc[p].fds]
  <2>1. c \in ShPids /\ shProc[c].st = "none" /\ c # p
    BY <1>1, <2>c
  <2>2. /\ q \in Nat /\ q # tty
        /\ \A w \in ShPids : <<q, "r">> \notin Ends(w) /\ <<q, "w">> \notin Ends(w)
    BY <2>f, <2>q DEF FreePipes, tty
  <2>3. shProc' = [shProc EXCEPT ![c] = x, ![p] = y]
    BY <1>3, <2>c, <2>q DEF RightEnds
  <2>4. /\ shProc[p] \in ShStates /\ shProc[p].left \in Nat /\ shProc[p].stage \in Nat
        /\ shProc[p].left <= shProc[p].stage /\ shProc[p].fds = {} /\ shProc[p].out = tty
        /\ p \in Nat /\ shProc[p].in \in Nat
    <3>1. StagesLeft(p) /\ shProc[p] \in ShStates
      BY <1>1 DEF StagesInv
    <3>2. p \in Nat
      BY ShellAssumption DEF ShellAssumption
    <3> QED
      BY <1>1, <3>1, <3>2 DEF StagesLeft, ShStates
  <2>5. /\ x \in ShStates /\ x.st = "excom" /\ x.job = "stage" /\ x.left = 1
        /\ x.stage = shProc[p].stage - shProc[p].left + 1 /\ x.in = shProc[p].in /\ x.out = q
        /\ x.fds = {<<q, "r">>, <<q, "w">>}
    <3>1. shProc[p].stage - shProc[p].left + 1 \in Nat
      BY <2>4
    <3>2. shProc[p].fds \cup {<<q, "r">>, <<q, "w">>} = {<<q, "r">>, <<q, "w">>}
          /\ {<<q, "r">>, <<q, "w">>} \in SUBSET (Nat \X {"r", "w"})
      BY <2>2, <2>4
    <3> QED
      BY <1>1, <2>2, <2>4, <3>1, <3>2 DEF ShStates
  <2>6. /\ y \in ShStates /\ y.st = "excom" /\ y.job = shProc[p].job
        /\ y.left = shProc[p].left - 1 /\ y.stage = shProc[p].stage
        /\ y.in = q /\ y.out = tty /\ y.fds = {}
    <3>1. shProc[p].left - 1 \in Nat
      BY <1>1, <2>4
    <3> QED
      BY <1>1, <2>2, <2>4, <3>1 DEF ShStates
  <2> HIDE DEF x, y
  <2>7. /\ shProc'[c] = x /\ shProc'[p] = y
        /\ \A z \in ShPids \ {c, p} : shProc'[z] = shProc[z]
        /\ shProc' \in [ShPids -> ShStates]
    BY <1>1, <2>1, <2>3, <2>5, <2>6
  <2>8. /\ ShRunning(c)' /\ ShRunning(p)'
        /\ Ends(c)' = {<<q, "r">>, <<q, "w">>, <<shProc[p].in, "r">>}
        /\ Ends(p)' = {<<q, "r">>, <<tty, "w">>}
    BY <2>5, <2>6, <2>7 DEF ShRunning, Ends
  <2>9. ASSUME NEW z \in ShPids PROVE StagesLeft(z)'
    <3>1. CASE z = c
      BY <2>4, <2>5, <2>7, <3>1 DEF StagesLeft
    <3>2. CASE z = p
      BY <1>1, <2>4, <2>6, <2>7, <3>2 DEF StagesLeft
    <3>3. CASE z # c /\ z # p
      BY <1>1, <2>7, <3>3 DEF StagesInv, StagesLeft, ShRunning
    <3> QED
      BY <3>1, <3>2, <3>3
  <2>10. ASSUME NEW r \in ShPids, NEW w \in ShPids PROVE LeftOf(w, r)'
    <3>r. <<shProc[p].in, "r">> \in Ends(p) /\ shProc[p].in # q
      BY <1>1, <2>2 DEF Ends
    <3>1. CASE r = c /\ w = c
      BY <2>5, <2>7, <2>8, <3>1, <3>r DEF LeftOf
    <3>2. CASE r = c /\ w = p
      BY <2>5, <2>7, <2>8, <3>2 DEF LeftOf
    <3>3. CASE r = c /\ w # c /\ w # p
      <4>1. LeftOf(w, p) /\ Ends(w)' = Ends(w) /\ shProc'[w] = shProc[w]
        BY <1>1, <2>7, <3>3 DEF StagesInv, Ends, ShRunning
      <4>2. shProc'[c].in = shProc[p].in /\ shProc'[c].stage = shProc[p].stage - shProc[p].left + 1
            /\ shProc'[c].left = 1
        BY <2>5, <2>7
      <4>3. shProc[p].stage - shProc[p].left + 1 \in Int
        BY <2>4
      <4> QED
        BY <1>1, <3>3, <4>1, <4>2, <4>3 DEF LeftOf
    <3>4. CASE r = p /\ w = c
      <4>1. shProc'[c].stage = shProc[p].stage - shProc[p].left + 1
            /\ shProc'[p].stage = shProc[p].stage /\ shProc'[p].left = shProc[p].left - 1
        BY <2>5, <2>6, <2>7
      <4> QED
        BY <2>4, <3>4, <4>1 DEF LeftOf
    <3>5. CASE r = p /\ w # c
      <4>1. <<q, "w">> \notin Ends(w)'
        <5>1. CASE w = p
          BY <2>2, <2>8, <5>1
        <5>2. CASE w # p
          <6>1. Ends(w)' = Ends(w)
            BY <2>7, <3>5, <5>2 DEF Ends, ShRunning
          <6> QED
            BY <2>2, <6>1
        <5> QED
          BY <5>1, <5>2
      <4> QED
        BY <2>6, <2>7, <3>5, <4>1 DEF LeftOf
    <3>6. CASE r # c /\ r # p
      <4>1. shProc'[r] = shProc[r] /\ (ShRunning(r)' <=> ShRunning(r))
        BY <2>7, <3>6 DEF ShRunning
      <4>2. ShRunning(r) => shProc[r].in # q
        BY <2>2 DEF Ends
      <4>3. CASE w = c
        BY <2>8, <4>1, <4>2, <4>3 DEF LeftOf
      <4>4. CASE w = p
        BY <2>8, <4>1, <4>4 DEF LeftOf
      <4>5. CASE w # c /\ w # p
        <5>1. LeftOf(w, r) /\ Ends(w)' = Ends(w) /\ shProc'[w] = shProc[w]
          BY <1>1, <2>7, <4>5 DEF StagesInv, Ends, ShRunning
        <5> QED
          BY <4>1, <5>1 DEF LeftOf
      <4> QED
        BY <4>3, <4>4, <4>5
    <3> QED
      BY <3>1, <3>2, <3>3, <3>4, <3>5, <3>6
  <2>11. StatusInv'
    <3>1. CASE shFg = p
      BY <1>1, <1>3, <2>6, <2>7, <3>1 DEF StatusInv
    <3>2. CASE shFg = c
      BY <1>1, <1>3, <2>1, <3>2 DEF StatusInv
    <3>3. CASE shFg # p /\ shFg # c
      BY <1>1, <1>3, <2>7, <3>3 DEF StatusInv
    <3> QED
      BY <3>1, <3>2, <3>3
  <2> QED
    BY <2>7, <2>9, <2>10, <2>11 DEF ShInv, StagesInv
<1> QED
  BY <1>2, <1>3 DEF ShStage

LEMMA ShNextInv == ShInv /\ [ShNext]_shVars => ShInv'
<1> SUFFICES ASSUME ShInv, [ShNext]_shVars PROVE ShInv'
  OBVIOUS
<1>1. CASE UNCHANGED shVars
  BY <1>1 DEF shVars, ShInv, StagesInv, StagesLeft, LeftOf, ShRunning, Ends, StatusInv
<1>2. ASSUME NEW p \in ShPids, ShProgEnds(p) PROVE ShInv'
  <2>1. PICK st \in Statuses : ShEnded(p, st)
    BY <1>2 DEF ShProgEnds
  <2>2. ShRunning(p)
    BY <1>2 DEF ShProgEnds, ShRunning
  <2> QED
    BY <2>1, <2>2, EndedInv
<1> QED
  BY <1>1, <1>2, ShLineSteps, ShForkInv, ShWaitInv, ShStageInv, ShExecInv DEF ShNext

\* The environment: entries with names of their own, and a flag for each place
\* and one behind the last that says whose string it is.
EnvEntries == [name : ShVars, own : BOOLEAN]
EnvInv ==
  /\ nenv \in Seq(EnvEntries) /\ Len(nenv) <= MAXENV /\ envdup \in [Flags -> BOOLEAN]
  /\ EnvOwned

LEMMA EnvFacts ==
  ASSUME EnvInv
  PROVE  /\ MAXENV \in Nat /\ Len(nenv) \in Nat /\ DOMAIN nenv = 1 .. Len(nenv)
         /\ \A i \in 1 .. Len(nenv) : nenv[i] \in EnvEntries /\ i \in Flags
BY EnvironAssumption DEF EnvironAssumption, EnvInv, Flags

LEMMA PutenvInv ==
  ASSUME EnvInv, NEW v \in ShVars, Putenv(v) PROVE EnvInv'
<1>1. CASE UNCHANGED envVars
  BY <1>1 DEF envVars, EnvInv, EnvOwned
<1>2. ASSUME NEW i \in Position(v),
             nenv' = [nenv EXCEPT ![i].own = TRUE], envdup' = [envdup EXCEPT ![i] = TRUE]
      PROVE  EnvInv'
  <2>1. i \in 1 .. Len(nenv) /\ nenv[i] \in EnvEntries /\ i \in Flags
    BY EnvFacts DEF Position
  <2> DEFINE x == [nenv[i] EXCEPT !.own = TRUE]
  <2>2. x \in EnvEntries /\ x.own = TRUE /\ x.name = nenv[i].name
    BY <2>1 DEF EnvEntries
  <2>3. nenv' = [nenv EXCEPT ![i] = x]
    BY <1>2
  <2> HIDE DEF x
  <2>4. /\ nenv' \in Seq(EnvEntries) /\ Len(nenv') = Len(nenv)
        /\ \A j \in 1 .. Len(nenv) : nenv'[j] = IF j = i THEN x ELSE nenv[j]
    BY <2>1, <2>2, <2>3, ExceptSeq DEF EnvInv
  <2>5. envdup' \in [Flags -> BOOLEAN]
        /\ \A j \in 1 .. Len(nenv) : envdup'[j] = IF j = i THEN TRUE ELSE envdup[j]
    BY <1>2, <2>1, EnvFacts DEF EnvInv
  <2>6. EnvOwned'
    <3>1. \A j \in 1 .. Len(nenv) :
            nenv'[j].name = nenv[j].name /\ nenv'[j].own = IF j = i THEN TRUE ELSE nenv[j].own
      BY <2>2, <2>4
    <3>2. EnvOwned
      BY DEF EnvInv
    <3> QED
      BY <2>4, <2>5, <3>1, <3>2 DEF EnvOwned
  <2> QED
    BY <2>4, <2>5, <2>6 DEF EnvInv
<1>3. CASE /\ Position(v) = {} /\ Len(nenv) < MAXENV
           /\ nenv' = Append(nenv, [name |-> v, own |-> TRUE])
           /\ envdup' = [envdup EXCEPT ![Len(nenv) + 2] = FALSE, ![Len(nenv) + 1] = TRUE]
  <2> DEFINE x == [name |-> v, own |-> TRUE]
             n == Len(nenv)
  <2>1. x \in EnvEntries /\ x.name = v /\ x.own = TRUE
    BY DEF EnvEntries
  <2>2. nenv' = Append(nenv, x) /\ n \in Nat /\ MAXENV \in Nat /\ n < MAXENV
    BY <1>3, EnvFacts
  <2>3. \A j \in 1 .. n : nenv[j].name # v
    BY <1>3 DEF Position
  <2> HIDE DEF x
  <2>4. /\ nenv' \in Seq(EnvEntries) /\ Len(nenv') = n + 1 /\ nenv'[n + 1] = x
        /\ \A j \in 1 .. n : nenv'[j] = nenv[j]
    BY <2>1, <2>2 DEF EnvInv
  <2>5. envdup' = [envdup EXCEPT ![n + 2] = FALSE, ![n + 1] = TRUE]
    BY <1>3
  <2> HIDE DEF n
  <2>6. /\ envdup' \in [Flags -> BOOLEAN] /\ envdup'[n + 1] = TRUE
        /\ \A j \in 1 .. n : envdup'[j] = envdup[j]
    <3>1. envdup \in [Flags -> BOOLEAN] /\ n + 1 \in Flags
      BY <2>2 DEF EnvInv, Flags
    <3>2. \A j \in 1 .. n : j \in Flags /\ j # n + 1 /\ j # n + 2
      BY <2>2 DEF Flags
    <3>3. n + 1 # n + 2
      BY <2>2
    <3> QED
      BY <2>5, <3>1, <3>2, <3>3
  <2>7. EnvOwned'
    <3>1. \A i \in 1 .. n : envdup[i] = nenv[i].own /\ \A j \in 1 .. n : nenv[i].name = nenv[j].name => i = j
      BY DEF EnvInv, EnvOwned, n
    <3>2. ASSUME NEW i \in 1 .. n + 1 PROVE envdup'[i] = nenv'[i].own
      <4>1. CASE i = n + 1
        BY <2>1, <2>4, <2>6, <4>1
      <4>2. CASE i \in 1 .. n
        BY <2>4, <2>6, <3>1, <4>2
      <4>3. i = n + 1 \/ i \in 1 .. n
        BY <2>2
      <4> QED
        BY <4>1, <4>2, <4>3, Zenon
    <3>3. ASSUME NEW i \in 1 .. n + 1, NEW j \in 1 .. n + 1, nenv'[i].name = nenv'[j].name PROVE i = j
      BY <2>1, <2>2, <2>3, <2>4, <3>1, <3>3
    <3> QED
      BY <2>4, <3>2, <3>3 DEF EnvOwned
  <2>8. Len(nenv') <= MAXENV
    BY <2>2, <2>4
  <2> QED
    BY <2>4, <2>6, <2>7, <2>8 DEF EnvInv
<1> QED
  BY <1>1, <1>2, <1>3 DEF Putenv

LEMMA UnsetenvInv ==
  ASSUME EnvInv, NEW v \in ShVars, Unsetenv(v) PROVE EnvInv'
<1> DEFINE n == Len(nenv)
<1>1. PICK i \in Position(v) : nenv' = RemoveAt(nenv, i) /\ envdup' = FlagsAfter(i)
  BY DEF Unsetenv
<1>2. /\ n \in Nat /\ MAXENV \in Nat /\ n <= MAXENV /\ i \in 1 .. n
      /\ nenv \in Seq(EnvEntries) /\ envdup \in [Flags -> BOOLEAN]
  BY EnvFacts DEF EnvInv, Position
<1>3. /\ nenv' \in Seq(EnvEntries) /\ Len(nenv') = n - 1
      /\ \A j \in 1 .. n - 1 : nenv'[j] = IF j < i THEN nenv[j] ELSE nenv[j + 1]
  <2> DEFINE a == SubSeq(nenv, 1, i - 1)
             b == SubSeq(nenv, i + 1, n)
  <2>1. nenv' = a \o b
    BY <1>1 DEF RemoveAt
  <2>2. \A j \in 1 .. n : nenv[j] \in EnvEntries
    BY EnvFacts
  <2>3. /\ a \in Seq(EnvEntries) /\ Len(a) = i - 1 /\ \A j \in 1 .. i - 1 : a[j] = nenv[j]
    <3>1. \A j \in 1 .. i - 1 : nenv[j] \in EnvEntries
      BY <1>2, <2>2
    <3>2. /\ SubSeq(nenv, 1, i - 1) \in Seq(EnvEntries)
          /\ Len(SubSeq(nenv, 1, i - 1)) = IF 1 <= i - 1 THEN (i - 1) - 1 + 1 ELSE 0
          /\ \A j \in 1 .. (i - 1) - 1 + 1 : SubSeq(nenv, 1, i - 1)[j] = nenv[1 + j - 1]
      BY <1>2, <3>1, SubSeqProperties
    <3> QED
      BY <1>2, <3>2
  <2>4. /\ b \in Seq(EnvEntries) /\ Len(b) = n - i /\ \A j \in 1 .. n - i : b[j] = nenv[i + j]
    <3>1. \A j \in i + 1 .. n : nenv[j] \in EnvEntries
      BY <1>2, <2>2
    <3>2. /\ SubSeq(nenv, i + 1, n) \in Seq(EnvEntries)
          /\ Len(SubSeq(nenv, i + 1, n)) = IF i + 1 <= n THEN n - (i + 1) + 1 ELSE 0
          /\ \A j \in 1 .. n - (i + 1) + 1 : SubSeq(nenv, i + 1, n)[j] = nenv[(i + 1) + j - 1]
      BY <1>2, <3>1, SubSeqProperties
    <3> QED
      BY <1>2, <3>2
  <2> HIDE DEF a, b
  <2>5. /\ nenv' \in Seq(EnvEntries) /\ Len(nenv') = (i - 1) + (n - i)
        /\ \A j \in 1 .. (i - 1) + (n - i) : nenv'[j] = IF j <= i - 1 THEN a[j] ELSE b[j - (i - 1)]
    <3>1. a \in Seq(EnvEntries) /\ b \in Seq(EnvEntries) /\ Len(a) = i - 1 /\ Len(b) = n - i
      BY <2>3, <2>4
    <3>2. /\ a \o b \in Seq(EnvEntries) /\ Len(a \o b) = Len(a) + Len(b)
          /\ \A j \in 1 .. Len(a) + Len(b) : (a \o b)[j] = IF j <= Len(a) THEN a[j] ELSE b[j - Len(a)]
      <4>1. \A x, y \in Seq(EnvEntries) :
              /\ x \o y \in Seq(EnvEntries) /\ Len(x \o y) = Len(x) + Len(y)
              /\ \A j \in 1 .. Len(x) + Len(y) : (x \o y)[j] = IF j <= Len(x) THEN x[j] ELSE y[j - Len(x)]
        BY ConcatProperties
      <4> QED
        BY <3>1, <4>1
    <3> QED
      BY <2>1, <3>1, <3>2, Zenon
  <2> HIDE DEF n
  <2>6. ASSUME NEW j \in 1 .. n - 1 PROVE nenv'[j] = IF j < i THEN nenv[j] ELSE nenv[j + 1]
    <3>1. CASE j < i
      <4>1. j \in 1 .. i - 1 /\ j <= i - 1 /\ j \in 1 .. (i - 1) + (n - i)
        BY <1>2, <3>1
      <4>2. nenv'[j] = a[j] /\ a[j] = nenv[j]
        BY <2>3, <2>5, <4>1
      <4> QED
        BY <3>1, <4>2
    <3>2. CASE ~(j < i)
      <4>1. j - (i - 1) \in 1 .. n - i /\ i + (j - (i - 1)) = j + 1 /\ ~(j <= i - 1)
            /\ j \in 1 .. (i - 1) + (n - i)
        BY <1>2, <3>2
      <4>2. b[j - (i - 1)] = nenv[j + 1]
        BY <2>4, <4>1
      <4> QED
        BY <2>5, <3>2, <4>1, <4>2
    <3> QED
      BY <3>1, <3>2
  <2>7. (i - 1) + (n - i) = n - 1
    BY <1>2
  <2> QED
    BY <2>5, <2>6, <2>7
<1>4. /\ envdup' \in [Flags -> BOOLEAN]
      /\ \A j \in 1 .. n - 1 : envdup'[j] = IF j < i THEN envdup[j] ELSE envdup[j + 1]
  <2>1. envdup' = [j \in Flags |-> IF i <= j /\ j <= n THEN envdup[j + 1] ELSE envdup[j]]
    BY <1>1 DEF FlagsAfter
  <2> HIDE DEF n
  <2>2. \A j \in Flags : (i <= j /\ j <= n) => j + 1 \in Flags
    BY <1>2 DEF Flags
  <2>3. \A j \in 1 .. n - 1 : j \in Flags /\ j \in Int /\ j <= n /\ (j < i <=> ~(i <= j))
    BY <1>2 DEF Flags
  <2> QED
    BY <1>2, <2>1, <2>2, <2>3
<1>5. EnvOwned'
  <2>1. \A k \in 1 .. n : envdup[k] = nenv[k].own /\ \A j \in 1 .. n : nenv[k].name = nenv[j].name => k = j
    BY DEF EnvInv, EnvOwned
  <2> HIDE DEF n
  <2>2. ASSUME NEW k \in 1 .. n - 1 PROVE envdup'[k] = nenv'[k].own
    <3>1. k \in 1 .. n /\ k + 1 \in 1 .. n
      BY <1>2
    <3>2. envdup[k] = nenv[k].own /\ envdup[k + 1] = nenv[k + 1].own
      BY <2>1, <3>1
    <3>3. /\ envdup'[k] = IF k < i THEN envdup[k] ELSE envdup[k + 1]
          /\ nenv'[k] = IF k < i THEN nenv[k] ELSE nenv[k + 1]
      BY <1>3, <1>4
    <3> QED
      BY <3>2, <3>3
  <2>3. ASSUME NEW k \in 1 .. n - 1, NEW j \in 1 .. n - 1, nenv'[k].name = nenv'[j].name PROVE k = j
    <3>1. k \in 1 .. n /\ k + 1 \in 1 .. n /\ j \in 1 .. n /\ j + 1 \in 1 .. n
      BY <1>2
    <3>2. /\ nenv'[k] = IF k < i THEN nenv[k] ELSE nenv[k + 1]
          /\ nenv'[j] = IF j < i THEN nenv[j] ELSE nenv[j + 1]
      BY <1>3
    <3>3. \A x, y \in 1 .. n : nenv[x].name = nenv[y].name => x = y
      BY <2>1
    <3>4. (IF k < i THEN k ELSE k + 1) = (IF j < i THEN j ELSE j + 1)
      BY <2>3, <3>1, <3>2, <3>3
    <3> QED
      BY <1>2, <3>1, <3>4
  <2> QED
    BY <1>3, <2>2, <2>3 DEF EnvOwned
<1> QED
  BY <1>2, <1>3, <1>4, <1>5 DEF EnvInv

LEMMA TakingInv ==
  ASSUME EnvInv, NEW E \in SetToSeqs(ShVars), Taking(E) PROVE EnvInv'
<1>1. /\ nenv' = Copyenv(E) /\ envdup' = envdup /\ \A i \in Flags : ~envdup[i]
      /\ envdup \in [Flags -> BOOLEAN] /\ MAXENV \in Nat
  BY EnvFacts DEF Taking, EnvInv
<1> DEFINE c == Cardinality(ShVars)
<1>2. /\ c \in Nat /\ E \in [1 .. c -> ShVars] /\ \A i, j \in 1 .. c : i # j => E[i] # E[j]
  BY EnvironAssumption, FS_CardinalityType DEF EnvironAssumption, SetToSeqs
<1> HIDE DEF c
<1>3. Len(E) = c
  BY <1>2
<1> DEFINE k == IF c < MAXENV THEN c ELSE MAXENV
<1>4. k \in Nat /\ k <= c /\ k <= MAXENV
  BY <1>1, <1>2
<1>5. nenv' = [i \in 1 .. k |-> [name |-> E[i], own |-> FALSE]]
  BY <1>1, <1>3 DEF Copyenv
<1> HIDE DEF k
<1>6. \A i \in 1 .. k : [name |-> E[i], own |-> FALSE] \in EnvEntries
  BY <1>2, <1>4 DEF EnvEntries
<1>7. /\ nenv' \in Seq(EnvEntries) /\ Len(nenv') = k
      /\ \A i \in 1 .. k : nenv'[i].name = E[i] /\ nenv'[i].own = FALSE
  BY <1>4, <1>5, <1>6
<1>8. \A i \in 1 .. k : i \in Flags /\ i \in 1 .. c
  BY <1>1, <1>2, <1>4 DEF Flags
<1>9. EnvOwned'
  <2>1. ASSUME NEW i \in 1 .. k PROVE envdup'[i] = nenv'[i].own
    BY <1>1, <1>7, <1>8
  <2>2. ASSUME NEW i \in 1 .. k, NEW j \in 1 .. k, nenv'[i].name = nenv'[j].name PROVE i = j
    BY <1>2, <1>7, <1>8, <2>2
  <2> QED
    BY <1>7, <2>1, <2>2 DEF EnvOwned
<1> QED
  BY <1>1, <1>4, <1>7, <1>9 DEF EnvInv

LEMMA EnvInitInv == EnvInit => EnvInv
BY EnvironAssumption DEF EnvironAssumption, EnvInit, EnvInv, EnvOwned, Flags

LEMMA EnvNextInv == EnvInv /\ [EnvNext]_envVars => EnvInv'
<1> SUFFICES ASSUME EnvInv, [EnvNext]_envVars PROVE EnvInv'
  OBVIOUS
<1>1. CASE UNCHANGED envVars
  BY <1>1 DEF envVars, EnvInv, EnvOwned
<1> QED
  BY <1>1, PutenvInv, UnsetenvInv, TakingInv DEF EnvNext

\* $? is the status of the last command of the shell's own, whatever jobs end
\* while it waits (sh.c, runcom); a stage that reads a pipe can come to its end,
\* as only stages to its left hold the writing end (excom); and putenv and
\* unsetenv free the strings that strdup made for them and no others.
THEOREM ShellCorrect == ShellSpec => []ShellExact
<1>1. ShInv /\ EnvInv => ShellExact
  <2> SUFFICES ASSUME ShInv, EnvInv PROVE ShellExact
    OBVIOUS
  <2>1. StatusOwn
    BY DEF ShInv, StatusInv, StatusOwn
  <2>2. ASSUME NEW p \in ShPids, NEW w \in ShPids, shProc[p].st = "prog", shProc[p].in # tty,
               <<shProc[p].in, "w">> \in Ends(w)
        PROVE  shProc[w].stage < shProc[p].stage
    <3>1. ShRunning(p) /\ StagesLeft(p) /\ LeftOf(w, p) /\ shProc[p] \in ShStates
      BY <2>2 DEF ShInv, StagesInv, ShRunning
    <3>2. shProc[p].left = 1 /\ shProc[p].stage \in Int
      BY <2>2, <3>1 DEF StagesLeft, ShStates
    <3>3. shProc[w].stage < shProc[p].stage - shProc[p].left + 1
      BY <2>2, <3>1 DEF LeftOf
    <3> QED
      BY <3>2, <3>3
  <2>3. EofReaches
    BY <2>2 DEF EofReaches
  <2>4. EnvOwned
    BY DEF EnvInv
  <2> QED
    BY <2>1, <2>3, <2>4 DEF ShellExact, JobsExact
<1>2. /\ ShInv /\ EnvInv
      /\ [(ShNext /\ UNCHANGED envVars) \/ (EnvNext /\ UNCHANGED shVars)]_<<shVars, envVars>>
      => ShInv' /\ EnvInv'
  BY ShNextInv, EnvNextInv
<1> QED
  BY <1>1, <1>2, ShInitInv, EnvInitInv, PTL DEF ShellSpec
=============================================================================
