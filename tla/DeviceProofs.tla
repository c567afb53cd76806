---------------------------- MODULE DeviceProofs ----------------------------
(* The floppy driver's idea of its heads and motors, for any number of       *)
(* drives, cylinders and retries and any time the motor may run on; the      *)
(* partitions of hard disks of any size, for any tables and any sizes asked  *)
(* for; the terminal on a serial line, for rings and lines of any size and   *)
(* any set of processes; the editor at a terminal, for a text buffer and a   *)
(* screen of any size and any files that fit; and the console, for a screen, *)
(* a key buffer and a log of any size.                                       *)
EXTENDS Floppy, Tty, Screen, Editor, HardDisk, TLAPS, SequenceTheorems, FiniteSetTheorems, WellFoundedInduction

----------------------------------------------------------------------------
(* Editor.  Strings in a buffer: where they end, and how many lines lie      *)
(* between two places.                                                       *)

EdText == EdByte \ {"nul"}
\* filebuf, whose last byte is never written.
BufOK(b) == b \in [EdBytes -> EdByte] /\ b[EdMax] = "nul"
NoNul(b, p, q) == \A r \in p .. q - 1 : b[r] # "nul"
NlIn(b, p, q) == {r \in p .. q - 1 : b[r] = "nl"}
NlCount(b, p, q) == Cardinality(NlIn(b, p, q))
\* p is the start of line n.
LineAt(b, p, n) ==
  /\ p \in EdBytes /\ NoNul(b, 0, p) /\ NlCount(b, 0, p) = n
  /\ p = 0 \/ b[p - 1] = "nl"
\* c is b up to p.
SameBelow(b, c, p) == \A r \in 0 .. p - 1 : c[r] = b[r]

\* Numbers have a least one.
LEMMA HasLeast ==
  ASSUME NEW T, T \subseteq Nat, T # {}
  PROVE  \E n \in T : \A m \in T : n <= m
<1> DEFINE O == OpToRel(<, Nat)
<1>1. IsWellFoundedOn(O, Nat)
  BY NatLessThanWellFounded
<1> HIDE DEF O
<1>2. PICK n \in T : \A m \in T : ~ (<<m, n>> \in O)
  BY <1>1, WFMin
<1>3. \A m \in T : <<m, n>> \in O <=> m < n
  BY <1>2 DEF O, OpToRel
<1>4. \A m \in T : ~(m < n)
  BY <1>2, <1>3, Zenon
<1> QED
  BY <1>4, SMT

\* A string has an end.
LEMMA NulIs ==
  ASSUME NEW b, NEW p \in EdBytes, BufOK(b)
  PROVE  Nul(b, p) \in p .. EdMax /\ b[Nul(b, p)] = "nul" /\ NoNul(b, p, Nul(b, p))
<1> DEFINE T == {q \in p .. EdMax : b[q] = "nul"}
<1>1. T \subseteq Nat /\ T # {}
  BY EdAssumption DEF EdBytes, BufOK
<1>2. PICK q \in T : \A m \in T : q <= m
  BY <1>1, HasLeast
<1>3. q \in p .. EdMax /\ b[q] = "nul" /\ \A r \in p .. q - 1 : b[r] # "nul"
  BY <1>2, EdAssumption DEF EdBytes
<1>4. \E x \in p .. EdMax : b[x] = "nul" /\ \A r \in p .. x - 1 : b[r] # "nul"
  BY <1>3
<1> QED
  BY <1>4 DEF Nul, NoNul

\* And no more than one.
LEMMA NulOnly ==
  ASSUME NEW b, NEW p \in EdBytes, BufOK(b), NEW q \in p .. EdMax, b[q] = "nul", NoNul(b, p, q)
  PROVE  Nul(b, p) = q
<1> DEFINE N == Nul(b, p)
<1>1. N \in p .. EdMax /\ b[N] = "nul" /\ NoNul(b, p, N)
  BY NulIs
<1> HIDE DEF N
<1>2. N = q
  BY <1>1, EdAssumption DEF NoNul, EdBytes
<1> QED
  BY <1>2 DEF N

\* A line has an end, in the string.
LEMMA EolIs ==
  ASSUME NEW b, NEW p \in EdBytes, BufOK(b)
  PROVE  /\ Eol(b, p) \in p .. EdMax /\ b[Eol(b, p)] \in {"nl", "nul"}
         /\ \A r \in p .. Eol(b, p) - 1 : b[r] \notin {"nl", "nul"}
<1> DEFINE T == {q \in p .. EdMax : b[q] \in {"nl", "nul"}}
<1>1. T \subseteq Nat /\ T # {}
  BY EdAssumption DEF EdBytes, BufOK
<1>2. PICK q \in T : \A m \in T : q <= m
  BY <1>1, HasLeast
<1>3. q \in p .. EdMax /\ b[q] \in {"nl", "nul"} /\ \A r \in p .. q - 1 : b[r] \notin {"nl", "nul"}
  BY <1>2, EdAssumption DEF EdBytes
<1>4. \E x \in p .. EdMax :
        b[x] \in {"nl", "nul"} /\ \A r \in p .. x - 1 : b[r] \notin {"nl", "nul"}
  BY <1>3
<1> QED
  BY <1>4 DEF Eol

\* Newlines are finite in number, and are counted piece by piece.
LEMMA NlFinite ==
  ASSUME NEW b, NEW p \in Int, NEW q \in Int
  PROVE  IsFiniteSet(NlIn(b, p, q)) /\ NlCount(b, p, q) \in Nat
<1>1. IsFiniteSet(p .. q - 1)
  BY FS_Interval
<1>2. NlIn(b, p, q) \subseteq p .. q - 1
  BY DEF NlIn
<1>3. IsFiniteSet(NlIn(b, p, q))
  BY <1>1, <1>2, FS_Subset
<1> QED
  BY <1>3, FS_CardinalityType DEF NlCount

\* The newlines up to r are those up to q and those from q on.
LEMMA NlSplit ==
  ASSUME NEW b, NEW p \in Int, NEW q \in Int, NEW r \in Int, p <= q, q <= r
  PROVE  NlCount(b, p, r) = NlCount(b, p, q) + NlCount(b, q, r)
<1> DEFINE A == NlIn(b, p, q)
           B == NlIn(b, q, r)
<1>1. IsFiniteSet(A) /\ IsFiniteSet(B)
  BY NlFinite
<1>2. A \cap B = {} /\ NlIn(b, p, r) = A \cup B
  BY DEF NlIn
<1>3. Cardinality(A \cup B) = Cardinality(A) + Cardinality(B) - Cardinality(A \cap B)
  BY <1>1, FS_Union
<1>4. Cardinality(A \cap B) = 0
  BY <1>2, FS_EmptySet
<1>5. Cardinality(A) \in Nat /\ Cardinality(B) \in Nat
  BY <1>1, FS_CardinalityType
<1> QED
  BY <1>2, <1>3, <1>4, <1>5 DEF NlCount

\* There is none between a place and itself, and at most one in a byte.
LEMMA NlOne ==
  ASSUME NEW b, NEW p \in Int
  PROVE  NlCount(b, p, p) = 0 /\ NlCount(b, p, p + 1) = IF b[p] = "nl" THEN 1 ELSE 0
<1>1. NlIn(b, p, p) = {} /\ NlIn(b, p, p + 1) = IF b[p] = "nl" THEN {p} ELSE {}
  BY DEF NlIn
<1>2. Cardinality({}) = 0 /\ Cardinality({p}) = 1
  BY FS_EmptySet, FS_Singleton
<1> QED
  BY <1>1, <1>2 DEF NlCount

\* If there are k lines, there is an end of the k-th one.
LEMMA NlReach ==
  ASSUME NEW b, NEW p \in Nat, NEW q \in Nat, p <= q, NEW k \in Nat \ {0}, NlCount(b, p, q) >= k
  PROVE  \E x \in NlIn(b, p, q) : NlCount(b, p, x + 1) = k
<1> DEFINE T == {m \in Nat : m >= p /\ NlCount(b, p, m) >= k}
<1>1. T \subseteq Nat /\ q \in T
  OBVIOUS
<1>2. PICK m \in T : \A n \in T : m <= n
  BY <1>1, HasLeast
<1>3. m \in Nat /\ m >= p /\ NlCount(b, p, m) >= k /\ m <= q
  BY <1>1, <1>2
<1>4. m # p
  BY <1>3, NlOne
<1>5. m - 1 \in Nat /\ m - 1 >= p /\ m - 1 \notin T
  BY <1>2, <1>3, <1>4
<1>6. NlCount(b, p, m - 1) < k /\ NlCount(b, p, m - 1) \in Nat
  <2>1. NlCount(b, p, m - 1) \in Nat
    BY <1>5, NlFinite
  <2> QED
    BY <2>1, <1>5
<1>7. NlCount(b, p, m) = NlCount(b, p, m - 1) + NlCount(b, m - 1, m)
  BY <1>3, <1>5, NlSplit
<1>8. NlCount(b, m - 1, m) = IF b[m - 1] = "nl" THEN 1 ELSE 0
  <2> DEFINE z == m - 1
  <2>1. NlCount(b, z, z + 1) = IF b[z] = "nl" THEN 1 ELSE 0
    BY <1>5, NlOne
  <2>2. z + 1 = m
    BY <1>3
  <2> QED
    BY <2>1, <2>2
<1>9. b[m - 1] = "nl" /\ NlCount(b, p, m) = k
  <2> HIDE DEF T
  <2>1. CASE b[m - 1] = "nl"
    BY <2>1, <1>3, <1>6, <1>7, <1>8
  <2>2. CASE b[m - 1] # "nl"
    BY <2>2, <1>3, <1>6, <1>7, <1>8
  <2> QED
    BY <2>1, <2>2
<1>10. m - 1 \in NlIn(b, p, q) /\ (m - 1) + 1 = m
  BY <1>3, <1>5, <1>9 DEF NlIn
<1> QED
  BY <1>9, <1>10

----------------------------------------------------------------------------
(* Lines of the text.                                                       *)

\* The first line starts the text.
LEMMA LineZero == ASSUME NEW b PROVE LineAt(b, 0, 0)
<1>1. 0 \in EdBytes
  BY EdAssumption DEF EdBytes
<1> QED
  BY <1>1, NlOne DEF LineAt, NoNul

\* Lines have numbers, and start in filebuf.
LEMMA LineNat == ASSUME NEW b, NEW p, NEW n, LineAt(b, p, n) PROVE n \in Nat /\ p \in Nat /\ p <= EdMax
<1>1. p \in Nat /\ p <= EdMax
  BY EdAssumption DEF LineAt, EdBytes
<1> QED
  BY <1>1, NlFinite DEF LineAt

\* Lines come in their order.
LEMMA LineOrder ==
  ASSUME NEW b, NEW p, NEW n, NEW q, NEW m, LineAt(b, p, n), LineAt(b, q, m), n <= m
  PROVE  p <= q
<1>1. p \in Nat /\ q \in Nat /\ n \in Nat /\ m \in Nat
  BY LineNat
<1>2. SUFFICES ASSUME q < p PROVE FALSE
  BY <1>1
<1>3. b[p - 1] = "nl" /\ p - 1 \in Int /\ q <= p - 1
  BY <1>1, <1>2 DEF LineAt
<1>4. NlCount(b, 0, p) = NlCount(b, 0, p - 1) + NlCount(b, p - 1, p)
  BY <1>1, <1>3, NlSplit
<1>5. NlCount(b, 0, p - 1) = NlCount(b, 0, q) + NlCount(b, q, p - 1)
  BY <1>1, <1>3, NlSplit
<1>6. NlCount(b, p - 1, p) = 1
  <2> DEFINE z == p - 1
  <2>1. NlCount(b, z, z + 1) = IF b[z] = "nl" THEN 1 ELSE 0
    BY <1>3, NlOne
  <2> QED
    BY <2>1, <1>1, <1>3
<1>7. NlCount(b, q, p - 1) \in Nat
  BY <1>1, <1>3, NlFinite
<1>8. NlCount(b, 0, p) = n /\ NlCount(b, 0, q) = m
  BY DEF LineAt
<1> QED
  BY <1>1, <1>4, <1>5, <1>6, <1>7, <1>8

\* A line that starts in the text has all the newlines before it in the text.
LEMMA LineHas ==
  ASSUME NEW b, NEW p, NEW n, BufOK(b), LineAt(b, p, n)
  PROVE  /\ p <= Nul(b, 0) /\ Nul(b, p) = Nul(b, 0) /\ Nul(b, 0) \in EdBytes
         /\ NlCount(b, 0, Nul(b, 0)) = n + NlCount(b, p, Nul(b, 0))
         /\ NlCount(b, p, Nul(b, 0)) \in Nat
<1> DEFINE N == Nul(b, 0)
<1>1. p \in Nat /\ p <= EdMax /\ n \in Nat /\ 0 \in EdBytes /\ p \in EdBytes
  BY LineNat, EdAssumption DEF LineAt, EdBytes
<1>2. N \in 0 .. EdMax /\ b[N] = "nul" /\ NoNul(b, 0, N)
  BY <1>1, NulIs
<1> HIDE DEF N
<1>3. p <= N /\ N \in EdBytes
  BY <1>1, <1>2, EdAssumption DEF LineAt, NoNul, EdBytes
<1>4. NoNul(b, p, N) /\ N \in p .. EdMax
  BY <1>1, <1>2, <1>3, EdAssumption DEF NoNul
<1>5. Nul(b, p) = N
  BY <1>1, <1>2, <1>4, NulOnly
<1>6. N \in Int /\ 0 <= p /\ 0 \in Int /\ p \in Int
  BY <1>1, <1>2, EdAssumption
<1>7. NlCount(b, 0, N) = NlCount(b, 0, p) + NlCount(b, p, N)
  BY <1>3, <1>6, NlSplit
<1>8. NlCount(b, p, N) \in Nat
  BY <1>6, NlFinite
<1>9. NlCount(b, 0, p) = n
  BY DEF LineAt
<1> QED
  BY <1>3, <1>5, <1>7, <1>8, <1>9 DEF N

\* With a newline behind the start of line n there is a line n + 1.
LEMMA LineMore ==
  ASSUME NEW b, NEW p, NEW n, BufOK(b), LineAt(b, p, n),
         NEW q \in EdBytes, p <= q, NoNul(b, p, q), b[q] = "nl"
  PROVE  n + 1 <= NlCount(b, 0, Nul(b, 0))
<1> DEFINE N == Nul(b, 0)
<1>1. p \in Nat /\ n \in Nat /\ q \in Nat /\ 0 \in EdBytes
  BY LineNat, EdAssumption DEF EdBytes
<1>2. N \in 0 .. EdMax /\ b[N] = "nul" /\ NoNul(b, 0, N)
  BY <1>1, NulIs
<1>3. p <= N /\ NlCount(b, 0, N) = n + NlCount(b, p, N) /\ NlCount(b, p, N) \in Nat
  BY LineHas
<1> HIDE DEF N
<1>4. q < N
  <2>1. NoNul(b, 0, q + 1)
    BY <1>1 DEF NoNul, LineAt
  <2> QED
    BY <2>1, <1>1, <1>2 DEF NoNul
<1>5. N \in Int /\ 0 \in Int /\ p \in Int /\ q \in Int /\ q + 1 \in Int /\ 0 <= p /\ q + 1 <= N
      /\ q <= q + 1 /\ 0 <= q + 1
  BY <1>1, <1>2, <1>4
<1>6. NlCount(b, 0, q + 1) = NlCount(b, 0, q) + NlCount(b, q, q + 1) /\ NlCount(b, q, q + 1) = 1
  BY <1>1, <1>5, NlSplit, NlOne
<1>7. NlCount(b, 0, q) = NlCount(b, 0, p) + NlCount(b, p, q)
  BY <1>5, NlSplit
<1>8. NlCount(b, 0, N) = NlCount(b, 0, q + 1) + NlCount(b, q + 1, N)
  BY <1>5, NlSplit
<1>9. NlCount(b, q + 1, N) \in Nat /\ NlCount(b, p, q) \in Nat /\ NlCount(b, 0, p) = n
  BY <1>5, NlFinite DEF LineAt
<1>10. n + 1 <= NlCount(b, 0, N)
  BY <1>1, <1>6, <1>7, <1>8, <1>9
<1> QED
  BY <1>10 DEF N


\* The end of the line is where the next line starts.
LEMMA LineNext ==
  ASSUME NEW b, NEW p, NEW n, LineAt(b, p, n),
         NEW q \in EdBytes, p <= q, q < EdMax, b[q] = "nl",
         \A r \in p .. q - 1 : b[r] \notin {"nl", "nul"}
  PROVE  LineAt(b, q + 1, n + 1)
<1>1. p \in Nat /\ n \in Nat /\ q \in Nat /\ q + 1 \in EdBytes
  BY LineNat, EdAssumption DEF EdBytes
<1>2. NoNul(b, 0, q + 1)
  BY <1>1 DEF NoNul, LineAt
<1>3. NlIn(b, p, q) = {}
  BY <1>1 DEF NlIn
<1>4. NlCount(b, p, q) = 0
  BY <1>3, FS_EmptySet DEF NlCount
<1>5. NlCount(b, 0, q) = NlCount(b, 0, p) + NlCount(b, p, q)
  BY <1>1, NlSplit
<1>6. NlCount(b, 0, q + 1) = NlCount(b, 0, q) + NlCount(b, q, q + 1) /\ NlCount(b, q, q + 1) = 1
  BY <1>1, NlSplit, NlOne
<1>7. NlCount(b, 0, q + 1) = n + 1
  BY <1>1, <1>4, <1>5, <1>6 DEF LineAt
<1> QED
  BY <1>1, <1>2, <1>7 DEF LineAt

\* What is behind a line does not matter for it.
LEMMA LineKept ==
  ASSUME NEW b, NEW c, NEW p, NEW n, LineAt(b, p, n), NEW q \in Nat, p <= q, SameBelow(b, c, q)
  PROVE  LineAt(c, p, n)
<1>1. p \in Nat
  BY LineNat
<1>2. \A r \in 0 .. p - 1 : c[r] = b[r]
  BY <1>1 DEF SameBelow
<1>3. NlIn(c, 0, p) = NlIn(b, 0, p)
  BY <1>2 DEF NlIn
<1>4. NoNul(c, 0, p) /\ (p = 0 \/ c[p - 1] = "nl")
  BY <1>1, <1>2 DEF LineAt, NoNul
<1> QED
  BY <1>3, <1>4 DEF LineAt, NlCount

\* uline and utop: from the start of a line they find that of a later one.
LEMMA LineFromNl ==
  ASSUME NEW b, NEW p \in EdBytes, NEW k \in Nat \ {0}, BufOK(b), NlCount(b, p, Nul(b, p)) >= k
  PROVE  \E x \in NlIn(b, p, Nul(b, p)) : LineFrom(b, p, k) = x + 1 /\ NlCount(b, p, x + 1) = k
<1> DEFINE N == Nul(b, p)
           S == Newlines(b, p)
<1>1. p \in Nat /\ N \in Nat /\ p <= N
  BY NulIs, EdAssumption DEF EdBytes
<1>2. S = NlIn(b, p, N)
  BY DEF Newlines, NlIn
<1> HIDE DEF N, S
<1>3. \A q \in S : {r \in S : r <= q} = NlIn(b, p, q + 1)
  BY <1>1, <1>2 DEF NlIn
<1>4. \E x \in S : Cardinality({r \in S : r <= x}) = k
  <2>1. \E x \in NlIn(b, p, N) : NlCount(b, p, x + 1) = k
    BY <1>1, NlReach DEF N
  <2> QED
    BY <2>1, <1>2, <1>3 DEF NlCount
<1> DEFINE x == CHOOSE q \in S : Cardinality({r \in S : r <= q}) = k
<1>5. x \in S /\ Cardinality({r \in S : r <= x}) = k
  BY <1>4
<1>6. LineFrom(b, p, k) = 1 + x
  <2>1. ~(Cardinality(S) < k)
    <3>1. Cardinality(S) = NlCount(b, p, N)
      BY <1>2 DEF NlCount
    <3>2. NlCount(b, p, N) \in Nat
      BY <1>1, NlFinite
    <3> QED
      BY <3>1, <3>2 DEF N
  <2> QED
    BY <2>1 DEF LineFrom, S
<1> HIDE DEF x
<1>7. x \in NlIn(b, p, N) /\ NlCount(b, p, x + 1) = k /\ x \in Int
  BY <1>1, <1>2, <1>3, <1>5 DEF NlCount, NlIn
<1>8. LineFrom(b, p, k) = x + 1
  BY <1>6, <1>7
<1> QED
  BY <1>7, <1>8 DEF N

\* Wherever they start, what uline and utop find is in filebuf.
LEMMA LineFromIn ==
  ASSUME NEW b, NEW p \in EdBytes, NEW k \in Nat, BufOK(b)
  PROVE  LineFrom(b, p, k) \in EdBytes
<1>1. Nul(b, p) \in p .. EdMax /\ p \in Nat
  BY NulIs, EdAssumption DEF EdBytes
<1>2. CASE k = 0
  BY <1>2 DEF LineFrom
<1>3. CASE k # 0 /\ Cardinality(Newlines(b, p)) < k
  BY <1>1, <1>3, EdAssumption DEF LineFrom, EdBytes
<1>4. CASE k # 0 /\ ~(Cardinality(Newlines(b, p)) < k)
  <2>1. Newlines(b, p) = NlIn(b, p, Nul(b, p))
    BY DEF Newlines, NlIn
  <2>2. NlCount(b, p, Nul(b, p)) \in Nat
    BY <1>1, NlFinite
  <2>3. NlCount(b, p, Nul(b, p)) >= k
    BY <1>4, <2>1, <2>2 DEF NlCount
  <2>4. PICK x \in NlIn(b, p, Nul(b, p)) : LineFrom(b, p, k) = x + 1
    BY <1>4, <2>3, LineFromNl
  <2> QED
    BY <1>1, <2>4, EdAssumption DEF NlIn, EdBytes
<1> QED
  BY <1>2, <1>3, <1>4

\* From the start of line n they find line n + k, if the text has it.
LEMMA LineFromAt ==
  ASSUME NEW b, NEW p, NEW n, NEW k \in Nat, BufOK(b), LineAt(b, p, n),
         n + k <= NlCount(b, 0, Nul(b, 0))
  PROVE  LineAt(b, LineFrom(b, p, k), n + k)
<1>1. p \in Nat /\ p <= EdMax /\ n \in Nat /\ p \in EdBytes
  BY LineNat DEF LineAt
<1>2. CASE k = 0
  BY <1>1, <1>2 DEF LineFrom
<1>3. CASE k # 0
  <2>1. /\ p <= Nul(b, 0) /\ Nul(b, p) = Nul(b, 0) /\ Nul(b, 0) \in EdBytes
        /\ NlCount(b, 0, Nul(b, 0)) = n + NlCount(b, p, Nul(b, 0)) /\ NlCount(b, p, Nul(b, 0)) \in Nat
    BY LineHas
  <2>2. NlCount(b, p, Nul(b, p)) >= k
    BY <1>1, <2>1
  <2>3. PICK x \in NlIn(b, p, Nul(b, p)) : LineFrom(b, p, k) = x + 1 /\ NlCount(b, p, x + 1) = k
    BY <1>1, <1>3, <2>2, LineFromNl
  <2>4. Nul(b, p) \in p .. EdMax /\ NoNul(b, p, Nul(b, p))
    BY <1>1, NulIs
  <2>5. x \in Nat /\ p <= x /\ x < Nul(b, p) /\ b[x] = "nl" /\ x + 1 \in EdBytes
    BY <1>1, <2>3, <2>4, EdAssumption DEF NlIn, EdBytes
  <2>6. NoNul(b, 0, x + 1)
    BY <1>1, <2>4, <2>5, EdAssumption DEF NoNul, LineAt
  <2>7. NlCount(b, 0, x + 1) = NlCount(b, 0, p) + NlCount(b, p, x + 1)
    BY <1>1, <2>5, NlSplit
  <2>8. NlCount(b, 0, x + 1) = n + k
    BY <2>3, <2>7 DEF LineAt
  <2>9. (x + 1) - 1 = x
    BY <2>5
  <2>10. LineAt(b, x + 1, n + k)
    BY <2>5, <2>6, <2>8, <2>9 DEF LineAt
  <2> QED
    BY <2>3, <2>10
<1> QED
  BY <1>2, <1>3

\* A cursor at the start of its line is where utop and uline find that line.
LEMMA LineIsFrom ==
  ASSUME NEW b, NEW p, NEW n, BufOK(b), LineAt(b, p, n)
  PROVE  LineFrom(b, 0, n) = p
<1>1. n \in Nat /\ p \in Nat
  BY LineNat
<1>2. n <= NlCount(b, 0, Nul(b, 0))
  BY <1>1, LineHas
<1>3. LineAt(b, 0, 0)
  BY LineZero
<1>4. LineAt(b, LineFrom(b, 0, n), n)
  <2>1. LineAt(b, LineFrom(b, 0, n), 0 + n)
    BY <1>1, <1>2, <1>3, LineFromAt
  <2> QED
    BY <2>1, <1>1
<1> DEFINE q == LineFrom(b, 0, n)
<1>5. q \in Nat
  BY <1>4, LineNat
<1>6. q <= p /\ p <= q
  BY <1>1, <1>4, LineOrder
<1> HIDE DEF q
<1>7. q = p
  BY <1>1, <1>5, <1>6
<1> QED
  BY <1>7 DEF q

\* utop and uline, one after the other, find the lines t and y of the text.
LEMMA LinesFound ==
  ASSUME NEW b, BufOK(b), NEW y \in Nat, NEW t \in Nat, t <= y, y <= NlCount(b, 0, Nul(b, 0))
  PROVE  LineAt(b, Utop(b, t), t) /\ LineAt(b, Uline(b, Utop(b, t), y, t), y)
<1>1. NlCount(b, 0, Nul(b, 0)) \in Nat
  BY LineZero, LineHas
<1>2. LineAt(b, Utop(b, t), 0 + t)
  <2>1. LineAt(b, 0, 0) /\ 0 + t <= NlCount(b, 0, Nul(b, 0))
    BY <1>1, LineZero
  <2> QED
    BY <2>1, LineFromAt DEF Utop
<1>3. 0 + t = t /\ y - t \in Nat /\ t + (y - t) = y
  OBVIOUS
<1>4. LineAt(b, Utop(b, t), t)
  BY <1>2, <1>3
<1>5. LineAt(b, LineFrom(b, Utop(b, t), y - t), t + (y - t))
  BY <1>3, <1>4, LineFromAt
<1> QED
  BY <1>3, <1>4, <1>5 DEF Uline

----------------------------------------------------------------------------
(* What is done to the text stays in filebuf, and does nothing before the    *)
(* place where it is done.                                                   *)

\* memmove, within filebuf and not over its last byte.
LEMMA MovedIs ==
  ASSUME NEW b, BufOK(b), NEW dst \in EdBytes, NEW src \in EdBytes, NEW n \in Nat,
         dst + n <= EdMax, src + n <= EdMax + 1
  PROVE  BufOK(Memmove(b, dst, src, n)) /\ SameBelow(b, Memmove(b, dst, src, n), dst)
<1> DEFINE c == Memmove(b, dst, src, n)
<1>1. c = [i \in EdBytes |-> IF i \in dst .. dst + n - 1 THEN b[src + i - dst] ELSE b[i]]
  BY DEF Memmove
<1>2. dst \in Nat /\ src \in Nat /\ dst <= EdMax /\ EdMax \in EdBytes
  BY EdAssumption DEF EdBytes
<1> HIDE DEF c
<1>3. ASSUME NEW i \in EdBytes, i \in dst .. dst + n - 1 PROVE src + i - dst \in EdBytes
  BY <1>2, <1>3, EdAssumption DEF EdBytes
<1>4. ASSUME NEW i \in EdBytes PROVE c[i] \in EdByte
  BY <1>1, <1>3 DEF BufOK
<1>5. c \in [EdBytes -> EdByte]
  BY <1>1, <1>4
<1>6. c[EdMax] = "nul"
  BY <1>1, <1>2, EdAssumption DEF BufOK
<1>7. SameBelow(b, c, dst)
  BY <1>1, <1>2, EdAssumption DEF SameBelow, EdBytes
<1> QED
  BY <1>5, <1>6, <1>7 DEF BufOK, c

\* A string moves down: deleting a line, a byte or a newline.
LEMMA RemovedIs ==
  ASSUME NEW b, BufOK(b), NEW p \in EdBytes, NEW src \in EdBytes, p < src,
         NoNul(b, p, src)
  PROVE  BufOK(Removed(b, p, src)) /\ SameBelow(b, Removed(b, p, src), p)
<1> DEFINE n == Nul(b, p) - src + 1
<1>1. Nul(b, p) \in src .. EdMax /\ p \in Nat /\ src \in Nat
  <2>1. Nul(b, p) \in p .. EdMax /\ b[Nul(b, p)] = "nul" /\ p \in Nat /\ src \in Nat
    BY NulIs, EdAssumption DEF EdBytes
  <2> QED
    BY <2>1, EdAssumption DEF NoNul
<1>2. n \in Nat /\ p + n <= EdMax /\ src + n <= EdMax + 1
  BY <1>1, EdAssumption
<1>3. Removed(b, p, src) = Memmove(b, p, src, n)
  BY DEF Removed
<1> HIDE DEF n
<1> QED
  BY <1>2, <1>3, MovedIs

\* One byte is set.
LEMMA SetIs ==
  ASSUME NEW b, BufOK(b), NEW p \in EdBytes, p < EdMax, NEW c \in EdByte
  PROVE  /\ BufOK([b EXCEPT ![p] = c]) /\ SameBelow(b, [b EXCEPT ![p] = c], p)
         /\ [b EXCEPT ![p] = c][p] = c
<1>1. p \in Nat /\ EdMax \in EdBytes /\ p # EdMax
  BY EdAssumption DEF EdBytes
<1>2. \A i \in EdBytes : [b EXCEPT ![p] = c][i] = IF i = p THEN c ELSE b[i]
  BY DEF BufOK
<1>3. \A r \in 0 .. p - 1 : r \in EdBytes /\ r # p
  BY <1>1, EdAssumption DEF EdBytes
<1> QED
  BY <1>1, <1>2, <1>3 DEF BufOK, SameBelow

\* What is done behind q is done behind p.
LEMMA SameFurther ==
  ASSUME NEW b, NEW c, NEW d, NEW p \in Nat, NEW q \in Nat, p <= q,
         SameBelow(b, c, p), SameBelow(c, d, q)
  PROVE  SameBelow(b, d, p)
BY DEF SameBelow

\* What is done behind q is done behind each place before q.
LEMMA SameLess ==
  ASSUME NEW b, NEW c, NEW p \in Nat, NEW q \in Nat, p <= q, SameBelow(b, c, q)
  PROVE  SameBelow(b, c, p)
BY DEF SameBelow

\* A string moves up, and a byte takes its place: o, O and Return.
LEMMA InsertedIs ==
  ASSUME NEW b, BufOK(b), NEW p \in EdBytes, NEW c \in EdByte, Opens(b, p)
  PROVE  /\ BufOK(Inserted(b, p, c)) /\ SameBelow(b, Inserted(b, p, c), p)
         /\ Inserted(b, p, c)[p] = c /\ p + 1 < EdMax
<1> DEFINE n == Nul(b, p) - p + 1
           m == Memmove(b, p + 1, p, n)
<1>1. Nul(b, p) \in p .. EdMax /\ p \in Nat /\ Nul(b, p) + 1 < EdMax
  BY NulIs, EdAssumption DEF EdBytes, Opens
<1>2. n \in Nat /\ (p + 1) + n <= EdMax /\ p + n <= EdMax + 1 /\ p + 1 \in EdBytes /\ p + 1 < EdMax
  BY <1>1, EdAssumption DEF EdBytes
<1>3. Inserted(b, p, c) = [m EXCEPT ![p] = c]
  BY DEF Inserted
<1> HIDE DEF n
<1>4. BufOK(m) /\ SameBelow(b, m, p + 1)
  BY <1>2, MovedIs
<1> HIDE DEF m
<1>5. SameBelow(b, m, p)
  BY <1>1, <1>4, SameLess
<1>6. BufOK([m EXCEPT ![p] = c]) /\ SameBelow(m, [m EXCEPT ![p] = c], p) /\ [m EXCEPT ![p] = c][p] = c
  <2>1. p < EdMax
    BY <1>1, <1>2, EdAssumption
  <2> QED
    BY <1>4, <2>1, SetIs
<1>7. SameBelow(b, [m EXCEPT ![p] = c], p)
  BY <1>1, <1>5, <1>6, SameFurther
<1> QED
  BY <1>2, <1>3, <1>6, <1>7

\* store's line: what is kept of linebuf, and then a newline.
EdLineOK == edLine \in [0 .. EdCols - 1 -> EdText]

\* It is at least one byte, and no more than the screen is wide.
LEMMA KeptIs == ASSUME EdLineOK PROVE Kept \in 1 .. EdCols
<1> DEFINE used == {i \in 1 .. EdCols - 1 : edLine[i] # "sp"}
<1>1. Kept = 1 + (IF used = {} THEN 0 ELSE CHOOSE i \in used : \A j \in used : j <= i)
  BY DEF Kept
<1>2. used \subseteq 1 .. EdCols - 1
  OBVIOUS
<1> HIDE DEF used
<1>3. CASE used = {}
  BY <1>1, <1>3, EdAssumption
<1>4. CASE used # {}
  <2> DEFINE T == {EdCols - i : i \in used}
  <2>1. T \subseteq Nat /\ T # {}
    <3>1. \A i \in used : EdCols - i \in Nat
      BY <1>2, EdAssumption
    <3> QED
      BY <1>4, <3>1, Zenon
  <2>2. PICK n \in T : \A m \in T : n <= m
    BY <2>1, HasLeast
  <2>3. \E i \in used : \A j \in used : j <= i
    <3>1. PICK i \in used : n = EdCols - i
      BY <2>2
    <3>2. \A j \in used : EdCols - i <= EdCols - j
      BY <2>2, <3>1
    <3>3. \A j \in used : j <= i
      BY <1>2, <3>2, EdAssumption
    <3> QED
      BY <3>3
  <2> DEFINE x == CHOOSE i \in used : \A j \in used : j <= i
  <2>4. x \in used
    BY <2>3
  <2> HIDE DEF x
  <2>5. Kept = 1 + x
    BY <1>1, <1>4 DEF x
  <2> QED
    BY <1>2, <2>4, <2>5, EdAssumption
<1> QED
  BY <1>3, <1>4

\* memcpy, within filebuf and not over its last byte.
LEMMA CopiedIs ==
  ASSUME NEW b, BufOK(b), NEW p \in EdBytes, NEW s, NEW n \in Nat, p + n <= EdMax,
         \A i \in 0 .. n - 1 : s[i] \in EdByte
  PROVE  /\ BufOK(Memcpy(b, p, s, n)) /\ SameBelow(b, Memcpy(b, p, s, n), p)
         /\ \A i \in 0 .. n - 1 : Memcpy(b, p, s, n)[p + i] = s[i]
<1> DEFINE c == Memcpy(b, p, s, n)
<1>1. c = [i \in EdBytes |-> IF i \in p .. p + n - 1 THEN s[i - p] ELSE b[i]]
  BY DEF Memcpy
<1>2. p \in Nat /\ EdMax \in EdBytes
  BY EdAssumption DEF EdBytes
<1> HIDE DEF c
<1>3. ASSUME NEW i \in EdBytes PROVE c[i] \in EdByte
  <2>1. CASE i \in p .. p + n - 1
    <3>1. i - p \in 0 .. n - 1
      BY <1>2, <2>1, EdAssumption DEF EdBytes
    <3> QED
      BY <1>1, <2>1, <3>1
  <2>2. CASE i \notin p .. p + n - 1
    BY <1>1, <2>2 DEF BufOK
  <2> QED
    BY <2>1, <2>2
<1>4. c \in [EdBytes -> EdByte]
  BY <1>1, <1>3
<1>5. c[EdMax] = "nul"
  BY <1>1, <1>2, EdAssumption DEF BufOK
<1>6. SameBelow(b, c, p)
  BY <1>1, <1>2, EdAssumption DEF SameBelow, EdBytes
<1>7. ASSUME NEW i \in 0 .. n - 1 PROVE c[p + i] = s[i]
  <2>1. p + i \in EdBytes /\ p + i \in p .. p + n - 1 /\ (p + i) - p = i
    BY <1>2, EdAssumption DEF EdBytes
  <2> QED
    BY <1>1, <2>1
<1> QED
  BY <1>4, <1>5, <1>6, <1>7 DEF BufOK, c

\* store leaves the line in linebuf at lineptr, a newline behind it, and what
\* was before lineptr.
LEMMA StoredIs ==
  ASSUME BufOK(edBuf), edLp \in EdBytes, edEnd \in EdBytes, EdLineOK, Fits1
  PROVE  /\ BufOK(Stored1) /\ SameBelow(edBuf, Stored1, edLp)
         /\ Kept \in 1 .. EdCols /\ edLp + Kept \in EdBytes
         /\ \A i \in 0 .. Kept - 1 : Stored1[edLp + i] = edLine[i]
         /\ Stored1[edLp + Kept] = "nl"
<1> DEFINE k == Kept
           n == Nul(edBuf, edEnd) - edEnd + 1
           m == Memmove(edBuf, edLp + k, edEnd, n)
           c == Memcpy(m, edLp, edLine, k)
           s == [c EXCEPT ![edLp + k] = "nl"]
<1>1. Stored1 = s
  BY DEF Stored1
<1>2. k \in 1 .. EdCols
  BY KeptIs
<1>3. Nul(edBuf, edEnd) \in edEnd .. EdMax /\ edEnd \in Nat /\ edLp \in Nat
  BY NulIs, EdAssumption DEF EdBytes
<1>4. edLp + k + Nul(edBuf, edEnd) - edEnd < EdMax
  BY DEF Fits1
<1> HIDE DEF k
<1>5. n \in Nat /\ edLp + k + n <= EdMax /\ edEnd + n <= EdMax + 1
      /\ edLp + k < EdMax /\ edLp + k \in EdBytes /\ k \in Nat
  BY <1>2, <1>3, <1>4, EdAssumption DEF EdBytes
<1> HIDE DEF n
<1>6. BufOK(m) /\ SameBelow(edBuf, m, edLp + k)
  BY <1>5, MovedIs
<1> HIDE DEF m
<1>7. \A i \in 0 .. k - 1 : edLine[i] \in EdByte
  BY <1>2, EdAssumption DEF EdLineOK, EdText
<1>8. BufOK(c) /\ SameBelow(m, c, edLp) /\ \A i \in 0 .. k - 1 : c[edLp + i] = edLine[i]
  <2>1. edLp + k <= EdMax
    BY <1>3, <1>5, EdAssumption
  <2> QED
    BY <1>5, <1>6, <1>7, <2>1, CopiedIs
<1> HIDE DEF c
<1>9. "nl" \in EdByte
  BY DEF EdByte
<1>10. BufOK(s) /\ SameBelow(c, s, edLp + k) /\ s[edLp + k] = "nl"
  BY <1>5, <1>8, <1>9, SetIs
<1> HIDE DEF s
<1>11. SameBelow(edBuf, m, edLp)
  BY <1>3, <1>5, <1>6, SameLess
<1>12. SameBelow(edBuf, c, edLp)
  BY <1>3, <1>8, <1>11, SameFurther
<1>13. SameBelow(edBuf, s, edLp)
  BY <1>3, <1>5, <1>10, <1>12, SameFurther
<1>14. ASSUME NEW i \in 0 .. k - 1 PROVE s[edLp + i] = edLine[i]
  <2>1. edLp + i \in 0 .. (edLp + k) - 1
    BY <1>3, <1>5
  <2> QED
    BY <1>8, <1>10, <2>1 DEF SameBelow
<1> QED
  BY <1>1, <1>2, <1>5, <1>10, <1>13, <1>14 DEF k

----------------------------------------------------------------------------
(* The invariant of the editor.                                             *)

EdModes == {"loop", "insert", "out"}
\* y stays on the screen, whatever lineptr is.
EdTypeOK ==
  /\ BufOK(edBuf) /\ edLp \in EdBytes /\ edTop \in EdBytes /\ edEnd \in EdBytes
  /\ edX \in Nat /\ edY \in Nat /\ edT \in Nat /\ edY - edT \in 0 .. EdRows - 1
  /\ edDirty \in BOOLEAN /\ edQuiet \in BOOLEAN /\ edStale \in BOOLEAN /\ edMode \in EdModes
  /\ edMode = "insert" => EdLineOK /\ edX <= EdCols + 1
\* The cursor and the window are at the starts of their lines.
Placed == ~edStale => LineAt(edBuf, edLp, edY) /\ LineAt(edBuf, edTop, edT)
\* What :q does not lose.
OnDisk == ~edDirty /\ ~edQuiet => edDisk = Text(edBuf)
EdInv  == EdTypeOK /\ Placed /\ OnDisk

\* It is enough for the property.
LEMMA EdEnough == ASSUME EdInv PROVE EditorExact
<1>1. ASSUME ~edStale PROVE edTop = LineFrom(edBuf, 0, edT) /\ edLp = LineFrom(edBuf, 0, edY)
  BY <1>1, LineIsFrom DEF EdInv, EdTypeOK, Placed
<1> QED
  BY <1>1 DEF EdInv, EdTypeOK, OnDisk, EditorExact

\* What is done behind lineptr leaves the cursor and the window where they are.
LEMMA EdKeeps ==
  ASSUME EdInv, SameBelow(edBuf, edBuf', edLp), UNCHANGED <<edLp, edTop, edY, edT, edStale>>
  PROVE  Placed'
<1>1. SUFFICES ASSUME ~edStale PROVE LineAt(edBuf', edLp, edY) /\ LineAt(edBuf', edTop, edT)
  BY DEF Placed
<1>2. LineAt(edBuf, edLp, edY) /\ LineAt(edBuf, edTop, edT)
  BY <1>1 DEF EdInv, Placed
<1>3. edT <= edY
  BY EdAssumption DEF EdInv, EdTypeOK
<1>4. edTop <= edLp /\ edLp \in Nat /\ edTop \in Nat /\ edLp <= edLp
  BY <1>2, <1>3, LineOrder, LineNat
<1> QED
  BY <1>2, <1>4, LineKept

\* Where the file is read.
LEMMA ReadIs ==
  ASSUME NEW b, BufOK(b), NEW f \in EdFiles
  PROVE  BufOK(ReadIn(b, f)) /\ (~Differs(b, f) => f = Text(ReadIn(b, f)))
<1> DEFINE g == Reading1(b, f)
           h == ReadIn(b, f)
           n == Len(f)
<1>1. n \in Nat /\ n <= EdMax /\ f \in [1 .. n -> EdText] /\ 0 \in EdBytes /\ EdMax \in EdBytes
  <2>1. n <= EdMax /\ f \in Seq(EdText)
    BY EdAssumption DEF EdText
  <2>2. n \in Nat /\ f \in [1 .. n -> EdText]
    BY <2>1, LenProperties
  <2> HIDE DEF n
  <2> QED
    BY <2>1, <2>2, EdAssumption DEF EdBytes
<1>2. g = [i \in EdBytes |-> IF i < n THEN f[i + 1] ELSE b[i]]
  BY DEF Reading1
<1> HIDE DEF n, g
<1>3. ASSUME NEW i \in EdBytes PROVE g[i] \in EdByte
  <2>1. CASE i < n
    <3>1. i + 1 \in 1 .. n
      BY <1>1, <2>1, EdAssumption DEF EdBytes
    <3> QED
      BY <1>1, <1>2, <2>1, <3>1 DEF EdText
  <2>2. CASE ~(i < n)
    BY <1>2, <2>2 DEF BufOK
  <2> QED
    BY <2>1, <2>2
<1>4. g \in [EdBytes -> EdByte] /\ g[EdMax] = "nul"
  <2>1. ~(EdMax < n)
    BY <1>1, EdAssumption
  <2> QED
    BY <1>1, <1>2, <1>3, <2>1 DEF BufOK
<1>5. h = [i \in EdBytes |-> IF i < Nul(g, 0) THEN Detab(g[i]) ELSE g[i]]
  BY DEF ReadIn, g
<1> HIDE DEF h
<1>6. BufOK(h)
  <2>1. ASSUME NEW i \in EdBytes PROVE h[i] \in EdByte
    BY <1>3, <1>5 DEF Detab, EdByte
  <2>2. Detab("nul") = "nul"
    BY DEF Detab
  <2>3. h[EdMax] = "nul"
    BY <1>1, <1>4, <1>5, <2>2
  <2> QED
    BY <1>5, <2>1, <2>3 DEF BufOK
<1>7. ASSUME ~Differs(b, f) PROVE f = Text(h)
  <2>1. b[n] = "nul" /\ \A i \in DOMAIN f : f[i] # "tab"
    BY <1>7 DEF Differs, n
  <2>2. DOMAIN f = 1 .. n /\ n \in EdBytes
    BY <1>1, EdAssumption DEF EdBytes
  <2>3. g[n] = "nul"
    BY <1>1, <1>2, <2>1, <2>2
  <2>4. ASSUME NEW i \in 0 .. n - 1 PROVE g[i] = f[i + 1] /\ g[i] # "nul" /\ g[i] # "tab" /\ i \in EdBytes
    <3>1. i + 1 \in 1 .. n /\ i \in EdBytes /\ i < n
      BY <1>1, EdAssumption DEF EdBytes
    <3>2. g[i] = f[i + 1]
      BY <1>2, <3>1
    <3>3. f[i + 1] \in EdText /\ f[i + 1] # "tab"
      BY <1>1, <2>1, <2>2, <3>1
    <3> QED
      BY <3>1, <3>2, <3>3 DEF EdText
  <2>5. Nul(g, 0) = n
    <3>1. BufOK(g)
      BY <1>4 DEF BufOK
    <3>2. NoNul(g, 0, n) /\ n \in 0 .. EdMax
      BY <1>1, <2>4, EdAssumption DEF NoNul
    <3> QED
      BY <1>1, <2>3, <3>1, <3>2, NulOnly
  <2>6. ASSUME NEW i \in 0 .. n - 1 PROVE h[i] = f[i + 1] /\ h[i] # "nul"
    <3>1. i < n
      BY <1>1
    <3>2. h[i] = Detab(g[i])
      BY <1>5, <2>4, <2>5, <3>1
    <3> QED
      BY <2>4, <3>2 DEF Detab
  <2>7. h[n] = "nul"
    BY <1>1, <1>5, <2>2, <2>3, <2>5
  <2>8. Nul(h, 0) = n
    <3>1. NoNul(h, 0, n) /\ n \in 0 .. EdMax
      BY <1>1, <2>6, EdAssumption DEF NoNul
    <3> QED
      BY <1>1, <1>6, <2>7, <3>1, NulOnly
  <2>9. Text(h) = [i \in 1 .. n |-> h[i - 1]]
    BY <2>8 DEF Text
  <2>10. ASSUME NEW i \in 1 .. n PROVE h[i - 1] = f[i]
    <3> DEFINE j == i - 1
    <3>1. j \in 0 .. n - 1 /\ j + 1 = i
      BY <1>1
    <3> HIDE DEF j
    <3>2. h[j] = f[i]
      BY <2>6, <3>1
    <3> QED
      BY <3>2 DEF j
  <2>11. f = [i \in 1 .. n |-> f[i]]
    BY <1>1
  <2> QED
    BY <2>9, <2>10, <2>11
<1> QED
  BY <1>6, <1>7 DEF h

----------------------------------------------------------------------------
(* The steps of the editor.                                                 *)

\* main: the cursor is at the start of what is read.
LEMMA EdStarts == ASSUME EdInit PROVE EdInv
<1> DEFINE z == [i \in EdBytes |-> "nul"]
<1>1. BufOK(z)
  BY EdAssumption DEF BufOK, EdByte, EdBytes
<1>2. BufOK(edBuf) /\ (~Differs(z, edDisk) => edDisk = Text(edBuf))
  BY <1>1, ReadIs DEF EdInit
<1>3. EdTypeOK
  <2>1. Differs(z, edDisk) \in BOOLEAN
    BY DEF Differs
  <2>2. 0 \in EdBytes /\ 0 - 0 \in 0 .. EdRows - 1
    BY EdAssumption DEF EdBytes
  <2> QED
    BY <1>2, <2>1, <2>2 DEF EdInit, EdTypeOK, EdModes
<1>4. Placed
  BY LineZero DEF EdInit, Placed
<1>5. OnDisk
  BY <1>2 DEF EdInit, OnDisk
<1> QED
  BY <1>3, <1>4, <1>5 DEF EdInv

\* ^, $, h and l move x only.
LEMMA EdMoveX == ASSUME EdInv, MoveX PROVE EdInv'
<1>1. Eol(edBuf, edLp) \in edLp .. EdMax /\ edLp \in Nat
  BY EolIs, EdAssumption DEF EdInv, EdTypeOK, EdBytes
<1>2. edX' \in Nat
  BY <1>1 DEF EdInv, EdTypeOK, MoveX, Len1
<1>3. EdTypeOK'
  BY <1>2 DEF EdInv, EdTypeOK, MoveX, Still, EdLoop, BufOK, EdLineOK
<1>4. Placed' /\ OnDisk'
  BY DEF EdInv, Placed, OnDisk, MoveX, Still, LineAt, NlCount, NlIn, NoNul, Text, Nul
<1> QED
  BY <1>3, <1>4 DEF EdInv

\* Where the lines are counted from the start, the cursor is at its line.
LEMMA EdAtLine ==
  ASSUME EdInv, NEW y \in Nat, NEW t \in Nat, t <= y, y - t \in 0 .. EdRows - 1,
         AtLine(edBuf, y, t), EdLoop, Still, UNCHANGED <<edBuf, edX, edDirty, edQuiet, edStale>>,
         ~edStale => y <= NlCount(edBuf, 0, Nul(edBuf, 0))
  PROVE  EdInv'
<1>1. BufOK(edBuf) /\ 0 \in EdBytes /\ y - t \in Nat
  BY EdAssumption DEF EdInv, EdTypeOK, EdBytes
<1>2. edTop' \in EdBytes /\ edLp' \in EdBytes
  <2>1. edTop' \in EdBytes
    BY <1>1, LineFromIn DEF AtLine, Utop
  <2>2. edLp' = LineFrom(edBuf, edTop', y - t)
    BY DEF AtLine, Uline
  <2> QED
    BY <1>1, <2>1, <2>2, LineFromIn
<1>3. EdTypeOK'
  BY <1>2 DEF EdInv, EdTypeOK, AtLine, Still, EdLoop, BufOK, EdLineOK
<1>4. Placed'
  <2>1. SUFFICES ASSUME ~edStale PROVE LineAt(edBuf', edLp', edY') /\ LineAt(edBuf', edTop', edT')
    BY DEF Placed
  <2>2. LineAt(edBuf, Utop(edBuf, t), t) /\ LineAt(edBuf, Uline(edBuf, Utop(edBuf, t), y, t), y)
    BY <1>1, <2>1, LinesFound
  <2> QED
    BY <2>2 DEF AtLine
<1>5. OnDisk'
  BY DEF EdInv, OnDisk, Still
<1> QED
  BY <1>3, <1>4, <1>5 DEF EdInv

\* k: the line above is there, as y is not 0.
LEMMA EdUp == ASSUME EdInv, Up PROVE EdInv'
<1> DEFINE y == edY - 1
           t == IF y < edT THEN y ELSE edT
<1>1. edY \in Nat /\ edT \in Nat /\ edY - edT \in 0 .. EdRows - 1 /\ edY > 0
  BY DEF EdInv, EdTypeOK, Up
<1>2. y \in Nat /\ t \in Nat /\ t <= y /\ y - t \in 0 .. EdRows - 1
  BY <1>1, EdAssumption
<1>3. ASSUME ~edStale PROVE y <= NlCount(edBuf, 0, Nul(edBuf, 0))
  <2>1. /\ NlCount(edBuf, 0, Nul(edBuf, 0)) = edY + NlCount(edBuf, edLp, Nul(edBuf, 0))
        /\ NlCount(edBuf, edLp, Nul(edBuf, 0)) \in Nat
    BY <1>3, LineHas DEF EdInv, EdTypeOK, Placed
  <2> QED
    BY <1>1, <2>1
<1>4. /\ AtLine(edBuf, y, t) /\ EdLoop /\ Still
      /\ UNCHANGED <<edBuf, edX, edDirty, edQuiet, edStale>>
  BY DEF Up
<1> HIDE DEF y, t
<1> QED
  BY <1>2, <1>3, <1>4, EdAtLine

\* The end of a line that has one.
LEMMA EdHasNext ==
  ASSUME EdInv, HasNext
  PROVE  /\ Eol(edBuf, edLp) \in edLp .. EdMax - 1 /\ edBuf[Eol(edBuf, edLp)] = "nl"
         /\ edLp \in Nat /\ Eol(edBuf, edLp) \in EdBytes /\ Eol(edBuf, edLp) + 1 \in EdBytes
         /\ \A r \in edLp .. Eol(edBuf, edLp) - 1 : edBuf[r] \notin {"nl", "nul"}
<1> DEFINE e == Eol(edBuf, edLp)
<1>1. /\ e \in edLp .. EdMax /\ \A r \in edLp .. e - 1 : edBuf[r] \notin {"nl", "nul"}
  BY EolIs DEF EdInv, EdTypeOK
<1>2. edBuf[e] = "nl" /\ edBuf[EdMax] = "nul" /\ edLp \in Nat
  BY EdAssumption DEF HasNext, EdInv, EdTypeOK, BufOK, EdBytes
<1> HIDE DEF e
<1>3. e # EdMax
  BY <1>2
<1>4. e \in edLp .. EdMax - 1 /\ e \in EdBytes /\ e + 1 \in EdBytes
  BY <1>1, <1>2, <1>3, EdAssumption DEF EdBytes
<1> QED
  BY <1>1, <1>2, <1>4 DEF e

\* j: the line below is there, as this one ends in a newline.
LEMMA EdDown == ASSUME EdInv, Down PROVE EdInv'
<1> DEFINE y == edY + 1
           t == IF y >= edT + EdRows - 1 THEN edT + 1 ELSE edT
           e == Eol(edBuf, edLp)
<1>1. edY \in Nat /\ edT \in Nat /\ edY - edT \in 0 .. EdRows - 1
  BY DEF EdInv, EdTypeOK
<1>2. y \in Nat /\ t \in Nat /\ t <= y /\ y - t \in 0 .. EdRows - 1
  BY <1>1, EdAssumption
<1>3. ASSUME ~edStale PROVE y <= NlCount(edBuf, 0, Nul(edBuf, 0))
  <2>1. LineAt(edBuf, edLp, edY) /\ BufOK(edBuf)
    BY <1>3 DEF EdInv, EdTypeOK, Placed
  <2>2. /\ e \in edLp .. EdMax - 1 /\ edBuf[e] = "nl" /\ edLp \in Nat /\ e \in EdBytes
        /\ \A r \in edLp .. e - 1 : edBuf[r] \notin {"nl", "nul"}
    BY EdHasNext DEF Down
  <2>3. NoNul(edBuf, edLp, e) /\ edLp <= e
    BY <2>2, EdAssumption DEF NoNul
  <2> HIDE DEF e
  <2> QED
    BY <2>1, <2>2, <2>3, LineMore
<1>4. /\ AtLine(edBuf, y, t) /\ EdLoop /\ Still
      /\ UNCHANGED <<edBuf, edX, edDirty, edQuiet, edStale>>
  BY DEF Down
<1> HIDE DEF y, t
<1> QED
  BY <1>2, <1>3, <1>4, EdAtLine

\* A goto that leaves the window where it was finds its line; another one is
\* said to be stale.
LEMMA EdGoto == ASSUME EdInv, NEW l \in 0 .. EdMax, Goto(l) PROVE EdInv'
<1> DEFINE m == Cardinality(Newlines(edBuf, 0))
           y == IF l < m THEN l ELSE m
           h == EdRows \div 2
           t == IF y < h THEN 0 ELSE y - h
<1>1. BufOK(edBuf) /\ 0 \in EdBytes /\ edTop \in EdBytes
  BY EdAssumption DEF EdInv, EdTypeOK, EdBytes
<1>2. m = NlCount(edBuf, 0, Nul(edBuf, 0)) /\ m \in Nat
  <2>1. m = NlCount(edBuf, 0, Nul(edBuf, 0))
    BY DEF Newlines, NlCount, NlIn
  <2>2. Nul(edBuf, 0) \in 0 .. EdMax
    BY <1>1, NulIs
  <2>3. NlCount(edBuf, 0, Nul(edBuf, 0)) \in Nat
    BY <2>2, NlFinite
  <2> QED
    BY <2>1, <2>3
<1>3. /\ EdLoop /\ Still /\ edY' = y /\ edT' = t
      /\ edLp' = Uline(edBuf, edTop, y, t) /\ edTop' = Utop(edBuf, t)
      /\ edStale' = (edStale \/ edTop' # edTop)
      /\ UNCHANGED <<edBuf, edX, edDirty, edQuiet>>
  BY DEF Goto
<1> HIDE DEF m
<1>4. y \in Nat /\ y <= m
  BY <1>2, EdAssumption
<1> HIDE DEF y
<1>5. h \in Nat /\ h <= EdRows - 1
  BY EdAssumption
<1> HIDE DEF h
<1>6. t \in Nat /\ t <= y /\ y - t \in 0 .. EdRows - 1 /\ y - t \in Nat
  BY <1>4, <1>5, EdAssumption
<1> HIDE DEF t
<1>7. edTop' \in EdBytes /\ edLp' \in EdBytes
  BY <1>1, <1>3, <1>6, LineFromIn DEF Utop, Uline
<1>8. EdTypeOK'
  BY <1>3, <1>4, <1>6, <1>7 DEF EdInv, EdTypeOK, Still, EdLoop, BufOK, EdLineOK
<1>9. Placed'
  <2>1. SUFFICES ASSUME ~edStale' PROVE LineAt(edBuf', edLp', edY') /\ LineAt(edBuf', edTop', edT')
    BY DEF Placed
  <2>2. edTop' = edTop
    BY <1>3, <2>1
  <2>3. LineAt(edBuf, Utop(edBuf, t), t) /\ LineAt(edBuf, Uline(edBuf, Utop(edBuf, t), y, t), y)
    BY <1>1, <1>2, <1>4, <1>6, LinesFound
  <2> QED
    BY <1>3, <2>2, <2>3
<1>10. OnDisk'
  BY <1>3 DEF EdInv, OnDisk, Still
<1> QED
  BY <1>8, <1>9, <1>10 DEF EdInv

\* Text that is cut or replaced behind lineptr, and the change noted.
LEMMA EdEdited ==
  ASSUME EdInv, EdLoop, Still, UNCHANGED <<edPlace, edStale>>,
         BufOK(edBuf'), SameBelow(edBuf, edBuf', edLp),
         edDirty' \in BOOLEAN, edQuiet' \in BOOLEAN, edDirty' \/ edQuiet'
  PROVE  EdInv'
<1>1. UNCHANGED <<edLp, edTop, edX, edY, edT, edStale, edMode, edEnd, edLine>>
  BY DEF edPlace, Still
<1>2. Placed'
  BY <1>1, EdKeeps
<1>3. EdTypeOK'
  BY <1>1 DEF EdInv, EdTypeOK, EdLoop, EdLineOK
<1>4. OnDisk'
  BY DEF OnDisk
<1> QED
  BY <1>2, <1>3, <1>4 DEF EdInv

\* d: what is behind the line moves to lineptr.
LEMMA EdDeleteLine == ASSUME EdInv, DeleteLine PROVE EdInv'
<1> DEFINE e == Eol(edBuf, edLp)
<1>1. /\ e \in edLp .. EdMax - 1 /\ edBuf[e] = "nl" /\ edLp \in Nat /\ e + 1 \in EdBytes
      /\ \A r \in edLp .. e - 1 : edBuf[r] \notin {"nl", "nul"}
  BY EdHasNext DEF DeleteLine
<1>2. edBuf' = Removed(edBuf, edLp, e + 1)
  BY DEF DeleteLine
<1> HIDE DEF e
<1>3. NoNul(edBuf, edLp, e + 1) /\ edLp < e + 1
  BY <1>1, EdAssumption DEF NoNul
<1>4. BufOK(edBuf') /\ SameBelow(edBuf, edBuf', edLp)
  BY <1>1, <1>2, <1>3, RemovedIs DEF EdInv, EdTypeOK
<1> QED
  BY <1>4, EdEdited DEF DeleteLine, EdInv, EdTypeOK

\* x: the byte is behind lineptr, in this line or not.
LEMMA EdDeleteChar == ASSUME EdInv, DeleteChar PROVE EdInv'
<1> DEFINE p == edLp + edX
<1>1. p \in Nat /\ edLp \in Nat /\ edLp <= p /\ p < EdMax /\ p \in EdBytes /\ p + 1 \in EdBytes
  BY EdAssumption DEF EdInv, EdTypeOK, EdBytes, DeleteChar
<1>2. edBuf' = IF edBuf[p] = "nul" THEN edBuf ELSE Removed(edBuf, p, p + 1)
  BY DEF DeleteChar
<1> HIDE DEF p
<1>3. BufOK(edBuf)
  BY DEF EdInv, EdTypeOK
<1>4. CASE edBuf[p] = "nul"
  <2>1. BufOK(edBuf') /\ SameBelow(edBuf, edBuf', edLp)
    BY <1>2, <1>3, <1>4 DEF SameBelow
  <2> QED
    BY <2>1, EdEdited DEF DeleteChar, EdInv, EdTypeOK
<1>5. CASE edBuf[p] # "nul"
  <2>1. NoNul(edBuf, p, p + 1) /\ p < p + 1
    BY <1>1, <1>5 DEF NoNul
  <2>2. BufOK(edBuf') /\ SameBelow(edBuf, edBuf', p)
    BY <1>1, <1>2, <1>3, <1>5, <2>1, RemovedIs
  <2>3. SameBelow(edBuf, edBuf', edLp)
    BY <1>1, <2>2, SameLess
  <2> QED
    BY <2>2, <2>3, EdEdited DEF DeleteChar, EdInv, EdTypeOK
<1> QED
  BY <1>4, <1>5

\* J: the newline is behind lineptr.
LEMMA EdJoin == ASSUME EdInv, Join PROVE EdInv'
<1> DEFINE e == Eol(edBuf, edLp)
<1>1. /\ e \in edLp .. EdMax - 1 /\ edBuf[e] = "nl" /\ edLp \in Nat /\ e + 1 \in EdBytes /\ e \in EdBytes
  BY EdHasNext DEF Join
<1>2. edBuf' = Removed(edBuf, e, e + 1)
  BY DEF Join
<1> HIDE DEF e
<1>3. NoNul(edBuf, e, e + 1) /\ e < e + 1 /\ e \in Nat /\ edLp <= e
  BY <1>1, EdAssumption DEF NoNul
<1>4. BufOK(edBuf') /\ SameBelow(edBuf, edBuf', e)
  BY <1>1, <1>2, <1>3, RemovedIs DEF EdInv, EdTypeOK
<1>5. SameBelow(edBuf, edBuf', edLp)
  BY <1>1, <1>3, <1>4, SameLess
<1> QED
  BY <1>4, <1>5, EdEdited DEF Join, EdInv, EdTypeOK

\* r: the byte is in the line.
LEMMA EdReplace == ASSUME EdInv, NEW c \in EdChars, Replace(c) PROVE EdInv'
<1> DEFINE e == Eol(edBuf, edLp)
           p == edLp + edX
<1>1. e \in edLp .. EdMax - 1 /\ edLp \in Nat
  BY EdHasNext DEF Replace
<1>2. edX \in Nat /\ edX < e - edLp
  BY DEF Replace, Len1, EdInv, EdTypeOK
<1>3. edBuf' = [edBuf EXCEPT ![p] = c]
  BY DEF Replace
<1>4. p \in Nat /\ edLp <= p /\ p < EdMax /\ p \in EdBytes
  BY <1>1, <1>2, EdAssumption DEF EdBytes
<1> HIDE DEF e, p
<1>5. BufOK(edBuf) /\ c \in EdByte
  BY DEF EdInv, EdTypeOK, EdByte
<1>6. BufOK(edBuf') /\ SameBelow(edBuf, edBuf', p)
  BY <1>3, <1>4, <1>5, SetIs
<1>7. SameBelow(edBuf, edBuf', edLp)
  BY <1>1, <1>4, <1>6, SameLess
<1> QED
  BY <1>6, <1>7, EdEdited DEF Replace, EdInv, EdTypeOK

\* The line that insert copies has no NUL in it, and fits.
LEMMA EdEnters ==
  ASSUME NEW b, BufOK(b), NEW p \in EdBytes, NEW x \in Nat, x <= Eol(b, p) - p, Enters(b, p, x)
  PROVE  EdLineOK' /\ edX' \in Nat /\ edX' <= EdCols + 1 /\ edEnd' \in EdBytes /\ edMode' = "insert"
<1> DEFINE e == Eol(b, p)
<1>1. e \in p .. EdMax /\ p \in Nat /\ \A r \in p .. e - 1 : b[r] \notin {"nl", "nul"}
  BY EolIs, EdAssumption DEF EdBytes
<1>2. /\ edMode' = "insert" /\ edEnd' = e /\ edX' = x /\ e - p < EdCols
      /\ edLine' = [i \in 0 .. EdCols - 1 |-> IF i < e - p THEN b[p + i] ELSE "sp"]
  BY DEF Enters
<1> HIDE DEF e
<1>3. ASSUME NEW i \in 0 .. EdCols - 1
      PROVE  (IF i < e - p THEN b[p + i] ELSE "sp") \in EdText
  <2>1. CASE i < e - p
    <3>1. p + i \in p .. e - 1 /\ p + i \in EdBytes
      BY <1>1, <2>1, EdAssumption DEF EdBytes
    <3>2. b[p + i] # "nul" /\ b[p + i] \in EdByte
      BY <1>1, <3>1 DEF BufOK
    <3> QED
      BY <2>1, <3>2 DEF EdText
  <2>2. CASE ~(i < e - p)
    BY <2>2 DEF EdText, EdByte
  <2> QED
    BY <2>1, <2>2
<1>4. EdLineOK'
  BY <1>2, <1>3 DEF EdLineOK
<1>5. x <= EdCols + 1 /\ e \in EdBytes
  BY <1>1, <1>2, EdAssumption DEF EdBytes, e
<1> QED
  BY <1>2, <1>4, <1>5

\* i, a, A and I: the text is as it was.
LEMMA EdInsert == ASSUME EdInv, Insert PROVE EdInv'
<1>1. Eol(edBuf, edLp) \in edLp .. EdMax /\ edLp \in Nat /\ edX \in Nat
  BY EolIs, EdAssumption DEF EdInv, EdTypeOK, EdBytes
<1>2. Len1 \in Nat /\ Len1 = Eol(edBuf, edLp) - edLp
  BY <1>1 DEF Len1
<1>3. PICK x \in {IF edX > Len1 THEN Len1 ELSE edX, IF edX + 1 > Len1 THEN Len1 ELSE edX + 1, Len1, 0} :
        Enters(edBuf, edLp, x)
  BY DEF Insert
<1>4. x \in Nat /\ x <= Len1
  <2> HIDE DEF Len1
  <2> QED
    BY <1>1, <1>2
<1>5. EdLineOK' /\ edX' \in Nat /\ edX' <= EdCols + 1 /\ edEnd' \in EdBytes /\ edMode' = "insert"
  BY <1>2, <1>3, <1>4, EdEnters DEF EdInv, EdTypeOK
<1>6. EdTypeOK'
  BY <1>5 DEF EdInv, EdTypeOK, EdModes, Insert
<1>7. Placed' /\ OnDisk'
  BY DEF EdInv, Placed, OnDisk, Insert
<1> QED
  BY <1>6, <1>7 DEF EdInv

\* O: the new line takes the place and the number of this one.
LEMMA EdOpenAbove == ASSUME EdInv, OpenAbove PROVE EdInv'
<1>1. BufOK(edBuf) /\ edLp \in EdBytes /\ "nl" \in EdByte /\ 0 \in Nat /\ edLp \in Nat
  BY EdAssumption DEF EdInv, EdTypeOK, EdByte, EdBytes
<1>2. edBuf' = Inserted(edBuf, edLp, "nl") /\ Opens(edBuf, edLp)
  BY DEF OpenAbove
<1>3. BufOK(edBuf') /\ SameBelow(edBuf, edBuf', edLp)
  BY <1>1, <1>2, InsertedIs
<1>4. 0 <= Eol(edBuf', edLp) - edLp
  <2>1. Eol(edBuf', edLp) \in edLp .. EdMax
    BY <1>1, <1>3, EolIs
  <2> QED
    BY <1>1, <2>1, EdAssumption
<1>5. EdLineOK' /\ edX' \in Nat /\ edX' <= EdCols + 1 /\ edEnd' \in EdBytes /\ edMode' = "insert"
  <2>1. Enters(edBuf', edLp, 0)
    BY DEF OpenAbove
  <2> QED
    BY <1>1, <1>3, <1>4, <2>1, EdEnters
<1>6. EdTypeOK'
  BY <1>3, <1>5 DEF EdInv, EdTypeOK, EdModes, OpenAbove
<1>7. Placed'
  BY <1>3, EdKeeps DEF OpenAbove
<1>8. OnDisk'
  BY DEF OnDisk, OpenAbove
<1> QED
  BY <1>6, <1>7, <1>8 DEF EdInv

\* The window that follows the cursor one line down.
LEMMA EdScrolls ==
  ASSUME EdInv, edY' = edY + 1, edT' = IF edY + 1 >= edT + EdRows THEN edT + 1 ELSE edT
  PROVE  edY' \in Nat /\ edT' \in Nat /\ edT' <= edY' /\ edY' - edT' \in 0 .. EdRows - 1
<1>1. edY \in Nat /\ edT \in Nat /\ edY - edT \in 0 .. EdRows - 1
  BY DEF EdInv, EdTypeOK
<1> QED
  BY <1>1, EdAssumption

\* The window, after a change behind lineptr that left a line y + 1.
LEMMA EdWindow ==
  ASSUME EdInv, NEW b, BufOK(b), SameBelow(edBuf, b, edLp), NEW y \in Nat, NEW t \in Nat, t <= y,
         ~edStale => y <= NlCount(b, 0, Nul(b, 0)),
         NEW top, top = IF t # edT THEN Utop(b, t) ELSE edTop
  PROVE  top \in EdBytes /\ (~edStale => LineAt(b, top, t))
<1>1. 0 \in EdBytes /\ edTop \in EdBytes
  BY EdAssumption DEF EdInv, EdTypeOK, EdBytes
<1>2. CASE t # edT
  <2>1. top = Utop(b, t)
    BY <1>2
  <2>2. top \in EdBytes
    BY <1>1, <2>1, LineFromIn DEF Utop
  <2>3. ASSUME ~edStale PROVE LineAt(b, top, t)
    BY <2>1, <2>3, LinesFound
  <2> QED
    BY <2>2, <2>3
<1>3. CASE t = edT
  <2>1. top = edTop
    BY <1>3
  <2>2. ASSUME ~edStale PROVE LineAt(b, top, t)
    <3>1. LineAt(edBuf, edLp, edY) /\ LineAt(edBuf, edTop, edT)
      BY <2>2 DEF EdInv, Placed
    <3>2. edT <= edY
      BY EdAssumption DEF EdInv, EdTypeOK
    <3>3. edTop <= edLp /\ edLp \in Nat
      BY <3>1, <3>2, LineOrder, LineNat
    <3>4. LineAt(b, edTop, edT)
      BY <3>1, <3>3, LineKept
    <3> QED
      BY <1>3, <2>1, <3>4
  <2> QED
    BY <1>1, <2>1, <2>2
<1> QED
  BY <1>2, <1>3

\* o: the new line starts behind the end of this one, and is line y + 1.
LEMMA EdOpenBelow == ASSUME EdInv, OpenBelow PROVE EdInv'
<1> DEFINE e == Eol(edBuf, edLp)
<1>1. BufOK(edBuf) /\ edLp \in EdBytes /\ "nl" \in EdByte /\ edLp \in Nat
  BY EdAssumption DEF EdInv, EdTypeOK, EdByte, EdBytes
<1>2. e \in edLp .. EdMax /\ \A r \in edLp .. e - 1 : edBuf[r] \notin {"nl", "nul"}
  BY <1>1, EolIs
<1>3. /\ Opens(edBuf, e) /\ edBuf' = Inserted(edBuf, e, "nl") /\ Enters(edBuf', e + 1, 0)
      /\ edQuiet' = TRUE /\ edY' = edY + 1 /\ edLp' = e + 1
      /\ edT' = IF edY + 1 >= edT + EdRows THEN edT + 1 ELSE edT
      /\ edTop' = IF edT' # edT THEN Utop(edBuf', edT') ELSE edTop
      /\ UNCHANGED <<edDirty, edDisk, edStale>>
  BY DEF OpenBelow
<1> HIDE DEF e
<1>4. e \in EdBytes /\ e \in Nat /\ edLp <= e
  BY <1>1, <1>2, EdAssumption DEF EdBytes
<1>5. BufOK(edBuf') /\ SameBelow(edBuf, edBuf', e) /\ edBuf'[e] = "nl" /\ e + 1 < EdMax
  BY <1>1, <1>3, <1>4, InsertedIs
<1>6. SameBelow(edBuf, edBuf', edLp) /\ e + 1 \in EdBytes /\ e < EdMax
  BY <1>1, <1>4, <1>5, SameLess, EdAssumption DEF EdBytes
<1>7. edY' \in Nat /\ edT' \in Nat /\ edT' <= edY' /\ edY' - edT' \in 0 .. EdRows - 1
  BY <1>3, EdScrolls
<1>8. ASSUME ~edStale PROVE LineAt(edBuf', edLp', edY') /\ edY' <= NlCount(edBuf', 0, Nul(edBuf', 0))
  <2>1. LineAt(edBuf, edLp, edY) /\ edLp <= edLp
    BY <1>1, <1>8 DEF EdInv, Placed
  <2>2. LineAt(edBuf', edLp, edY)
    BY <1>1, <1>6, <2>1, LineKept
  <2>3. \A r \in edLp .. e - 1 : edBuf'[r] \notin {"nl", "nul"}
    BY <1>1, <1>2, <1>4, <1>5 DEF SameBelow
  <2>4. LineAt(edBuf', e + 1, edY + 1)
    BY <1>4, <1>5, <1>6, <2>2, <2>3, LineNext
  <2>5. /\ NlCount(edBuf', 0, Nul(edBuf', 0)) = (edY + 1) + NlCount(edBuf', e + 1, Nul(edBuf', 0))
        /\ NlCount(edBuf', e + 1, Nul(edBuf', 0)) \in Nat
    BY <1>5, <2>4, LineHas
  <2> QED
    BY <1>3, <1>7, <2>4, <2>5
<1>9. edTop' \in EdBytes /\ (~edStale => LineAt(edBuf', edTop', edT'))
  BY <1>3, <1>5, <1>6, <1>7, <1>8, EdWindow
<1>10. EdLineOK' /\ edX' \in Nat /\ edX' <= EdCols + 1 /\ edEnd' \in EdBytes /\ edMode' = "insert"
  <2>1. Eol(edBuf', e + 1) \in e + 1 .. EdMax
    BY <1>5, <1>6, EolIs
  <2>2. 0 <= Eol(edBuf', e + 1) - (e + 1) /\ 0 \in Nat
    BY <1>4, <2>1, EdAssumption
  <2> QED
    BY <1>3, <1>5, <1>6, <2>2, EdEnters
<1>11. EdTypeOK'
  BY <1>3, <1>5, <1>6, <1>7, <1>9, <1>10 DEF EdInv, EdTypeOK, EdModes
<1>12. Placed'
  BY <1>3, <1>8, <1>9 DEF Placed
<1>13. OnDisk'
  BY <1>3 DEF OnDisk
<1> QED
  BY <1>11, <1>12, <1>13 DEF EdInv

\* A key goes to linebuf.
LEMMA EdType == ASSUME EdInv, NEW c \in EdChars, Type(c) PROVE EdInv'
<1>1. EdLineOK /\ edX \in Nat /\ edX <= EdCols /\ c \in EdText
  BY EdAssumption DEF EdInv, EdTypeOK, Type, EdText, EdByte
<1>2. edLine' = [i \in 0 .. EdCols - 1 |->
                   IF i < edX THEN edLine[i] ELSE IF i = edX THEN c ELSE edLine[i - 1]]
      /\ edX' = edX + 1 /\ edDirty' = TRUE
      /\ UNCHANGED <<edBuf, edLp, edTop, edY, edT, edMode, edEnd, edDisk, edQuiet, edStale>>
  BY DEF Type
<1>3. ASSUME NEW i \in 0 .. EdCols - 1, ~(i < edX), i # edX PROVE i - 1 \in 0 .. EdCols - 1
  BY <1>1, <1>3, EdAssumption
<1>4. EdLineOK'
  BY <1>1, <1>2, <1>3 DEF EdLineOK
<1>5. edX' \in Nat /\ edX' <= EdCols + 1
  BY <1>1, <1>2, EdAssumption
<1>6. EdTypeOK'
  BY <1>2, <1>4, <1>5 DEF EdInv, EdTypeOK
<1>7. Placed' /\ OnDisk'
  BY <1>2 DEF EdInv, Placed, OnDisk
<1> QED
  BY <1>6, <1>7 DEF EdInv

\* Backspace: the byte that goes to filebuf is behind lineptr.
LEMMA EdBackspace == ASSUME EdInv, Backspace PROVE EdInv'
<1> DEFINE p == edLp + EdCols - 1
<1>1. /\ EdLineOK /\ edX \in Nat /\ edX > 0 /\ edX <= EdCols /\ BufOK(edBuf) /\ edLp \in Nat
      /\ "sp" \in EdByte
  BY EdAssumption DEF EdInv, EdTypeOK, Backspace, EdByte, EdBytes
<1>2. /\ edLine' = [i \in 0 .. EdCols - 1 |->
                     IF i < edX - 1 \/ i = EdCols - 1 THEN edLine[i] ELSE edLine[i + 1]]
      /\ edBuf' = [edBuf EXCEPT ![p] = "sp"] /\ p < EdMax
      /\ edX' = edX - 1 /\ edDirty' = TRUE
      /\ UNCHANGED <<edLp, edTop, edY, edT, edMode, edEnd, edDisk, edQuiet, edStale>>
  BY DEF Backspace
<1>3. p \in Nat /\ edLp <= p /\ p \in EdBytes
  BY <1>1, <1>2, EdAssumption DEF EdBytes
<1> HIDE DEF p
<1>4. BufOK(edBuf') /\ SameBelow(edBuf, edBuf', p)
  BY <1>1, <1>2, <1>3, SetIs
<1>5. SameBelow(edBuf, edBuf', edLp)
  BY <1>1, <1>3, <1>4, SameLess
<1>6. ASSUME NEW i \in 0 .. EdCols - 1, i # EdCols - 1 PROVE i + 1 \in 0 .. EdCols - 1
  BY <1>6, EdAssumption
<1>7. EdLineOK'
  BY <1>1, <1>2, <1>6 DEF EdLineOK
<1>8. edX' \in Nat /\ edX' <= EdCols + 1
  BY <1>1, <1>2, EdAssumption
<1>9. EdTypeOK'
  BY <1>2, <1>4, <1>7, <1>8 DEF EdInv, EdTypeOK
<1>10. Placed'
  BY <1>2, <1>5, EdKeeps
<1>11. OnDisk'
  BY <1>2 DEF OnDisk
<1> QED
  BY <1>9, <1>10, <1>11 DEF EdInv

\* What stores the line in insert mode.
LEMMA EdStoring ==
  ASSUME EdInv, edMode = "insert", Fits1
  PROVE  /\ BufOK(Stored1) /\ SameBelow(edBuf, Stored1, edLp)
         /\ Kept \in 1 .. EdCols /\ edLp + Kept \in EdBytes
         /\ \A i \in 0 .. Kept - 1 : Stored1[edLp + i] # "nul"
         /\ Stored1[edLp + Kept] = "nl"
<1>1. BufOK(edBuf) /\ edLp \in EdBytes /\ edEnd \in EdBytes /\ EdLineOK
  BY DEF EdInv, EdTypeOK
<1>2. /\ BufOK(Stored1) /\ SameBelow(edBuf, Stored1, edLp)
      /\ Kept \in 1 .. EdCols /\ edLp + Kept \in EdBytes
      /\ \A i \in 0 .. Kept - 1 : Stored1[edLp + i] = edLine[i]
      /\ Stored1[edLp + Kept] = "nl"
  BY <1>1, StoredIs
<1>3. ASSUME NEW i \in 0 .. Kept - 1 PROVE edLine[i] # "nul"
  <2>1. i \in 0 .. EdCols - 1
    BY <1>2, EdAssumption
  <2> QED
    BY <1>1, <2>1 DEF EdLineOK, EdText
<1> QED
  BY <1>2, <1>3

\* Escape stores the line, at lineptr.
LEMMA EdStore == ASSUME EdInv, Store PROVE EdInv'
<1>1. BufOK(edBuf') /\ SameBelow(edBuf, edBuf', edLp)
  BY EdStoring DEF Store
<1>2. 0 \in EdBytes
  BY EdAssumption DEF EdBytes
<1>3. EdTypeOK'
  BY <1>1, <1>2 DEF EdInv, EdTypeOK, EdModes, Store, edPlace
<1>4. Placed'
  BY <1>1, EdKeeps DEF Store, edPlace
<1>5. OnDisk'
  BY DEF EdInv, EdTypeOK, OnDisk, Store
<1> QED
  BY <1>3, <1>4, <1>5 DEF EdInv

\* Return stores and splits the line: uline finds line y + 1, by a window that
\* may have moved.
LEMMA EdReturns == ASSUME EdInv, EdReturn PROVE EdInv'
<1> DEFINE p == edLp + edX
           s == Stored1
           b == Inserted(s, p, "nl")
           k == Kept
           t == IF edY + 1 >= edT + EdRows THEN edT + 1 ELSE edT
<1>1. /\ edMode = "insert" /\ Fits1 /\ p < EdMax /\ Opens(s, p)
      /\ edBuf' = b /\ edT' = t /\ edY' = edY + 1
      /\ edTop' = IF t # edT THEN Utop(b, t) ELSE edTop
      /\ edLp' = Uline(b, edTop', edY + 1, t) /\ Enters(b, edLp', 0)
      /\ edQuiet' = (edQuiet \/ ~edDirty) /\ UNCHANGED <<edDirty, edDisk, edStale>>
  BY DEF EdReturn
<1>2. /\ BufOK(s) /\ SameBelow(edBuf, s, edLp)
      /\ k \in 1 .. EdCols /\ edLp + k \in EdBytes
      /\ \A i \in 0 .. k - 1 : s[edLp + i] # "nul"
      /\ s[edLp + k] = "nl"
  BY <1>1, EdStoring
<1>3. edLp \in Nat /\ edX \in Nat /\ p \in Nat /\ edLp <= p /\ p \in EdBytes /\ "nl" \in EdByte
  BY <1>1, EdAssumption DEF EdInv, EdTypeOK, EdBytes, EdByte
<1>4. edY' \in Nat /\ edT' \in Nat /\ edT' <= edY' /\ edY' - edT' \in 0 .. EdRows - 1
  BY <1>1, EdScrolls
<1> HIDE DEF s, k
<1>5. BufOK(b) /\ SameBelow(s, b, p) /\ b[p] = "nl"
  BY <1>1, <1>2, <1>3, InsertedIs
<1> HIDE DEF b
<1>6. SameBelow(edBuf, b, edLp)
  <2>1. SameBelow(s, b, edLp)
    BY <1>3, <1>5, SameLess
  <2> QED
    BY <1>2, <1>3, <2>1, SameFurther
\* The first newline behind lineptr is that of the split, or that of store.
<1>7. \E q \in EdBytes : edLp <= q /\ NoNul(b, edLp, q) /\ b[q] = "nl"
  <2>1. ASSUME NEW r \in Nat, edLp <= r, r < edLp + k, r < p PROVE b[r] # "nul"
    <3> DEFINE i == r - edLp
    <3>1. i \in 0 .. k - 1 /\ edLp + i = r
      BY <1>2, <1>3, <2>1, EdAssumption
    <3> HIDE DEF i
    <3>2. s[r] # "nul"
      BY <1>2, <3>1
    <3>3. r \in 0 .. p - 1
      BY <1>3, <2>1
    <3> QED
      BY <1>5, <3>2, <3>3 DEF SameBelow
  <2>2. CASE edX <= k
    <3>1. NoNul(b, edLp, p)
      BY <1>2, <1>3, <2>1, <2>2, EdAssumption DEF NoNul
    <3> QED
      BY <1>3, <1>5, <3>1
  <2>3. CASE ~(edX <= k)
    <3> DEFINE q == edLp + k
    <3>1. NoNul(b, edLp, q)
      BY <1>2, <1>3, <2>1, <2>3, EdAssumption DEF NoNul
    <3>2. q \in EdBytes /\ edLp <= q /\ q \in 0 .. p - 1
      BY <1>2, <1>3, <2>3, EdAssumption
    <3>3. b[q] = "nl"
      BY <1>2, <1>5, <3>2 DEF SameBelow
    <3> QED
      BY <3>1, <3>2, <3>3
  <2> QED
    BY <2>2, <2>3
<1>8. ASSUME ~edStale PROVE edY + 1 <= NlCount(b, 0, Nul(b, 0))
  <2>1. LineAt(edBuf, edLp, edY) /\ edLp <= edLp
    BY <1>3, <1>8 DEF EdInv, Placed
  <2>2. LineAt(b, edLp, edY)
    BY <1>3, <1>6, <2>1, LineKept
  <2> QED
    BY <1>5, <1>7, <2>2, LineMore
<1> HIDE DEF t
<1>9. t \in Nat /\ edY + 1 \in Nat /\ t <= edY + 1 /\ (edY + 1) - t \in Nat
  BY <1>1, <1>4
<1>10. edTop' \in EdBytes /\ (~edStale => LineAt(b, edTop', t))
  BY <1>1, <1>5, <1>6, <1>8, <1>9, EdWindow
<1>11. edLp' = LineFrom(b, edTop', (edY + 1) - t)
  BY <1>1 DEF Uline
<1>12. edLp' \in EdBytes
  BY <1>5, <1>9, <1>10, <1>11, LineFromIn
<1>13. ASSUME ~edStale PROVE LineAt(b, edLp', edY + 1)
  <2> DEFINE n == (edY + 1) - t
  <2>1. n \in Nat /\ t + n = edY + 1 /\ t + n <= NlCount(b, 0, Nul(b, 0))
    BY <1>8, <1>9, <1>13
  <2> HIDE DEF n
  <2>2. LineAt(b, LineFrom(b, edTop', n), t + n)
    BY <1>5, <1>10, <1>13, <2>1, LineFromAt
  <2> QED
    BY <1>11, <2>1, <2>2 DEF n
<1>14. EdLineOK' /\ edX' \in Nat /\ edX' <= EdCols + 1 /\ edEnd' \in EdBytes /\ edMode' = "insert"
  <2>1. Eol(b, edLp') \in edLp' .. EdMax /\ edLp' \in Nat
    BY <1>5, <1>12, EolIs, EdAssumption DEF EdBytes
  <2>2. 0 <= Eol(b, edLp') - edLp' /\ 0 \in Nat
    BY <2>1, EdAssumption
  <2> QED
    BY <1>1, <1>5, <1>12, <2>2, EdEnters
<1>15. EdTypeOK'
  BY <1>1, <1>4, <1>5, <1>10, <1>12, <1>14 DEF EdInv, EdTypeOK, EdModes
<1>16. Placed'
  BY <1>1, <1>10, <1>13 DEF Placed
<1>17. OnDisk'
  BY <1>1 DEF EdInv, EdTypeOK, OnDisk
<1> QED
  BY <1>15, <1>16, <1>17 DEF EdInv

\* cmd_read: the text is the file, if nothing is left behind it.
LEMMA EdReads == ASSUME EdInv, NEW f \in EdFiles, CmdRead(f) PROVE EdInv'
<1>1. BufOK(edBuf') /\ (~Differs(edBuf, f) => f = Text(edBuf'))
  BY ReadIs DEF CmdRead, EdInv, EdTypeOK
<1>2. 0 \in EdBytes /\ 0 - 0 \in 0 .. EdRows - 1 /\ Differs(edBuf, f) \in BOOLEAN
  BY EdAssumption DEF EdBytes, Differs
<1>3. EdTypeOK'
  BY <1>1, <1>2 DEF EdInv, EdTypeOK, CmdRead, Still, EdLoop
<1>4. Placed'
  BY LineZero DEF Placed, CmdRead
<1>5. OnDisk'
  BY <1>1 DEF OnDisk, CmdRead
<1> QED
  BY <1>3, <1>4, <1>5 DEF EdInv

\* cmd_write: the file is the text, or it is known that it is not.
LEMMA EdWrites == ASSUME EdInv, NEW q \in BOOLEAN, CmdWrite(q) PROVE EdInv'
<1>1. UNCHANGED <<edBuf, edLp, edTop, edX, edY, edT, edLine, edEnd, edStale>> /\ EdLoop
  BY DEF CmdWrite, edPlace
<1>2. Placed'
  BY <1>1 DEF EdInv, Placed
<1>3. edDirty' \in BOOLEAN /\ edQuiet' \in BOOLEAN /\ edMode' \in {"loop", "out"}
  BY DEF CmdWrite, EdInv, EdTypeOK, EdLoop
<1>4. EdTypeOK'
  BY <1>1, <1>3 DEF EdInv, EdTypeOK, EdModes
<1>5. OnDisk'
  <2>1. CASE edDisk' = Text(edBuf) /\ edDirty' = FALSE /\ edQuiet' = FALSE
    BY <1>1, <2>1 DEF OnDisk
  <2>2. CASE edDisk' = <<>> /\ edQuiet' = (edQuiet \/ ~edDirty) /\ edDirty' = edDirty
    BY <2>2 DEF EdInv, EdTypeOK, OnDisk
  <2> QED
    BY <2>1, <2>2 DEF CmdWrite
<1> QED
  BY <1>2, <1>4, <1>5 DEF EdInv

\* Nothing changes when the editor ends.
LEMMA EdRest ==
  ASSUME EdInv, CmdQuit \/ BackspaceDies \/ UNCHANGED edVars
  PROVE  EdInv'
<1>1. /\ UNCHANGED <<edBuf, edLp, edTop, edX, edY, edT, edDirty, edLine, edEnd, edDisk, edQuiet, edStale>>
      /\ edMode' \in {edMode, "out"}
  BY DEF CmdQuit, BackspaceDies, edVars, edPlace
<1>2. EdTypeOK'
  BY <1>1 DEF EdInv, EdTypeOK, EdModes, EdLineOK
<1>3. Placed' /\ OnDisk'
  BY <1>1 DEF EdInv, Placed, OnDisk
<1> QED
  BY <1>2, <1>3 DEF EdInv

\* Every step keeps the invariant.
LEMMA EdSteps == ASSUME EdInv, [EdNext]_edVars PROVE EdInv'
<1>1. CASE \E c \in EdChars : Type(c) \/ Replace(c)
  BY <1>1, EdType, EdReplace
<1>2. CASE \E l \in 0 .. EdMax : Goto(l)
  BY <1>2, EdGoto
<1>3. CASE \E f \in EdFiles : CmdRead(f)
  BY <1>3, EdReads
<1>4. CASE \E q \in BOOLEAN : CmdWrite(q)
  BY <1>4, EdWrites
<1>5. CASE MoveX \/ Up \/ Down \/ Insert \/ OpenAbove \/ OpenBelow
  BY <1>5, EdMoveX, EdUp, EdDown, EdInsert, EdOpenAbove, EdOpenBelow
<1>6. CASE DeleteLine \/ DeleteChar \/ Join \/ Backspace \/ Store \/ EdReturn
  BY <1>6, EdDeleteLine, EdDeleteChar, EdJoin, EdBackspace, EdStore, EdReturns
<1>7. CASE CmdQuit \/ BackspaceDies \/ UNCHANGED edVars
  BY <1>7, EdRest
<1> QED
  BY <1>1, <1>2, <1>3, <1>4, <1>5, <1>6, <1>7 DEF EdNext

\* However the text is cut, joined, split and stored, lineptr is at the start
\* of line y and topptr at that of line t until a goto is stale, y is on the
\* screen, and without dirty the file holds the text but for what does not set
\* dirty (cmd/vi/main.c).
THEOREM EditorCorrect == EdInit /\ [][EdNext]_edVars => []EditorExact
<1>1. EdInit => EdInv
  BY EdStarts
<1>2. EdInv /\ [EdNext]_edVars => EdInv'
  BY EdSteps
<1>3. EdInv => EditorExact
  BY EdEnough
<1> QED
  BY <1>1, <1>2, <1>3, PTL

----------------------------------------------------------------------------
(* HardDisk.  The sums of a table.                                           *)

Tables == [Parts -> Nat]
\* f holds the sums of t's sizes up to n.
SumsTo(f, t, n) ==
  f = [i \in 0 .. n |-> IF i = 0 THEN 0 ELSE f[i - 1] + t[i - 1]]

\* The sums exist: the loop ends.
LEMMA SumsExist ==
  ASSUME NEW t \in Tables
  PROVE  \E f \in [0 .. NParts -> Nat] : SumsTo(f, t, NParts)
<1> DEFINE T == {n \in 0 .. NParts : ~ \E f \in [0 .. n -> Nat] : SumsTo(f, t, n)}
<1>1. SUFFICES ASSUME T # {} PROVE FALSE
  BY HardDiskAssumption
<1>2. T \subseteq Nat
  BY HardDiskAssumption
<1>3. PICK n \in T : \A m \in T : n <= m
  BY <1>1, <1>2, HasLeast
<1>4. n \in 0 .. NParts /\ NParts \in Nat
  BY <1>3, HardDiskAssumption
<1>5. n # 0
  <2> DEFINE f == [i \in 0 .. 0 |-> 0]
  <2>1. f \in [0 .. 0 -> Nat] /\ SumsTo(f, t, 0)
    BY DEF SumsTo
  <2> QED
    BY <1>3, <2>1
<1>6. n - 1 \in 0 .. NParts /\ n - 1 \notin T
  <2> HIDE DEF T
  <2>1. ASSUME n - 1 \in T PROVE n <= n - 1
    BY <1>3, <2>1
  <2> QED
    BY <1>4, <1>5, <2>1
<1>7. PICK g \in [0 .. n - 1 -> Nat] : SumsTo(g, t, n - 1)
  BY <1>6
<1> DEFINE f == [i \in 0 .. n |-> IF i = n THEN g[n - 1] + t[n - 1] ELSE g[i]]
<1>8. f \in [0 .. n -> Nat]
  <2>1. g[n - 1] + t[n - 1] \in Nat
    BY <1>4, <1>5, <1>7 DEF Tables, Parts
  <2>2. \A i \in 0 .. n : i # n => g[i] \in Nat
    BY <1>4, <1>7
  <2> QED
    BY <2>1, <2>2
<1>9. SumsTo(f, t, n)
  <2>1. ASSUME NEW i \in 0 .. n PROVE f[i] = IF i = 0 THEN 0 ELSE f[i - 1] + t[i - 1]
    <3>1. CASE i = n
      <4>1. f[i] = g[n - 1] + t[n - 1] /\ f[n - 1] = g[n - 1]
        BY <1>4, <1>5, <3>1
      <4> QED
        BY <1>5, <3>1, <4>1
    <3>2. CASE i # n
      <4>1. i \in 0 .. n - 1 /\ (i # 0 => i - 1 \in 0 .. n - 1 /\ i - 1 # n /\ i - 1 \in 0 .. n)
        BY <1>4, <3>2
      <4>2. g[i] = IF i = 0 THEN 0 ELSE g[i - 1] + t[i - 1]
        BY <1>7, <4>1 DEF SumsTo
      <4>3. f[i] = g[i] /\ (i # 0 => f[i - 1] = g[i - 1])
        BY <3>2, <4>1
      <4> QED
        BY <4>2, <4>3
    <3> QED
      BY <3>1, <3>2
  <2> HIDE DEF f
  <2>2. f = [i \in 0 .. n |-> f[i]]
    BY <1>8
  <2> QED
    BY <2>1, <2>2 DEF SumsTo
<1> HIDE DEF f
<1> QED
  BY <1>3, <1>8, <1>9

\* What Before is: the sum before an entry, and its size, is the next sum.
LEMMA BeforeIs ==
  ASSUME NEW t \in Tables
  PROVE  /\ Before(t)[0] = 0 /\ \A n \in 0 .. NParts : Before(t)[n] \in Nat
         /\ \A i \in Parts : Before(t)[i + 1] = Before(t)[i] + t[i]
<1> DEFINE B == Before(t)
<1>1. B = CHOOSE f : f = [n \in 0 .. NParts |-> IF n = 0 THEN 0 ELSE f[n - 1] + t[n - 1]]
  BY DEF Before
<1> HIDE DEF B
<1>2. \E f : f = [n \in 0 .. NParts |-> IF n = 0 THEN 0 ELSE f[n - 1] + t[n - 1]]
  BY SumsExist DEF SumsTo
<1>3. B = [n \in 0 .. NParts |-> IF n = 0 THEN 0 ELSE B[n - 1] + t[n - 1]]
  BY <1>1, <1>2
<1>4. B[0] = 0
  BY <1>3, HardDiskAssumption
<1>5. ASSUME NEW i \in Parts PROVE B[i + 1] = B[i] + t[i]
  <2>1. i + 1 \in 0 .. NParts /\ i + 1 # 0 /\ (i + 1) - 1 = i
    BY HardDiskAssumption DEF Parts
  <2> QED
    BY <1>3, <2>1
<1>6. \A n \in 0 .. NParts : B[n] \in Nat
  <2> DEFINE T == {n \in 0 .. NParts : B[n] \notin Nat}
  <2>1. SUFFICES ASSUME T # {} PROVE FALSE
    OBVIOUS
  <2>2. T \subseteq Nat
    BY HardDiskAssumption
  <2>3. PICK n \in T : \A m \in T : n <= m
    BY <2>1, <2>2, HasLeast
  <2>4. n \in 0 .. NParts /\ n # 0 /\ NParts \in Nat
    BY <1>4, <2>3, HardDiskAssumption
  <2>5. n - 1 \in 0 .. NParts /\ n - 1 \notin T /\ n - 1 \in Parts /\ (n - 1) + 1 = n
    BY <2>3, <2>4 DEF Parts
  <2>6. B[n] = B[n - 1] + t[n - 1]
    BY <1>5, <2>5
  <2>7. B[n - 1] \in Nat /\ t[n - 1] \in Nat
    BY <2>5 DEF Tables
  <2> QED
    BY <2>3, <2>6, <2>7
<1> QED
  BY <1>4, <1>5, <1>6 DEF B

\* A partition ends before every later one begins, and before the sum of all.
LEMMA BeforeGrows ==
  ASSUME NEW t \in Tables, NEW i \in Parts, NEW j \in 0 .. NParts, i < j
  PROVE  Before(t)[i] + t[i] <= Before(t)[j]
<1> DEFINE B == Before(t)
           T == {n \in 0 .. NParts : i < n /\ ~(B[i] + t[i] <= B[n])}
<1>1. /\ \A n \in 0 .. NParts : B[n] \in Nat
      /\ \A k \in Parts : B[k + 1] = B[k] + t[k]
  BY BeforeIs
<1>2. i \in 0 .. NParts /\ t[i] \in Nat /\ NParts \in Nat
  BY HardDiskAssumption DEF Parts, Tables
<1> HIDE DEF B
<1>3. SUFFICES ASSUME T # {} PROVE FALSE
  BY DEF B
<1>4. T \subseteq Nat
  BY <1>2
<1>5. PICK n \in T : \A m \in T : n <= m
  BY <1>3, <1>4, HasLeast
<1>6. n \in 0 .. NParts /\ i < n /\ ~(B[i] + t[i] <= B[n])
  BY <1>5
<1>7. n - 1 \in Parts /\ n - 1 \in 0 .. NParts /\ (n - 1) + 1 = n
  BY <1>2, <1>6 DEF Parts
<1>8. B[n] = B[n - 1] + t[n - 1] /\ t[n - 1] \in Nat /\ B[n - 1] \in Nat /\ B[i] \in Nat
  BY <1>1, <1>2, <1>7 DEF Tables
<1>9. CASE n - 1 = i
  BY <1>6, <1>8, <1>9
<1>10. CASE n - 1 # i
  <2>1. i < n - 1 /\ n - 1 \notin T
    BY <1>2, <1>5, <1>6, <1>7, <1>10
  <2>2. B[i] + t[i] <= B[n - 1]
    BY <1>7, <2>1
  <2> QED
    BY <1>2, <1>6, <1>8, <2>2
<1> QED
  BY <1>9, <1>10

----------------------------------------------------------------------------
(* Cylinders and sectors.                                                   *)

LEMMA MulLeq == ASSUME NEW a \in Nat, NEW b \in Nat, NEW c \in Nat, a <= b PROVE a * c <= b * c
<1> DEFINE d == b - a
<1>1. d \in Nat /\ b = a + d
  OBVIOUS
<1> HIDE DEF d
<1>2. (a + d) * c = a * c + d * c /\ d * c \in Nat /\ a * c \in Nat
  BY <1>1
<1> QED
  BY <1>1, <1>2

LEMMA MulAdd ==
  ASSUME NEW a \in Nat, NEW b \in Nat, NEW c \in Nat
  PROVE  (a + b) * c = a * c + b * c /\ a * c \in Nat /\ b * c \in Nat
OBVIOUS

\* A quotient and a remainder are the only ones.
LEMMA DivOnly ==
  ASSUME NEW c \in Nat \ {0}, NEW p \in Nat, NEW q \in Nat, NEW r \in 0 .. c - 1, NEW s \in 0 .. c - 1,
         p * c + r = q * c + s
  PROVE  p = q
<1>1. ASSUME NEW x \in Nat, NEW y \in Nat, NEW i \in 0 .. c - 1, NEW j \in 0 .. c - 1,
             x * c + i = y * c + j, x < y
      PROVE  FALSE
  <2>1. (x + 1) * c <= y * c
    BY <1>1, MulLeq
  <2>2. (x + 1) * c = x * c + 1 * c /\ x * c \in Nat /\ 1 * c = c /\ y * c \in Nat
    BY MulAdd
  <2> DEFINE xc == x * c
             yc == y * c
  <2>3. xc + c <= yc /\ xc \in Nat /\ yc \in Nat /\ xc + i = yc + j
    BY <1>1, <2>1, <2>2
  <2> HIDE DEF xc, yc
  <2> QED
    BY <2>3
<1>2. ~(p < q)
  BY <1>1
<1>3. ~(q < p)
  BY <1>1
<1> QED
  BY <1>2, <1>3

LEMMA DivIs ==
  ASSUME NEW a \in Nat, NEW c \in Nat \ {0}
  PROVE  /\ a \div c \in Nat /\ a % c \in 0 .. c - 1
         /\ a = (a \div c) * c + (a % c)
<1>1. a % c \in 0 .. c - 1 /\ a \div c \in Int
  BY SMT
<1>2. a % c = a - c * (a \div c)
  BY Z3
<1>3. a \div c \in Nat
  BY SMT
<1>4. c * (a \div c) = (a \div c) * c
  BY <1>1, SMT
<1> DEFINE q == a \div c
           r == a % c
<1>5. q \in Nat /\ r \in 0 .. c - 1 /\ r = a - c * q /\ c * q = q * c /\ q * c \in Nat /\ c * q \in Nat
  <2>1. q \in Nat
    BY <1>3
  <2> QED
    BY <1>1, <1>2, <1>4, <2>1
<1> HIDE DEF q, r
<1>6. a = q * c + r
  BY <1>5
<1> QED
  BY <1>5, <1>6 DEF q, r

LEMMA ModLess == ASSUME NEW a \in Nat, NEW c \in Nat \ {0}, a < c PROVE a % c = a
<1> DEFINE q == a \div c
           r == a % c
<1>1. q \in Nat /\ r \in 0 .. c - 1 /\ a = q * c + r
  BY DivIs
<1>2. 0 * c + a = q * c + r /\ a \in 0 .. c - 1
  BY <1>1
<1> HIDE DEF q, r
<1>3. q = 0
  BY <1>1, <1>2, DivOnly
<1> QED
  BY <1>1, <1>3 DEF r

LEMMA DivMul == ASSUME NEW a \in Nat, NEW c \in Nat \ {0} PROVE (a * c) \div c = a
<1> DEFINE n == a * c
           q == n \div c
           r == n % c
<1>1. n \in Nat
  OBVIOUS
<1>2. q \in Nat /\ r \in 0 .. c - 1 /\ n = q * c + r
  BY <1>1, DivIs
<1>3. a * c + 0 = q * c + r /\ 0 \in 0 .. c - 1
  BY <1>1, <1>2
<1> HIDE DEF q, r
<1>4. a = q
  BY <1>2, <1>3, DivOnly
<1> QED
  BY <1>4 DEF q

LEMMA DivNext == ASSUME NEW a \in Nat, NEW c \in Nat \ {0} PROVE (a + c) \div c = a \div c + 1
<1> DEFINE n == a + c
           q == a \div c
           r == a % c
           p == n \div c
           s == n % c
<1>1. n \in Nat
  OBVIOUS
<1>2. q \in Nat /\ r \in 0 .. c - 1 /\ a = q * c + r
  BY DivIs
<1>3. p \in Nat /\ s \in 0 .. c - 1 /\ n = p * c + s
  BY <1>1, DivIs
<1> HIDE DEF q, r, p, s
<1>4. (q + 1) * c = q * c + 1 * c /\ 1 * c = c /\ q * c \in Nat
  BY <1>2, MulAdd
<1>5. (q + 1) * c + r = p * c + s /\ q + 1 \in Nat
  BY <1>2, <1>3, <1>4
<1>6. q + 1 = p
  BY <1>2, <1>3, <1>5, DivOnly
<1> QED
  BY <1>6 DEF p, q

----------------------------------------------------------------------------
(* The tables: their types, and what each step does to them.                *)

Devs    == HdUnits \X (Parts \cup {Whole})
SlotRec == [id : {"none", "xenus", "other"}, s : Nat, e : Nat, start : Nat, size : Nat]
Mbrs    == [Slots -> SlotRec]
XTabs   == [Sectors -> Tables]

HdTypeOK ==
  /\ hd_size \in [Devs -> Nat] /\ hd_off \in [Devs -> Nat]
  /\ mbr \in [HdUnits -> Mbrs] /\ xtab \in [HdUnits -> XTabs]
  /\ hdRead \in [HdUnits -> BOOLEAN] /\ hdCut \in [HdUnits -> BOOLEAN]

\* A slot in use ends behind the cylinder it names, an empty one has no sectors.
SlotEnds(s) == IF s.id = "none" THEN s.size = 0
               ELSE s.start + s.size = (s.e + 1) * CylSectors
Clear(a, b) == \/ a.size = 0 \/ b.size = 0
               \/ a.start + a.size <= b.start \/ b.start + b.size <= a.start
SlotsGood(m) == /\ \A k \in Slots : SlotEnds(m[k])
                /\ \A k, l \in Slots : k # l => Clear(m[k], m[l])
SlotsInv == \A u \in HdUnits : ~hdCut[u] => SlotsGood(mbr[u])

\* The driver's sizes and offsets of unit u are those of table t at sector o.
InCore(size, off, u, o, t) ==
  \A i \in Parts : off[<<u, i>>] = Offset(o, t, i) /\ size[<<u, i>>] = Sizes(t)[i]
FreshAt(u, m, xt) ==
  XenusSlot(m).start \in Sectors
    /\ InCore(hd_size, hd_off, u, XenusSlot(m).start, xt[XenusSlot(m).start])
FreshInv == \A u \in HdUnits : hdRead[u] => FreshAt(u, mbr[u], xtab[u])

HdIInv == HdTypeOK /\ SlotsInv /\ FreshInv

LEMMA HdConsts ==
  /\ HdCyls \in Nat \ {0} /\ CylSectors \in Nat \ {0} /\ CylRange \in Nat \ {0}
  /\ NParts \in Nat \ {0} /\ BlkRange \in Nat \ {0} /\ DiskSize \in Nat /\ 0 \in Sectors
  /\ Sectors \subseteq Nat /\ 0 \in Parts /\ Parts \subseteq Nat /\ Whole \notin Parts
  /\ Slots = {1, 2}
<1>1. /\ HdCyls \in Nat \ {0} /\ CylSectors \in Nat \ {0} /\ CylRange \in Nat \ {0}
      /\ NParts \in Nat \ {0} /\ BlkRange \in Nat \ {0} /\ NParts <= 7
  BY HardDiskAssumption
<1>2. DiskSize \in Nat /\ DiskSize # 0
  BY <1>1 DEF DiskSize
<1> QED
  BY <1>1, <1>2 DEF Sectors, Parts, Whole, Slots

\* One of a disk's slots is the first of those wanted.
LEMMA MinOfSlots ==
  ASSUME NEW x \in SUBSET Slots, x # {}
  PROVE  Min(x) \in x
<1>1. x \subseteq Nat
  BY DEF Slots
<1>2. \E n \in x : \A m \in x : n <= m
  BY <1>1, HasLeast
<1> QED
  BY <1>2 DEF Min

\* The Xenus partition is a slot, or the whole disk, at sector 0.
LEMMA XenusSlotIs ==
  ASSUME NEW m \in Mbrs
  PROVE  XenusSlot(m) \in SlotRec
<1> DEFINE x == {k \in Slots : m[k].id = "xenus"}
<1>1. CASE x = {}
  <2>1. XenusSlot(m) = [NoSlot EXCEPT !.size = DiskSize]
    BY <1>1 DEF XenusSlot
  <2> QED
    BY <2>1, HdConsts DEF NoSlot, SlotRec
<1>2. CASE x # {}
  <2>1. XenusSlot(m) = m[Min(x)]
    BY <1>2 DEF XenusSlot
  <2>2. Min(x) \in Slots
    BY <1>2, MinOfSlots
  <2> QED
    BY <2>1, <2>2 DEF Mbrs
<1> QED
  BY <1>1, <1>2

LEMMA OffsetIs ==
  ASSUME NEW o \in Nat, NEW t \in Tables, NEW i \in Parts
  PROVE  Offset(o, t, i) \in Nat /\ Sizes(t)[i] \in Nat
<1>1. i \in 0 .. NParts /\ BlkRange \in Nat \ {0}
  BY HdConsts DEF Parts
<1>2. Before(t)[i] \in Nat
  BY <1>1, BeforeIs
<1> DEFINE n == o + Before(t)[i]
<1>3. n \in Nat
  BY <1>2
<1> HIDE DEF n
<1>4. n % BlkRange \in Nat
  BY <1>1, <1>3, DivIs
<1>5. Offset(o, t, i) \in Nat
  BY <1>4 DEF Offset, n
<1>6. t[i] \in Nat
  BY DEF Tables
<1> QED
  BY <1>5, <1>6 DEF Sizes

\* After hd_gtable the driver has the tables it was given, or knows of none, and
\* of the other units what it had.
GtableDone(u, m, xt) ==
  /\ hd_size' \in [Devs -> Nat] /\ hd_off' \in [Devs -> Nat] /\ hdRead' \in [HdUnits -> BOOLEAN]
  /\ hdRead'[u] => /\ XenusSlot(m).start \in Sectors
                   /\ InCore(hd_size', hd_off', u, XenusSlot(m).start, xt[XenusSlot(m).start])
  /\ \A v \in HdUnits \ {u} :
       /\ hdRead'[v] = hdRead[v]
       /\ \A i \in Parts : hd_size'[<<v, i>>] = hd_size[<<v, i>>] /\ hd_off'[<<v, i>>] = hd_off[<<v, i>>]

LEMMA GtableIs ==
  ASSUME HdTypeOK, NEW u \in HdUnits, NEW m \in Mbrs, NEW xt \in XTabs,
         NEW ok1 \in BOOLEAN, NEW ok2 \in BOOLEAN, Gtable(u, m, xt, ok1, ok2)
  PROVE  GtableDone(u, m, xt)
<1> DEFINE x == XenusSlot(m)
           t == xt[x.start]
           sz == [hd_size EXCEPT ![<<0, Whole>>] = DiskSize]
           found == ok2 /\ x.start \in Sectors /\ x.size > 0
<1>1. /\ hd_size' = IF ~ok1 THEN sz
                    ELSE IF ~found THEN [sz EXCEPT ![<<u, 0>>] = x.size]
                    ELSE [d \in DOMAIN sz |-> IF d[1] = u /\ d[2] \in Parts
                                                THEN Sizes(t)[d[2]] ELSE sz[d]]
      /\ hd_off' = IF ~ok1 THEN hd_off
                   ELSE IF ~found THEN [hd_off EXCEPT ![<<u, 0>>] = x.start]
                   ELSE [d \in DOMAIN hd_off |-> IF d[1] = u /\ d[2] \in Parts
                                                   THEN Offset(x.start, t, d[2]) ELSE hd_off[d]]
      /\ hdRead' = [hdRead EXCEPT ![u] = ok1 /\ found]
  BY Zenon DEF Gtable
<1>2. x.start \in Nat /\ x.size \in Nat /\ found \in BOOLEAN /\ (found => t \in Tables)
  <2>1. x \in SlotRec
    BY XenusSlotIs
  <2>2. x.start \in Nat /\ x.size \in Nat
    BY <2>1 DEF SlotRec
  <2>3. ASSUME found PROVE t \in Tables
    BY <2>3 DEF XTabs
  <2> QED
    BY <2>2, <2>3
<1>3. hd_size \in [Devs -> Nat] /\ hd_off \in [Devs -> Nat] /\ hdRead \in [HdUnits -> BOOLEAN]
  BY DEF HdTypeOK
<1>4. sz \in [Devs -> Nat] /\ \A v \in HdUnits, i \in Parts : sz[<<v, i>>] = hd_size[<<v, i>>]
  <2>1. \A v \in HdUnits, i \in Parts : <<v, i>> \in Devs /\ <<v, i>> # <<0, Whole>>
    BY HdConsts DEF Devs
  <2> QED
    BY <1>3, <2>1, HdConsts
<1>5. \A v \in HdUnits, i \in Parts : <<v, i>> \in Devs
  BY DEF Devs
<1>6. hdRead' \in [HdUnits -> BOOLEAN] /\ hdRead'[u] = (ok1 /\ found)
      /\ \A v \in HdUnits \ {u} : hdRead'[v] = hdRead[v]
  BY <1>1, <1>2, <1>3
<1>7. found => \A i \in Parts : Sizes(t)[i] \in Nat /\ Offset(x.start, t, i) \in Nat
  BY <1>2, OffsetIs
<1> HIDE DEF x, t, sz, found
<1>8. 0 \in Parts
  BY HdConsts
<1>9. CASE ~ok1
  BY <1>1, <1>3, <1>4, <1>6, <1>9 DEF GtableDone
<1>10. CASE ok1 /\ ~found
  <2>1. hd_size' = [sz EXCEPT ![<<u, 0>>] = x.size] /\ hd_off' = [hd_off EXCEPT ![<<u, 0>>] = x.start]
    BY <1>1, <1>10
  <2>2. hd_size' \in [Devs -> Nat] /\ hd_off' \in [Devs -> Nat]
    BY <1>2, <1>3, <1>4, <2>1
  <2>3. \A v \in HdUnits \ {u}, i \in Parts : hd_size'[<<v, i>>] = sz[<<v, i>>] /\ hd_off'[<<v, i>>] = hd_off[<<v, i>>]
    BY <1>3, <1>4, <1>5, <2>1
  <2> QED
    BY <1>4, <1>6, <1>10, <2>2, <2>3 DEF GtableDone
<1>11. CASE ok1 /\ found
  <2>1. /\ hd_size' = [d \in Devs |-> IF d[1] = u /\ d[2] \in Parts THEN Sizes(t)[d[2]] ELSE sz[d]]
        /\ hd_off' = [d \in Devs |-> IF d[1] = u /\ d[2] \in Parts
                                       THEN Offset(x.start, t, d[2]) ELSE hd_off[d]]
    <3>1. DOMAIN sz = Devs /\ DOMAIN hd_off = Devs
      BY <1>3, <1>4
    <3> QED
      BY <1>1, <1>11, <3>1
  <2>2. hd_size' \in [Devs -> Nat] /\ hd_off' \in [Devs -> Nat]
    BY <1>3, <1>4, <1>7, <1>11, <2>1
  <2>3. \A v \in HdUnits \ {u}, i \in Parts : hd_size'[<<v, i>>] = sz[<<v, i>>] /\ hd_off'[<<v, i>>] = hd_off[<<v, i>>]
    BY <1>5, <2>1
  <2>4. InCore(hd_size', hd_off', u, x.start, t)
    BY <1>5, <2>1 DEF InCore
  <2>5. x.start \in Sectors
    BY <1>11 DEF found
  <2> QED
    BY <1>4, <1>6, <2>2, <2>3, <2>4, <2>5 DEF GtableDone, x, t
<1> QED
  BY <1>9, <1>10, <1>11

\* So the tables of the other units stay what they were.
LEMMA FreshKept ==
  ASSUME HdTypeOK, FreshInv, NEW u \in HdUnits, GtableDone(u, mbr'[u], xtab'[u]),
         \A v \in HdUnits \ {u} : mbr'[v] = mbr[v] /\ xtab'[v] = xtab[v]
  PROVE  FreshInv'
<1>1. SUFFICES ASSUME NEW v \in HdUnits, hdRead'[v] PROVE FreshAt(v, mbr[v], xtab[v])'
  BY Zenon DEF FreshInv
<1>2. CASE v = u
  BY <1>1, <1>2 DEF GtableDone, FreshAt
<1>3. CASE v # u
  <2>1. hdRead[v] /\ mbr'[v] = mbr[v] /\ xtab'[v] = xtab[v]
    BY <1>1, <1>3 DEF GtableDone
  <2>2. FreshAt(v, mbr[v], xtab[v])
    BY <2>1 DEF FreshInv
  <2>3. \A i \in Parts : hd_size'[<<v, i>>] = hd_size[<<v, i>>] /\ hd_off'[<<v, i>>] = hd_off[<<v, i>>]
    BY <1>3 DEF GtableDone
  <2> DEFINE o == XenusSlot(mbr[v]).start
             t == xtab[v][o]
  <2>4. o \in Sectors /\ InCore(hd_size, hd_off, v, o, t)
    BY <2>2 DEF FreshAt
  <2>5. InCore(hd_size', hd_off', v, o, t)
    <3> HIDE DEF o, t
    <3> QED
      BY <2>3, <2>4 DEF InCore
  <2> QED
    BY <2>1, <2>4, <2>5 DEF FreshAt
<1> QED
  BY <1>2, <1>3

----------------------------------------------------------------------------
(* The PC's table.                                                          *)

\* The largest of a number and a number for each slot.
LEMMA MaxOfSlots ==
  ASSUME NEW a \in Nat, NEW b \in Nat, NEW c \in Nat
  PROVE  /\ Max({a, b, c}) \in {a, b, c}
         /\ a <= Max({a, b, c}) /\ b <= Max({a, b, c}) /\ c <= Max({a, b, c})
<1>1. \E n \in {a, b, c} : \A m \in {a, b, c} : n >= m
  <2>1. CASE a >= b /\ a >= c
    BY <2>1
  <2>2. CASE b >= a /\ b >= c
    BY <2>2
  <2>3. CASE c >= b /\ c >= a
    BY <2>3
  <2> QED
    BY <2>1, <2>2, <2>3
<1> DEFINE n == Max({a, b, c})
<1>2. n \in {a, b, c} /\ \A m \in {a, b, c} : n >= m
  BY <1>1 DEF Max
<1> HIDE DEF n
<1>3. n >= a /\ n >= b /\ n >= c /\ n \in Nat
  BY <1>2
<1> QED
  BY <1>2, <1>3 DEF n

LEMMA NoSlotIs == NoSlot \in SlotRec /\ SlotEnds(NoSlot) /\ \A s : Clear(NoSlot, s) /\ Clear(s, NoSlot)
BY DEF NoSlot, SlotRec, SlotEnds, Clear

LEMMA EmptyGood ==
  /\ [k \in Slots |-> NoSlot] \in Mbrs
  /\ SlotsGood([k \in Slots |-> NoSlot])
BY NoSlotIs, Zenon DEF Mbrs, SlotsGood

\* A table with one slot replaced.
LEMMA PutSlot ==
  ASSUME NEW m \in Mbrs, NEW k \in Slots, NEW s \in SlotRec
  PROVE  /\ [m EXCEPT ![k] = s] \in Mbrs
         /\ SlotsGood(m) /\ SlotEnds(s) /\ (\A l \in Slots \ {k} : Clear(m[l], s))
              => SlotsGood([m EXCEPT ![k] = s])
<1> DEFINE n == [m EXCEPT ![k] = s]
<1>1. n \in Mbrs /\ n[k] = s /\ \A l \in Slots \ {k} : n[l] = m[l]
  BY DEF Mbrs
<1>2. \A a, b : Clear(a, b) => Clear(b, a)
  BY DEF Clear
<1> HIDE DEF n
<1>3. ASSUME SlotsGood(m), SlotEnds(s), \A l \in Slots \ {k} : Clear(m[l], s)
      PROVE  SlotsGood(n)
  <2>1. \A l \in Slots : SlotEnds(n[l])
    BY <1>1, <1>3, Zenon DEF SlotsGood
  <2>2. ASSUME NEW i \in Slots, NEW j \in Slots, i # j PROVE Clear(n[i], n[j])
    <3>1. CASE i = k
      BY <1>1, <1>2, <1>3, <2>2, <3>1, Zenon
    <3>2. CASE j = k
      BY <1>1, <1>3, <2>2, <3>2, Zenon
    <3>3. CASE i # k /\ j # k
      <4>1. n[i] = m[i] /\ n[j] = m[j]
        BY <1>1, <3>3, Zenon
      <4>2. Clear(m[i], m[j])
        BY <1>3, <2>2, Zenon DEF SlotsGood
      <4> QED
        BY <4>1, <4>2, Zenon
    <3> QED
      BY <3>1, <3>2, <3>3
  <2> QED
    BY <2>1, <2>2, Zenon DEF SlotsGood
<1> QED
  BY <1>1, <1>3 DEF n

LEMMA DpartIs ==
  ASSUME NEW m \in Mbrs
  PROVE  Dpart(m) \in Mbrs /\ (SlotsGood(m) => SlotsGood(Dpart(m)))
<1> DEFINE x == {k \in Slots : m[k].id = "xenus"}
<1>1. CASE x = {}
  BY <1>1 DEF Dpart
<1>2. CASE x # {}
  <2>1. Min(x) \in Slots
    BY <1>2, MinOfSlots
  <2>2. Dpart(m) = [m EXCEPT ![Min(x)] = NoSlot]
    BY <1>2, Zenon DEF Dpart
  <2> DEFINE k == Min(x)
  <2> HIDE DEF x, k
  <2>3. k \in Slots /\ Dpart(m) = [m EXCEPT ![k] = NoSlot]
    BY <2>1, <2>2 DEF k
  <2> QED
    BY <2>3, NoSlotIs, PutSlot
<1> QED
  BY <1>1, <1>2

\* The first cylinder for a new partition is behind all of them.
LEMMA FirstCylIs ==
  ASSUME NEW m \in Mbrs
  PROVE  /\ FirstCyl(m) \in Nat
         /\ \A k \in Slots : m[k].id # "none" => m[k].e + 1 <= FirstCyl(m)
<1> DEFINE U == {k \in Slots : m[k].id # "none"}
           a == IF m[1].id # "none" THEN m[1].e + 1 ELSE 1
           b == IF m[2].id # "none" THEN m[2].e + 1 ELSE 1
<1>1. a \in Nat /\ b \in Nat
  BY DEF Mbrs, Slots, SlotRec
<1>2. FirstCyl(m) = Max({1} \cup {m[k].e + 1 : k \in U})
  BY Zenon DEF FirstCyl
<1>3. {1} \cup {m[k].e + 1 : k \in U} = {1, a, b}
  BY DEF Slots
<1>4. Max({1, a, b}) \in Nat /\ a <= Max({1, a, b}) /\ b <= Max({1, a, b})
  BY <1>1, MaxOfSlots
<1>5. \A k \in Slots : m[k].id # "none" => m[k].e + 1 = a \/ m[k].e + 1 = b
  BY DEF Slots
<1> HIDE DEF U, a, b
<1>6. FirstCyl(m) = Max({1, a, b})
  BY <1>2, <1>3
<1> DEFINE c == Max({1, a, b})
<1>7. c \in Nat /\ a <= c /\ b <= c /\ FirstCyl(m) = c
  BY <1>4, <1>6
<1> HIDE DEF c
<1> QED
  BY <1>5, <1>7

\* A slot that begins at cylinder c, behind every other.
LEMMA BehindAll ==
  ASSUME NEW m \in Mbrs, SlotsGood(m), NEW c \in Nat, NEW s \in SlotRec, s.start = c * CylSectors,
         \A l \in Slots : m[l].id # "none" => m[l].e + 1 <= c
  PROVE  \A l \in Slots : Clear(m[l], s)
<1>1. SUFFICES ASSUME NEW l \in Slots PROVE Clear(m[l], s)
  OBVIOUS
<1>2. m[l] \in SlotRec /\ SlotEnds(m[l])
  BY DEF Mbrs, SlotsGood
<1>3. CASE m[l].id = "none"
  BY <1>2, <1>3 DEF SlotEnds, Clear
<1>4. CASE m[l].id # "none"
  <2> DEFINE e == m[l].e + 1
  <2>1. e \in Nat /\ e <= c /\ m[l].start + m[l].size = e * CylSectors
    BY <1>2, <1>4 DEF SlotRec, SlotEnds
  <2> HIDE DEF e
  <2>2. e * CylSectors <= c * CylSectors
    BY <2>1, HdConsts, MulLeq
  <2>3. m[l].start + m[l].size <= s.start
    BY <2>1, <2>2
  <2> QED
    BY <2>3 DEF Clear
<1> QED
  BY <1>3, <1>4

\* A new partition of pcdisk ends where its last cylinder does, as long as the
\* table can name that.
LEMMA NewSlotIs ==
  ASSUME NEW m \in Mbrs, NEW size \in Nat \ {0}
  PROVE  LET s == NewSlot(m, size)
         IN /\ s \in SlotRec /\ s.start = FirstCyl(m) * CylSectors
            /\ FirstCyl(m) + (size - 1) \div CylSectors < CylRange => SlotEnds(s)
<1> DEFINE c == FirstCyl(m)
           q == (size - 1) \div CylSectors
           n == (size + CylSectors - 1) \div CylSectors
           d == (c + n - 1) % CylRange
           s == NewSlot(m, size)
<1>1. c \in Nat /\ CylSectors \in Nat \ {0} /\ CylRange \in Nat \ {0}
  BY FirstCylIs, HdConsts
<1>2. q \in Nat /\ n = q + 1
  <2>1. size - 1 \in Nat /\ (size - 1) + CylSectors = size + CylSectors - 1
    BY <1>1
  <2> QED
    BY <1>1, <2>1, DivIs, DivNext
<1>3. c + n - 1 \in Nat /\ c + n - 1 = c + q
  <2> HIDE DEF c, n, q
  <2> QED
    BY <1>1, <1>2
<1>4. d \in Nat /\ c % CylRange \in Nat /\ (c + q < CylRange => d = c + q)
  <2> DEFINE a == c + n - 1
  <2>1. a \in Nat /\ a = c + q
    BY <1>3
  <2> HIDE DEF a, c, n, q
  <2>2. a % CylRange \in Nat /\ c % CylRange \in Nat
    BY <1>1, <2>1, DivIs
  <2>3. a < CylRange => a % CylRange = a
    BY <1>1, <2>1, ModLess
  <2> QED
    BY <2>1, <2>2, <2>3 DEF a
<1>5. s = [id |-> "xenus", s |-> c % CylRange, e |-> d, start |-> c * CylSectors, size |-> n * CylSectors]
  BY Zenon DEF NewSlot
<1> HIDE DEF c, q, n, d
<1>6. /\ c * CylSectors \in Nat /\ n * CylSectors \in Nat
      /\ (c + n) * CylSectors = c * CylSectors + n * CylSectors
  BY <1>1, <1>2, MulAdd
<1>7. s \in SlotRec
  BY <1>4, <1>5, <1>6 DEF SlotRec
<1>8. ASSUME c + q < CylRange PROVE SlotEnds(s)
  <2>1. d + 1 = c + n
    BY <1>1, <1>2, <1>4, <1>8
  <2>2. s.start + s.size = (s.e + 1) * CylSectors
    BY <1>5, <1>6, <2>1
  <2> QED
    BY <1>5, <2>2 DEF SlotEnds
<1>9. s.start = c * CylSectors
  BY <1>5
<1> QED
  BY <1>7, <1>8, <1>9 DEF c, q

LEMMA CpartIs ==
  ASSUME NEW m \in Mbrs, NEW size \in Nat \ {0}
  PROVE  /\ Cpart(m, size) \in Mbrs
         /\ SlotsGood(m) /\ (Cpart(m, size) # m => FirstCyl(m) + (size - 1) \div CylSectors < CylRange)
              => SlotsGood(Cpart(m, size))
<1> DEFINE free == {k \in Slots : m[k].id = "none"}
           k == Min(free)
           s == NewSlot(m, size)
           fits == FirstCyl(m) + (size - 1) \div CylSectors < CylRange
<1>1. CASE Cpart(m, size) = m
  BY <1>1
<1>2. CASE Cpart(m, size) # m
  <2>1. free # {} /\ Cpart(m, size) = [m EXCEPT ![k] = s]
    BY <1>2, Zenon DEF Cpart
  <2>2. k \in Slots
    BY <2>1, MinOfSlots
  <2>3. s \in SlotRec /\ s.start = FirstCyl(m) * CylSectors /\ (fits => SlotEnds(s))
    BY NewSlotIs, Zenon
  <2>4. FirstCyl(m) \in Nat /\ \A l \in Slots : m[l].id # "none" => m[l].e + 1 <= FirstCyl(m)
    BY FirstCylIs
  <2> HIDE DEF free, k, s, fits
  <2>5. SlotsGood(m) => \A l \in Slots : Clear(m[l], s)
    BY <2>3, <2>4, BehindAll
  <2>6. [m EXCEPT ![k] = s] \in Mbrs
        /\ (SlotsGood(m) /\ SlotEnds(s) /\ (\A l \in Slots \ {k} : Clear(m[l], s))
              => SlotsGood([m EXCEPT ![k] = s]))
    BY <2>2, <2>3, PutSlot, Zenon
  <2>7. SlotsGood(m) /\ fits => SlotsGood(Cpart(m, size))
    BY <2>1, <2>3, <2>5, <2>6, Zenon
  <2> QED
    BY <2>1, <2>6, <2>7, Zenon DEF fits
<1> QED
  BY <1>1, <1>2

----------------------------------------------------------------------------
(* The steps.                                                               *)

LEMMA HdMapIs ==
  ASSUME HdTypeOK, NEW u \in HdUnits, NEW i \in Parts \cup {Whole}, NEW b \in Nat, HdMap(u, i, b) # -1
  PROVE  HdMap(u, i, b) \in Sectors /\ b < hd_size[<<u, i>>] /\ hd_size[<<u, i>>] \in Nat
         /\ HdMap(u, i, b) = (hd_off[<<u, i>>] + b) % BlkRange
<1> DEFINE o == hd_off[<<u, i>>]
           z == hd_size[<<u, i>>]
           a == o + b
           n == a % BlkRange
<1>1. o \in Nat /\ z \in Nat
  BY DEF HdTypeOK, Devs
<1>2. HdMap(u, i, b) = IF b >= z \/ n >= DiskSize THEN -1 ELSE n
  BY Zenon DEF HdMap
<1> HIDE DEF o, z
<1>3. a \in Nat /\ BlkRange \in Nat \ {0} /\ DiskSize \in Nat
  BY <1>1, HdConsts
<1> HIDE DEF a
<1>4. n \in Nat
  BY <1>3, DivIs
<1> HIDE DEF n
<1>5. ~(b >= z) /\ ~(n >= DiskSize) /\ HdMap(u, i, b) = n
  BY <1>2
<1>6. b < z /\ n \in Sectors
  BY <1>1, <1>3, <1>4, <1>5 DEF Sectors
<1> QED
  BY <1>1, <1>5, <1>6 DEF o, z, a, n

LEMMA RtblKeeps ==
  ASSUME HdIInv, NEW u \in HdUnits, NEW ok1 \in BOOLEAN, NEW ok2 \in BOOLEAN, Rtbl(u, ok1, ok2)
  PROVE  HdIInv'
<1>1. Gtable(u, mbr[u], xtab[u], ok1, ok2) /\ mbr' = mbr /\ xtab' = xtab /\ hdCut' = hdCut
  BY DEF Rtbl
<1>2. HdTypeOK /\ SlotsInv /\ FreshInv
  BY DEF HdIInv
<1>3. mbr[u] \in Mbrs /\ xtab[u] \in XTabs
  BY <1>2 DEF HdTypeOK
<1>4. GtableDone(u, mbr[u], xtab[u])
  BY <1>1, <1>2, <1>3, GtableIs
<1>5. HdTypeOK'
  BY <1>1, <1>2, <1>4 DEF HdTypeOK, GtableDone
<1>6. SlotsInv'
  BY <1>1, <1>2 DEF SlotsInv
<1>7. FreshInv'
  BY <1>1, <1>2, <1>4, FreshKept
<1> QED
  BY <1>5, <1>6, <1>7 DEF HdIInv

LEMMA SetPartKeeps ==
  ASSUME HdIInv, NEW u \in HdUnits, NEW t \in [Parts -> PartSizes], SetPart(u, t)
  PROVE  HdIInv'
<1> DEFINE n == HdMap(u, 0, 0)
<1>1. /\ n # -1 /\ xtab' = [xtab EXCEPT ![u][n] = t]
      /\ Gtable(u, mbr[u], xtab'[u], TRUE, TRUE) /\ mbr' = mbr /\ hdCut' = hdCut
  BY Zenon DEF SetPart
<1>2. HdTypeOK /\ SlotsInv /\ FreshInv
  BY DEF HdIInv
<1>3. n \in Sectors
  BY <1>1, <1>2, HdConsts, HdMapIs
<1>4. t \in Tables
  BY HardDiskAssumption DEF Tables
<1>5. mbr[u] \in Mbrs /\ xtab \in [HdUnits -> XTabs]
  BY <1>2 DEF HdTypeOK
<1> HIDE DEF n
<1>6. xtab' \in [HdUnits -> XTabs] /\ \A v \in HdUnits \ {u} : xtab'[v] = xtab[v]
  BY <1>1, <1>3, <1>4, <1>5 DEF XTabs
<1>7. xtab'[u] \in XTabs
  BY <1>6
<1>8. GtableDone(u, mbr[u], xtab'[u])
  BY <1>1, <1>2, <1>5, <1>7, GtableIs
<1>9. HdTypeOK'
  BY <1>1, <1>2, <1>6, <1>8 DEF HdTypeOK, GtableDone
<1>10. SlotsInv'
  BY <1>1, <1>2 DEF SlotsInv
<1>11. FreshInv'
  BY <1>1, <1>2, <1>6, <1>8, FreshKept
<1> QED
  BY <1>9, <1>10, <1>11 DEF HdIInv

LEMMA PcDiskKeeps ==
  ASSUME HdIInv, NEW u \in HdUnits, NEW clr \in BOOLEAN, NEW del \in BOOLEAN, NEW new \in BOOLEAN,
         NEW size \in PartSizes \ {0}, PcDisk(u, clr, del, new, size)
  PROVE  HdIInv'
<1> DEFINE m0 == IF clr THEN [k \in Slots |-> NoSlot] ELSE mbr[u]
           m1 == IF del THEN Dpart(m0) ELSE m0
           m2 == IF new THEN Cpart(m1, size) ELSE m1
           far == FirstCyl(m1) + (size - 1) \div CylSectors >= CylRange
           again == Rereads(del /\ m1 # m0, new /\ m2 # m1)
<1>1. /\ clr \/ m1 # m0 \/ m2 # m1
      /\ mbr' = [mbr EXCEPT ![u] = m2]
      /\ hdCut' = [hdCut EXCEPT ![u] = (@ /\ ~clr) \/ (new /\ m2 # m1 /\ far)]
      /\ IF again THEN Gtable(u, m2, xtab[u], TRUE, TRUE)
         ELSE hdRead' = [hdRead EXCEPT ![u] = @ /\ ~clr] /\ UNCHANGED <<hd_size, hd_off>>
      /\ xtab' = xtab
  BY DEF PcDisk
<1>2. HdTypeOK /\ SlotsInv /\ FreshInv /\ size \in Nat \ {0}
  BY HardDiskAssumption DEF HdIInv
<1>3. mbr[u] \in Mbrs /\ xtab[u] \in XTabs /\ mbr \in [HdUnits -> Mbrs] /\ hdCut \in [HdUnits -> BOOLEAN]
      /\ hdRead \in [HdUnits -> BOOLEAN]
  BY <1>2 DEF HdTypeOK
<1>4. m0 \in Mbrs /\ (clr \/ ~hdCut[u] => SlotsGood(m0))
  BY <1>2, <1>3, EmptyGood DEF SlotsInv
<1>5. m1 \in Mbrs /\ (SlotsGood(m0) => SlotsGood(m1))
  <2> HIDE DEF m0
  <2> QED
    BY <1>4, DpartIs
<1>6. m2 \in Mbrs /\ (SlotsGood(m1) /\ (new /\ m2 # m1 => ~far) => SlotsGood(m2))
  <2> HIDE DEF m1
  <2>1. Cpart(m1, size) \in Mbrs
        /\ (SlotsGood(m1) /\ (Cpart(m1, size) # m1 => FirstCyl(m1) + (size - 1) \div CylSectors < CylRange)
              => SlotsGood(Cpart(m1, size)))
    BY <1>2, <1>5, CpartIs
  <2>2. ~far => FirstCyl(m1) + (size - 1) \div CylSectors < CylRange
    <3> DEFINE a == FirstCyl(m1) + (size - 1) \div CylSectors
    <3>1. FirstCyl(m1) \in Nat /\ (size - 1) \div CylSectors \in Nat /\ CylRange \in Nat
      <4>1. size - 1 \in Nat
        BY <1>2
      <4> QED
        BY <1>5, <4>1, FirstCylIs, HdConsts, DivIs
    <3>2. a \in Nat
      BY <3>1
    <3>3. ~far => ~(a >= CylRange)
      OBVIOUS
    <3> HIDE DEF a, far
    <3>4. ~(a >= CylRange) => a < CylRange
      BY <3>1, <3>2
    <3>5. ~far => a < CylRange
      BY <3>3, <3>4, Zenon
    <3> QED
      BY <3>5, Zenon DEF a
  <2> HIDE DEF far
  <2>3. CASE new
    BY <1>5, <2>1, <2>2, <2>3, Zenon
  <2>4. CASE ~new
    BY <1>5, <2>4, Zenon
  <2> QED
    BY <2>3, <2>4
<1>7. again <=> (del /\ m1 # m0) \/ (new /\ m2 # m1)
  BY DEF Rereads
<1>8. (m1 # m0 => del) /\ (m2 # m1 => new)
  OBVIOUS
<1> HIDE DEF m0, m1, m2, far, again
<1>9. mbr' \in [HdUnits -> Mbrs] /\ mbr'[u] = m2 /\ \A v \in HdUnits \ {u} : mbr'[v] = mbr[v]
  BY <1>1, <1>3, <1>6
<1>10. hdCut' \in [HdUnits -> BOOLEAN] /\ \A v \in HdUnits \ {u} : hdCut'[v] = hdCut[v]
  BY <1>1, <1>3
<1>11. ~hdCut'[u] => (clr \/ ~hdCut[u]) /\ (new /\ m2 # m1 => ~far)
  BY <1>1, <1>3
<1>12. SlotsInv'
  <2>1. ASSUME NEW v \in HdUnits, ~hdCut'[v] PROVE SlotsGood(mbr'[v])
    <3>1. CASE v = u
      BY <1>4, <1>5, <1>6, <1>9, <1>11, <2>1, <3>1, Zenon
    <3>2. CASE v # u
      <4>1. ~hdCut[v] /\ mbr'[v] = mbr[v]
        BY <1>9, <1>10, <2>1, <3>2
      <4>2. SlotsGood(mbr[v])
        BY <1>2, <4>1, Zenon DEF SlotsInv
      <4> QED
        BY <4>1, <4>2, Zenon
    <3> QED
      BY <3>1, <3>2
  <2> QED
    BY <2>1 DEF SlotsInv
<1>13. CASE again
  <2>1. GtableDone(u, m2, xtab[u])
    BY <1>1, <1>2, <1>3, <1>6, <1>13, GtableIs
  <2>2. GtableDone(u, mbr'[u], xtab'[u])
    BY <1>1, <1>9, <2>1
  <2>3. HdTypeOK'
    BY <1>1, <1>2, <1>9, <1>10, <2>1 DEF HdTypeOK, GtableDone
  <2>4. FreshInv'
    BY <1>1, <1>2, <1>9, <2>2, FreshKept
  <2> QED
    BY <1>12, <2>3, <2>4 DEF HdIInv
<1>14. CASE ~again
  <2>1. clr
    BY <1>1, <1>7, <1>8, <1>14
  <2>2. hdRead' = [hdRead EXCEPT ![u] = @ /\ ~clr] /\ hd_size' = hd_size /\ hd_off' = hd_off
    BY <1>1, <1>14
  <2>3. hdRead' \in [HdUnits -> BOOLEAN] /\ ~hdRead'[u] /\ \A v \in HdUnits \ {u} : hdRead'[v] = hdRead[v]
    BY <1>3, <2>1, <2>2
  <2>4. HdTypeOK'
    BY <1>1, <1>2, <1>9, <1>10, <2>2, <2>3 DEF HdTypeOK
  <2>5. FreshInv'
    <3>1. ASSUME NEW v \in HdUnits, hdRead'[v] PROVE FreshAt(v, mbr[v], xtab[v])'
      <4>1. v # u /\ hdRead[v] /\ mbr'[v] = mbr[v]
        BY <1>9, <2>3, <3>1
      <4>2. FreshAt(v, mbr[v], xtab[v])
        BY <1>2, <4>1 DEF FreshInv
      <4> QED
        BY <1>1, <2>2, <4>1, <4>2 DEF FreshAt
    <3> QED
      BY <3>1, Zenon DEF FreshInv
  <2> QED
    BY <1>12, <2>4, <2>5 DEF HdIInv
<1> QED
  BY <1>13, <1>14

\* A free slot given to another system leaves the Xenus partition where it was.
LEMMA SameXenus ==
  ASSUME NEW m \in Mbrs, NEW k \in Slots, m[k].id = "none", NEW s \in SlotRec, s.id = "other"
  PROVE  XenusSlot([m EXCEPT ![k] = s]) = XenusSlot(m)
<1> DEFINE n == [m EXCEPT ![k] = s]
           x == {i \in Slots : m[i].id = "xenus"}
<1>1. n[k] = s /\ \A i \in Slots \ {k} : n[i] = m[i]
  BY DEF Mbrs
<1> HIDE DEF n
<1>2. {i \in Slots : n[i].id = "xenus"} = x
  BY <1>1
<1>3. x # {} => Min(x) \in Slots /\ n[Min(x)] = m[Min(x)]
  <2>1. ASSUME x # {} PROVE Min(x) \in x
    BY <2>1, MinOfSlots
  <2> QED
    BY <1>1, <2>1
<1>4. XenusSlot(n) = IF x = {} THEN [NoSlot EXCEPT !.size = DiskSize] ELSE n[Min(x)]
  BY <1>2, Zenon DEF XenusSlot
<1>5. XenusSlot(m) = IF x = {} THEN [NoSlot EXCEPT !.size = DiskSize] ELSE m[Min(x)]
  BY Zenon DEF XenusSlot
<1> HIDE DEF x
<1>6. XenusSlot(n) = XenusSlot(m)
  <2>1. CASE x = {}
    BY <1>4, <1>5, <2>1
  <2>2. CASE x # {}
    BY <1>3, <1>4, <1>5, <2>2
  <2> QED
    BY <2>1, <2>2
<1> QED
  BY <1>6 DEF n

\* Another system's partition is behind all others as well.
LEMMA ForeignSlotIs ==
  ASSUME NEW m \in Mbrs, NEW e \in Nat, NEW c, NEW s,
         c = Max({0} \cup {(m[k].start + m[k].size) \div CylSectors : k \in Slots}), c <= e,
         s = [id |-> "other", s |-> c % CylRange, e |-> e % CylRange,
              start |-> c * CylSectors, size |-> (e + 1 - c) * CylSectors]
  PROVE  /\ s \in SlotRec /\ (e < CylRange => SlotEnds(s))
         /\ SlotsGood(m) => \A l \in Slots : Clear(m[l], s)
<1> DEFINE End(k) == m[k].start + m[k].size
           Cyl(k) == End(k) \div CylSectors
<1>1. CylSectors \in Nat \ {0} /\ CylRange \in Nat \ {0}
  BY HdConsts
<1>2. \A k \in Slots : End(k) \in Nat
  BY DEF Mbrs, SlotRec
<1>3. \A k \in Slots : Cyl(k) \in Nat
  <2> HIDE DEF End
  <2> QED
    BY <1>1, <1>2, DivIs
<1>4. c = Max({0, Cyl(1), Cyl(2)})
  <2>1. {0} \cup {Cyl(k) : k \in Slots} = {0, Cyl(1), Cyl(2)}
    <3> HIDE DEF Cyl
    <3> QED
      BY DEF Slots
  <2> QED
    BY <2>1
<1>5. c \in Nat /\ \A k \in Slots : Cyl(k) <= c
  <2> HIDE DEF Cyl
  <2>1. Cyl(1) \in Nat /\ Cyl(2) \in Nat
    BY <1>3 DEF Slots
  <2>2. c \in Nat /\ Cyl(1) <= c /\ Cyl(2) <= c
    BY <1>4, <2>1, MaxOfSlots
  <2> QED
    BY <2>2 DEF Slots
<1>6. ASSUME SlotsGood(m), NEW l \in Slots, m[l].id # "none" PROVE m[l].e + 1 <= c
  <2>1. m[l].e + 1 \in Nat /\ End(l) = (m[l].e + 1) * CylSectors
    BY <1>6 DEF Mbrs, SlotRec, SlotsGood, SlotEnds
  <2>2. Cyl(l) = m[l].e + 1
    BY <1>1, <2>1, DivMul
  <2> QED
    BY <1>5, <2>2
<1>7. /\ c % CylRange \in Nat /\ e % CylRange \in Nat /\ (e < CylRange => e % CylRange = e)
  <2> HIDE DEF Cyl, End
  <2>1. \A a \in Nat : a % CylRange \in Nat
    BY <1>1, DivIs
  <2>2. e < CylRange => e % CylRange = e
    BY <1>1, ModLess
  <2> QED
    BY <1>5, <2>1, <2>2, Zenon
<1>8. e + 1 - c \in Nat /\ c + (e + 1 - c) = e + 1
  BY <1>5
<1> DEFINE w == e + 1 - c
<1>9. c * CylSectors \in Nat /\ w * CylSectors \in Nat
      /\ (c + w) * CylSectors = c * CylSectors + w * CylSectors
  <2>1. w \in Nat
    BY <1>8
  <2> HIDE DEF w
  <2> QED
    BY <1>1, <1>5, <2>1, MulAdd
<1>10. c + w = e + 1
  BY <1>8
<1>11. s = [id |-> "other", s |-> c % CylRange, e |-> e % CylRange,
            start |-> c * CylSectors, size |-> w * CylSectors]
  BY Zenon
<1> HIDE DEF w, End, Cyl
<1>12. s \in SlotRec
  BY <1>7, <1>9, <1>11 DEF SlotRec
<1>13. ASSUME e < CylRange PROVE SlotEnds(s)
  <2>1. s.e = e /\ s.start + s.size = (e + 1) * CylSectors
    BY <1>7, <1>9, <1>10, <1>11, <1>13
  <2> QED
    BY <1>11, <2>1 DEF SlotEnds
<1>14. s.start = c * CylSectors
  BY <1>11
<1>15. SlotsGood(m) => \A l \in Slots : Clear(m[l], s)
  BY <1>5, <1>6, <1>12, <1>14, BehindAll
<1> QED
  BY <1>12, <1>13, <1>15

LEMMA ForeignKeeps ==
  ASSUME HdIInv, NEW u \in HdUnits, NEW e \in 0 .. HdCyls - 1, Foreign(u, e)
  PROVE  HdIInv'
<1> DEFINE m == mbr[u]
           free == {k \in Slots : m[k].id = "none"}
           k == Min(free)
           c == Max({0} \cup {(m[l].start + m[l].size) \div CylSectors : l \in Slots})
           s == [id |-> "other", s |-> c % CylRange, e |-> e % CylRange,
                 start |-> c * CylSectors, size |-> (e + 1 - c) * CylSectors]
           n == [m EXCEPT ![k] = s]
<1>1. /\ free # {} /\ e \in c .. HdCyls - 1
      /\ mbr' = [mbr EXCEPT ![u][k] = s]
      /\ hdCut' = [hdCut EXCEPT ![u] = @ \/ e >= CylRange]
      /\ hd_size' = hd_size /\ hd_off' = hd_off /\ xtab' = xtab /\ hdRead' = hdRead
  BY Zenon DEF Foreign
<1>2. HdTypeOK /\ SlotsInv /\ FreshInv /\ e \in Nat /\ CylRange \in Nat
  BY HdConsts DEF HdIInv
<1>3. m \in Mbrs /\ mbr \in [HdUnits -> Mbrs] /\ hdCut \in [HdUnits -> BOOLEAN]
  BY <1>2 DEF HdTypeOK
<1>4. k \in free
  BY <1>1, MinOfSlots, Zenon
<1>5. k \in Slots /\ m[k].id = "none"
  BY <1>4
<1>6. c <= e
  BY <1>1
<1>7. /\ s \in SlotRec /\ (e < CylRange => SlotEnds(s))
      /\ SlotsGood(m) => \A l \in Slots : Clear(m[l], s)
  <2> HIDE DEF m
  <2> QED
    BY <1>2, <1>3, <1>6, ForeignSlotIs
<1>8. s.id = "other"
  OBVIOUS
<1> HIDE DEF m, free, k, c, s
<1>9. n \in Mbrs /\ (SlotsGood(m) /\ SlotEnds(s) /\ (\A l \in Slots \ {k} : Clear(m[l], s)) => SlotsGood(n))
  BY <1>3, <1>5, <1>7, PutSlot, Zenon
<1>10. XenusSlot(n) = XenusSlot(m)
  BY <1>3, <1>5, <1>7, <1>8, SameXenus
<1>11. mbr' \in [HdUnits -> Mbrs] /\ mbr'[u] = n /\ \A v \in HdUnits \ {u} : mbr'[v] = mbr[v]
  <2>1. mbr' = [mbr EXCEPT ![u] = n]
    BY <1>1, <1>3 DEF m
  <2> HIDE DEF n
  <2> QED
    BY <1>3, <1>9, <2>1
<1>12. hdCut' \in [HdUnits -> BOOLEAN] /\ (~hdCut'[u] => ~hdCut[u] /\ e < CylRange)
       /\ \A v \in HdUnits \ {u} : hdCut'[v] = hdCut[v]
  <2> DEFINE cut == e >= CylRange
  <2>1. hdCut' = [hdCut EXCEPT ![u] = @ \/ cut] /\ cut \in BOOLEAN
    BY <1>1
  <2>2. ~cut => e < CylRange
    BY <1>2
  <2> HIDE DEF cut
  <2> QED
    BY <1>3, <2>1, <2>2
<1> HIDE DEF n
<1>13. HdTypeOK'
  BY <1>1, <1>2, <1>11, <1>12 DEF HdTypeOK
<1>14. SlotsInv'
  <2>1. ASSUME NEW v \in HdUnits, ~hdCut'[v] PROVE SlotsGood(mbr'[v])
    <3>1. CASE v = u
      <4>1. ~hdCut[u] /\ e < CylRange
        BY <1>12, <2>1, <3>1
      <4>2. SlotsGood(m)
        BY <1>2, <4>1 DEF SlotsInv, m
      <4> QED
        BY <1>7, <1>9, <1>11, <3>1, <4>1, <4>2, Zenon
    <3>2. CASE v # u
      <4>1. ~hdCut[v] /\ mbr'[v] = mbr[v]
        BY <1>11, <1>12, <2>1, <3>2
      <4>2. SlotsGood(mbr[v])
        BY <1>2, <4>1, Zenon DEF SlotsInv
      <4> QED
        BY <4>1, <4>2, Zenon
    <3> QED
      BY <3>1, <3>2
  <2> QED
    BY <2>1 DEF SlotsInv
<1>15. FreshInv'
  <2>1. ASSUME NEW v \in HdUnits, hdRead'[v] PROVE FreshAt(v, mbr[v], xtab[v])'
    <3>1. FreshAt(v, mbr[v], xtab[v])
      BY <1>1, <1>2, <2>1 DEF FreshInv
    <3>2. XenusSlot(mbr'[v]) = XenusSlot(mbr[v])
      BY <1>10, <1>11 DEF m
    <3> QED
      BY <1>1, <3>1, <3>2 DEF FreshAt
  <2> QED
    BY <2>1, Zenon DEF FreshInv
<1> QED
  BY <1>13, <1>14, <1>15 DEF HdIInv

\* The sums of an empty table are 0.
LEMMA BeforeEmpty == \A i \in Parts : Before(NoTable)[i] = 0
<1> DEFINE B == Before(NoTable)
           T == {i \in Parts : B[i] # 0}
<1>1. NoTable \in Tables
  BY DEF NoTable, Tables
<1>2. B[0] = 0 /\ \A i \in Parts : B[i + 1] = B[i] + NoTable[i]
  BY <1>1, BeforeIs
<1> HIDE DEF B
<1>3. SUFFICES ASSUME T # {} PROVE FALSE
  BY DEF B
<1>4. T \subseteq Nat
  BY HdConsts
<1>5. PICK n \in T : \A m \in T : n <= m
  BY <1>3, <1>4, HasLeast
<1>6. n \in Parts /\ n # 0 /\ B[n] # 0
  BY <1>2, <1>5
<1>7. n - 1 \in Parts /\ n - 1 \notin T /\ (n - 1) + 1 = n
  <2>1. n \in Nat /\ n - 1 \in Parts /\ (n - 1) + 1 = n
    BY <1>6, HdConsts DEF Parts
  <2> HIDE DEF T
  <2>2. ASSUME n - 1 \in T PROVE n <= n - 1
    BY <1>5, <2>2
  <2> QED
    BY <2>1, <2>2
<1>8. B[n] = B[n - 1] + NoTable[n - 1] /\ B[n - 1] = 0 /\ NoTable[n - 1] = 0
  BY <1>2, <1>7 DEF NoTable
<1> QED
  BY <1>6, <1>8

LEMMA HdInitGood == HdInit => HdIInv
<1> SUFFICES ASSUME HdInit PROVE HdIInv
  OBVIOUS
<1>1. NoTable \in Tables /\ NoSlot \in SlotRec
  BY NoSlotIs DEF NoTable, Tables
<1>2. HdTypeOK
  BY <1>1, HdConsts DEF HdInit, HdTypeOK, Devs, Mbrs, XTabs
<1>3. SlotsInv
  BY EmptyGood DEF HdInit, SlotsInv
<1>4. ASSUME NEW u \in HdUnits PROVE FreshAt(u, mbr[u], xtab[u])
  <2>1. mbr[u] = [k \in Slots |-> NoSlot] /\ xtab[u] = [n \in Sectors |-> NoTable]
    BY DEF HdInit
  <2>2. {k \in Slots : mbr[u][k].id = "xenus"} = {}
    BY <2>1 DEF NoSlot
  <2>3. XenusSlot(mbr[u]).start = 0
    BY <2>2 DEF XenusSlot, NoSlot
  <2>4. 0 \in Sectors /\ xtab[u][0] = NoTable
    BY <2>1, HdConsts
  <2>5. ASSUME NEW i \in Parts
        PROVE  hd_off[<<u, i>>] = Offset(0, NoTable, i) /\ hd_size[<<u, i>>] = Sizes(NoTable)[i]
    <3>1. <<u, i>> \in Devs /\ <<u, i>> # <<0, Whole>> /\ 0 \in Parts
      BY HdConsts DEF Devs
    <3>2. hd_off[<<u, i>>] = 0 /\ hd_size[<<u, i>>] = IF i = 0 THEN 1 ELSE 0
      BY <3>1 DEF HdInit, Devs
    <3>3. Sizes(NoTable)[i] = IF i = 0 THEN 1 ELSE 0
      BY <3>1 DEF Sizes, NoTable
    <3>4. Offset(0, NoTable, i) = 0
      <4>1. 0 % BlkRange = 0
        BY HdConsts, ModLess
      <4>2. 0 + Before(NoTable)[i] = 0
        BY BeforeEmpty
      <4> QED
        BY <4>1, <4>2 DEF Offset
    <3> QED
      BY <3>2, <3>3, <3>4
  <2>6. InCore(hd_size, hd_off, u, 0, NoTable)
    BY <2>5 DEF InCore
  <2> QED
    BY <2>3, <2>4, <2>6 DEF FreshAt
<1> QED
  BY <1>2, <1>3, <1>4 DEF HdIInv, FreshInv

----------------------------------------------------------------------------
(* What the invariant says.                                                 *)

\* Two partitions of a table whose sums fit blk_t have no sector in common.
LEMMA ReachApart ==
  ASSUME HdTypeOK, NEW u \in HdUnits, NEW o \in Nat, NEW t \in Tables,
         InCore(hd_size, hd_off, u, o, t), t[0] # 0, o + Before(t)[NParts] <= BlkRange,
         NEW i \in Parts, NEW j \in Parts, i < j
  PROVE  Reach(u, i) \cap Reach(u, j) = {}
<1> DEFINE B == Before(t)
<1>1. /\ \A n \in 0 .. NParts : B[n] \in Nat
      /\ \A k \in Parts : t[k] \in Nat /\ B[k] + t[k] <= B[NParts] /\ k \in 0 .. NParts
      /\ B[i] + t[i] <= B[j]
  <2>1. NParts \in 0 .. NParts /\ \A k \in Parts : k < NParts /\ k \in 0 .. NParts
    BY HdConsts DEF Parts
  <2>2. \A n \in 0 .. NParts : B[n] \in Nat
    BY BeforeIs
  <2>3. \A k \in Parts : t[k] \in Nat /\ B[k] + t[k] <= B[NParts]
    BY <2>1, BeforeGrows DEF Tables
  <2>4. B[i] + t[i] <= B[j]
    BY <2>1, BeforeGrows
  <2> QED
    BY <2>1, <2>2, <2>3, <2>4
<1>2. BlkRange \in Nat \ {0} /\ NParts \in 0 .. NParts
  BY HdConsts
<1>3. ASSUME NEW k \in Parts, NEW x \in Reach(u, k)
      PROVE  x \in Nat /\ o + B[k] <= x /\ x < o + B[k] + t[k]
  <2>1. PICK b \in 0 .. BlkRange - 1 : x = HdMap(u, k, b) /\ x # -1
    BY <1>3 DEF Reach
  <2>2. b \in Nat /\ b < hd_size[<<u, k>>] /\ x = (hd_off[<<u, k>>] + b) % BlkRange
    BY <1>2, <2>1, HdMapIs
  <2>3. hd_off[<<u, k>>] = Offset(o, t, k) /\ hd_size[<<u, k>>] = t[k]
    BY DEF InCore, Sizes
  <2> DEFINE a == o + B[k]
  <2>4. B[k] \in Nat /\ t[k] \in Nat /\ B[NParts] \in Nat /\ B[k] + t[k] <= B[NParts]
    BY <1>1, <1>2
  <2>5. o + B[NParts] <= BlkRange
    OBVIOUS
  <2>6. b < t[k]
    BY <2>2, <2>3
  <2> HIDE DEF B
  <2>7. a \in Nat /\ a < BlkRange /\ a + b \in Nat /\ a + b < BlkRange
    BY <1>2, <2>2, <2>4, <2>5, <2>6
  <2> HIDE DEF a
  <2>8. a % BlkRange = a /\ (a + b) % BlkRange = a + b
    BY <1>2, <2>7, ModLess
  <2>9. hd_off[<<u, k>>] = a
    BY <2>3, <2>8 DEF Offset, a, B
  <2>10. x = a + b
    BY <2>2, <2>8, <2>9
  <2>11. a = o + B[k]
    BY DEF a
  <2> QED
    BY <2>2, <2>4, <2>6, <2>7, <2>10, <2>11
<1> HIDE DEF B
<1>4. ASSUME NEW x \in Reach(u, i), x \in Reach(u, j) PROVE FALSE
  <2>1. x \in Nat /\ o + B[j] <= x /\ x < o + B[i] + t[i]
    BY <1>3, <1>4
  <2>2. B[i] \in Nat /\ B[j] \in Nat /\ t[i] \in Nat /\ B[i] + t[i] <= B[j]
    BY <1>1
  <2> QED
    BY <2>1, <2>2
<1> QED
  BY <1>4

LEMMA PartsApartHolds == HdIInv => PartsApart
<1> SUFFICES ASSUME HdIInv, NEW u \in HdUnits, hdRead[u], HdFits(u),
                    xtab[u][XenusSlot(mbr[u]).start][0] # 0,
                    NEW i \in Parts, NEW j \in Parts, i # j
             PROVE  Reach(u, i) \cap Reach(u, j) = {}
  BY Zenon DEF PartsApart
<1> DEFINE o == XenusSlot(mbr[u]).start
           t == xtab[u][o]
           f == [k \in Parts |-> hd_size[<<u, k>>]]
<1>1. HdTypeOK /\ o \in Sectors /\ InCore(hd_size, hd_off, u, o, t)
  BY DEF HdIInv, FreshInv, FreshAt
<1>2. t \in Tables /\ o \in Nat /\ t[0] # 0
  BY <1>1, HdConsts DEF HdTypeOK, XTabs
<1>3. o + Before(f)[NParts] <= BlkRange
  BY Zenon DEF HdFits
<1> HIDE DEF t, o
<1>4. f = t
  <2>1. \A k \in Parts : hd_size[<<u, k>>] = t[k]
    BY <1>1, <1>2 DEF InCore, Sizes
  <2> QED
    BY <1>2, <2>1 DEF Tables
<1>5. o + Before(t)[NParts] <= BlkRange
  <2> HIDE DEF f
  <2> QED
    BY <1>3, <1>4
<1>6. i < j \/ j < i
  BY HdConsts
<1>7. CASE i < j
  BY <1>1, <1>2, <1>5, <1>7, ReachApart
<1>8. CASE j < i
  <2>1. Reach(u, j) \cap Reach(u, i) = {}
    BY <1>1, <1>2, <1>5, <1>8, ReachApart
  <2> QED
    BY <2>1
<1> QED
  BY <1>6, <1>7, <1>8

LEMMA SlotsApartHolds == HdIInv => SlotsApart
<1> SUFFICES ASSUME HdIInv, NEW u \in HdUnits, ~hdCut[u], NEW k \in Slots, NEW l \in Slots, k # l
             PROVE  (mbr[u][k].start .. mbr[u][k].start + mbr[u][k].size - 1)
                      \cap (mbr[u][l].start .. mbr[u][l].start + mbr[u][l].size - 1) = {}
  BY Zenon DEF SlotsApart
<1>1. mbr[u][k] \in SlotRec /\ mbr[u][l] \in SlotRec
  BY DEF HdIInv, HdTypeOK, Mbrs
<1>2. Clear(mbr[u][k], mbr[u][l])
  BY DEF HdIInv, SlotsInv, SlotsGood
<1> DEFINE a == mbr[u][k]
           b == mbr[u][l]
<1>3. a.start \in Nat /\ a.size \in Nat /\ b.start \in Nat /\ b.size \in Nat
  BY <1>1 DEF SlotRec
<1>4. Clear(a, b)
  BY <1>2
<1> HIDE DEF a, b
<1>5. (a.start .. a.start + a.size - 1) \cap (b.start .. b.start + b.size - 1) = {}
  BY <1>3, <1>4 DEF Clear
<1> QED
  BY <1>5 DEF a, b

LEMMA TableFreshHolds == HdIInv => TableFresh
BY DEF HdIInv, FreshInv, FreshAt, InCore, TableFresh

LEMMA HdIInvInductive == HdIInv /\ [HdNext]_hdVars => HdIInv'
<1> SUFFICES ASSUME HdIInv, [HdNext]_hdVars PROVE HdIInv'
  OBVIOUS
<1>1. CASE HdNext
  BY <1>1, RtblKeeps, SetPartKeeps, PcDiskKeeps, ForeignKeeps DEF HdNext
<1>2. CASE UNCHANGED hdVars
  BY <1>2 DEF hdVars, HdIInv, HdTypeOK, SlotsInv, FreshInv, FreshAt
<1> QED
  BY <1>1, <1>2

\* The partitions of a disk never share a sector, in Xenus' table and, while the
\* PC's table can name every end cylinder, in that one; and the sizes and offsets
\* that kern/dv/hd.c keeps are those of the tables that setpart and pcdisk wrote
\* last, whatever disks, tables and sizes there are.
THEOREM PartsCorrect == HdInit /\ [][HdNext]_hdVars => []PartsExact
<1>1. HdInit => HdIInv
  BY HdInitGood
<1>2. HdIInv /\ [HdNext]_hdVars => HdIInv'
  BY HdIInvInductive
<1>3. HdIInv => PartsExact
  BY PartsApartHolds, SlotsApartHolds, TableFreshHolds DEF PartsExact
<1> QED
  BY <1>1, <1>2, <1>3, PTL

----------------------------------------------------------------------------
(* Floppy.                                                                   *)

USE FloppyAssumption DEF FloppyAssumption

FdStates   == {"idle", "retry", "reset", "sense", "motor", "seek0", "seek", "xfer", "wait"}
FdCommands == {"none", "reset", "seek0", "seek", "xfer"}
FdRequests == [op : FdOps \cup {"none"}, u : PHYS_UNITS \cup {0}, c : Int, n : Int,
             retries : Nat, err : BOOLEAN]
FdControls == [phase : {"ready", "exec", "result"}, cmd : FdCommands, bad : BOOLEAN,
             u : PHYS_UNITS \cup {0}, c : Int]
FdTypeOK ==
  /\ fd_motor_timeout \in Nat /\ fd_irq \in {0, 1}
  /\ curr_cyl \in [PHYS_UNITS -> Int] /\ fdHead \in [PHYS_UNITS -> Int]
  /\ fdReq \in FdRequests /\ fdc \in FdControls /\ fdPc \in FdStates

\* The driver is between two tries and will reset the controller before the
\* next one: what it believes of the heads does not matter.
Lost == need_reset /\ fdPc \in {"idle", "retry"}
\* It waits for a seek of the request's drive.
Seeking == fdPc = "wait" /\ fdc.cmd \in {"seek0", "seek"}

\* Otherwise a cylinder it remembers is where the heads are, and the controller
\* moves no heads behind its back.
Remembered ==
  ~Lost => /\ \A u \in PHYS_UNITS : \/ curr_cyl[u] = -1 \/ curr_cyl[u] = fdHead[u]
                                    \/ Seeking /\ u = fdReq.u
           /\ fdc.phase = "exec" /\ fdc.cmd \in {"seek0", "seek"} => Seeking

\* A request under way is for a drive and for blocks that are left; between two
\* tries it has failed before or is new.
RequestOpen ==
  /\ fdPc # "idle" => fdReq.u \in PHYS_UNITS /\ fdReq.n >= 1 /\ fdReq.op \in FdOps /\ fdReq.c >= 0
  /\ fdPc = "retry" => fdReq.err \/ fdReq.retries = 0

\* The controller's command is the one the driver waits for, and a good result
\* means that it was carried out.
CommandKnown ==
  /\ fdPc = "wait" =>
       /\ fdc.phase \in {"exec", "result"} /\ fdc.cmd \in {"seek0", "seek", "xfer"}
       /\ fdc.u = fdReq.u /\ fdc.c = fdReq.c
       /\ fdc.phase = "result" /\ ~fdc.bad =>
            /\ fdc.cmd = "seek0" => fdHead[fdReq.u] = 0
            /\ fdc.cmd = "seek" => fdHead[fdReq.u] = fdReq.c
            /\ fdc.cmd = "xfer" => fdWorked
  /\ fdPc = "xfer" \/ (fdPc = "wait" /\ fdc.cmd = "xfer") => curr_cyl[fdReq.u] = fdReq.c

FdInv == FdTypeOK /\ FdKnown /\ Remembered /\ RequestOpen /\ CommandKnown

\* What the changes of one field or of several leave of a request.
LEMMA RequestFields ==
  ASSUME NEW r \in FdRequests
  PROVE  /\ r.op \in FdOps \cup {"none"} /\ r.u \in PHYS_UNITS \cup {0} /\ r.c \in Int
         /\ r.n \in Int /\ r.retries \in Nat /\ r.err \in BOOLEAN
BY DEF FdRequests

LEMMA FailedRequest ==
  ASSUME NEW r \in FdRequests, NEW q, q = [r EXCEPT !.err = TRUE]
  PROVE  /\ q \in FdRequests /\ q.err = TRUE /\ q.op = r.op /\ q.u = r.u /\ q.c = r.c
         /\ q.n = r.n /\ q.retries = r.retries
BY DEF FdRequests

LEMMA RetriedRequest ==
  ASSUME NEW r \in FdRequests, NEW q, q = [r EXCEPT !.retries = @ + 1]
  PROVE  /\ q \in FdRequests /\ q.err = r.err /\ q.op = r.op /\ q.u = r.u /\ q.c = r.c
         /\ q.n = r.n
<1>1. r.retries \in Nat /\ r.retries + 1 \in Nat
  BY DEF FdRequests
<1> QED
  BY <1>1 DEF FdRequests

LEMMA NextBlock ==
  ASSUME NEW r \in FdRequests, NEW q,
         q = [r EXCEPT !.err = FALSE, !.n = @ - 1, !.retries = 0]
  PROVE  /\ q \in FdRequests /\ q.err = FALSE /\ q.op = r.op /\ q.u = r.u /\ q.c = r.c
         /\ q.n = r.n - 1 /\ q.retries = 0
<1>1. r.n \in Int /\ r.n - 1 \in Int /\ 0 \in Nat /\ FALSE \in BOOLEAN
  BY DEF FdRequests
<1>2. q = [op |-> r.op, u |-> r.u, c |-> r.c, n |-> r.n - 1, retries |-> 0, err |-> FALSE]
  BY <1>1 DEF FdRequests
<1>3. r.op \in FdOps \cup {"none"} /\ r.u \in PHYS_UNITS \cup {0} /\ r.c \in Int
  BY DEF FdRequests
<1> QED
  BY <1>1, <1>2, <1>3 DEF FdRequests

LEMMA ControlFields ==
  ASSUME NEW k \in FdControls, NEW b \in BOOLEAN
  PROVE  /\ k.phase \in {"ready", "exec", "result"} /\ k.cmd \in FdCommands
         /\ k.u \in PHYS_UNITS \cup {0} /\ k.c \in Int
         /\ LET q == [k EXCEPT !.phase = "result", !.bad = b]
            IN  /\ q \in FdControls /\ q.phase = "result" /\ q.bad = b /\ q.cmd = k.cmd
                /\ q.u = k.u /\ q.c = k.c
BY DEF FdControls

LEMMA Commands ==
  ASSUME fdReq \in FdRequests
  PROVE  /\ Ready \in FdControls /\ Ready.phase = "ready"
         /\ \A cmd \in FdCommands :
              LET k == Issue(cmd)
              IN  /\ k \in FdControls /\ k.phase = "exec" /\ k.cmd = cmd
                  /\ k.u = fdReq.u /\ k.c = fdReq.c
BY DEF Ready, Issue, FdControls, FdRequests, FdCommands

LEMMA FdInitInv == FdInit => FdInv
<1> SUFFICES ASSUME FdInit PROVE FdInv
  OBVIOUS
<1>0. NoReq \in FdRequests /\ NoReq.op = "none"
  BY DEF NoReq, FdRequests
<1>2. Ready \in FdControls /\ Ready.phase = "ready"
  BY DEF Ready, FdControls, FdCommands
<1>1. FdTypeOK
  BY <1>0, <1>2 DEF FdInit, FdTypeOK, FdStates
<1> QED
  BY <1>0, <1>1, <1>2 DEF FdInit, FdInv, FdKnown, HeadsKnown, MotorStops, Remembered, Lost,
     Seeking, RequestOpen, CommandKnown

\* The clock's steps, the driver's and the controller's.
LEMMA FdNextInv == FdInv /\ [FdNext]_fdVars => FdInv'
<1> SUFFICES ASSUME FdInv, [FdNext]_fdVars PROVE FdInv'
  OBVIOUS
<1>r. /\ fdReq.op \in FdOps \cup {"none"} /\ fdReq.u \in PHYS_UNITS \cup {0} /\ fdReq.c \in Int
      /\ fdReq.n \in Int /\ fdReq.retries \in Nat /\ fdReq.err \in BOOLEAN /\ fdReq \in FdRequests
      /\ fdc.phase \in {"ready", "exec", "result"} /\ fdc.cmd \in FdCommands
      /\ fdc.u \in PHYS_UNITS \cup {0} /\ fdc.c \in Int /\ fdc \in FdControls
  BY RequestFields, ControlFields DEF FdInv, FdTypeOK
<1> USE <1>r
<1> USE DEF FdInv, FdTypeOK, FdStates, FdKnown, HeadsKnown, MotorStops, Remembered,
            Lost, Seeking, RequestOpen, CommandKnown
<1>1. CASE FdClock
  <2>1. /\ fd_motor_timeout > 0 /\ fd_motor_timeout' = fd_motor_timeout - 1
        /\ fdMotor' = IF fd_motor_timeout = 1 THEN {} ELSE fdMotor
        /\ UNCHANGED <<fd_irq, need_reset, curr_cyl, fdReq, fdPc, fdc, fdHead, fdWorked, fdUnwound>>
    BY <1>1 DEF FdClock
  <2>2. MotorStops'
    BY <2>1
  <2> QED
    BY <2>1, <2>2
<1>2. CASE FdGiveUp
  <2>1. Retries(fdReq.op) >= 1
    BY DEF Retries
  <2>2. fdReq.err /\ fdPc' = "idle" /\ fdPc = "retry"
        /\ UNCHANGED <<fd_irq, need_reset, curr_cyl, fdMotor, fdReq, fdc, fdHead, fdWorked>>
    <3>1. fdPc = "retry" /\ fdReq.retries >= Retries(fdReq.op)
      BY <1>2 DEF FdGiveUp
    <3>2. fdReq.retries # 0
      BY <3>1, <2>1 DEF Retries
    <3>3. fdReq.err
      BY <3>1, <3>2
    <3> QED
      BY <1>2, <3>1, <3>3 DEF FdGiveUp
  <2>3. fd_motor_timeout' \in Nat /\ (fd_motor_timeout' > 0 \/ fdUnwound')
    BY <1>2 DEF FdGiveUp, Unlock
  <2> QED
    BY <2>2, <2>3
<1>3. CASE FdSelect
  <2>1. /\ fdReq' = [fdReq EXCEPT !.retries = @ + 1] /\ fdPc = "retry"
        /\ UNCHANGED <<fd_irq, need_reset, fdHead, fdWorked, fdUnwound>>
        /\ fd_motor_timeout' = 0
        /\ \/ /\ curr_cyl' = [u \in PHYS_UNITS |-> -1] /\ fdc' = Issue("reset")
              /\ fdPc' = "reset"
           \/ ~need_reset /\ UNCHANGED <<curr_cyl, fdc>> /\ fdPc' = "motor"
    BY <1>3 DEF FdSelect, Again
  <2>2. /\ fdReq' \in FdRequests /\ fdReq'.u = fdReq.u /\ fdReq'.n = fdReq.n
        /\ fdReq'.op = fdReq.op /\ fdReq'.c = fdReq.c
    BY <2>1, RetriedRequest
  <2>3. "reset" \in FdCommands
    BY DEF FdCommands
  <2> QED
    BY <2>1, <2>2, <2>3, Commands
<1>4. CASE FdResetIrq \/ FdResetTimeout
  BY <1>4 DEF FdResetIrq, FdResetTimeout
<1>5. CASE FdSpin
  BY <1>5 DEF FdSpin
<1>6. ASSUME NEW ok \in BOOLEAN, FdResetEnd(ok) PROVE FdInv'
  BY <1>6, Commands DEF FdResetEnd
<1>7. ASSUME NEW ok \in BOOLEAN, FdCommand(ok) PROVE FdInv'
  <2>0. fdPc \in {"seek0", "seek", "xfer"} /\ UNCHANGED <<fdMotor, fdHead, fdWorked, fdUnwound>>
    BY <1>7 DEF FdCommand
  <2>1. CASE /\ Accepts /\ fd_irq' = (IF fdc.phase = "exec" THEN 1 ELSE 0)
             /\ fdc' = Issue(fdPc) /\ fdPc' = "wait"
             /\ UNCHANGED <<fd_motor_timeout, need_reset, curr_cyl, fdReq>>
    <3>1. fdPc \in FdCommands
      BY <2>0 DEF FdCommands
    <3>2. /\ fdc' \in FdControls /\ fdc'.phase = "exec" /\ fdc'.cmd = fdPc
          /\ fdc'.u = fdReq.u /\ fdc'.c = fdReq.c
      BY <2>1, <3>1, Commands
    <3> QED
      BY <2>0, <2>1, <3>2
  <2>2. CASE /\ Fail /\ fd_irq' = 0 /\ fd_motor_timeout' = FD_MOTOR_TIMEOUT /\ need_reset' = TRUE
             /\ curr_cyl' = Forget(fdPc) /\ UNCHANGED fdc
    <3>1. /\ fdReq' \in FdRequests /\ fdReq'.u = fdReq.u /\ fdReq'.n = fdReq.n /\ fdReq'.err = TRUE
          /\ fdReq'.op = fdReq.op /\ fdReq'.c = fdReq.c /\ fdPc' = "retry"
      BY <2>2, FailedRequest, ZenonT(60) DEF Fail
    <3>2. curr_cyl' \in [PHYS_UNITS -> Int]
      BY <2>2 DEF Forget
    <3> QED
      BY <2>0, <2>2, <3>1, <3>2
  <2> QED
    BY <1>7, <2>1, <2>2 DEF FdCommand
<1>8. CASE FdNoAnswer
  <2>1. /\ fdPc = "wait" /\ need_reset' = TRUE /\ Fail /\ curr_cyl' = Forget(fdc.cmd)
        /\ UNCHANGED <<fd_motor_timeout, fd_irq, fdMotor, fdc, fdHead, fdWorked, fdUnwound>>
    BY <1>8 DEF FdNoAnswer
  <2>2. /\ fdReq' \in FdRequests /\ fdReq'.u = fdReq.u /\ fdReq'.n = fdReq.n /\ fdReq'.err = TRUE
        /\ fdReq'.op = fdReq.op /\ fdReq'.c = fdReq.c /\ fdPc' = "retry"
    BY <2>1, FailedRequest DEF Fail
  <2>3. curr_cyl' \in [PHYS_UNITS -> Int]
    BY <2>1 DEF Forget
  <2> QED
    BY <2>1, <2>2, <2>3
<1>9. CASE FdResult
  <2>0. /\ fdPc = "wait" /\ fdc.phase = "result" /\ fdc' = Ready
        /\ UNCHANGED <<fd_irq, need_reset, fdMotor, fdHead>>
    BY <1>9 DEF FdResult
  <2>1. CASE /\ Fail /\ curr_cyl' = [curr_cyl EXCEPT ![fdReq.u] = -1]
             /\ UNCHANGED <<fd_motor_timeout, fdUnwound, fdWorked>>
    <3>1. /\ fdReq' \in FdRequests /\ fdReq'.u = fdReq.u /\ fdReq'.n = fdReq.n /\ fdReq'.err = TRUE
          /\ fdReq'.op = fdReq.op /\ fdReq'.c = fdReq.c /\ fdPc' = "retry"
      BY <2>1, FailedRequest DEF Fail
    <3> QED
      BY <2>0, <2>1, <3>1, Commands
  <2>2. CASE /\ Good /\ fdc.cmd = "seek0" /\ curr_cyl' = [curr_cyl EXCEPT ![fdReq.u] = 0]
             /\ fdPc' = (IF fdReq.c # 0 THEN "seek" ELSE "xfer")
             /\ UNCHANGED <<fd_motor_timeout, fdReq, fdUnwound, fdWorked>>
    BY <2>0, <2>2, Commands DEF Good
  <2>3. CASE /\ Good /\ fdc.cmd = "seek" /\ curr_cyl' = [curr_cyl EXCEPT ![fdReq.u] = fdReq.c]
             /\ fdPc' = "xfer" /\ UNCHANGED <<fd_motor_timeout, fdReq, fdUnwound, fdWorked>>
    BY <2>0, <2>3, Commands DEF Good
  <2>4. CASE /\ Good /\ fdc.cmd = "xfer"
             /\ fdReq' = [fdReq EXCEPT !.err = FALSE, !.n = @ - 1, !.retries = 0]
             /\ fdPc' = (IF fdReq.n > 1 THEN "retry" ELSE "idle")
             /\ fd_motor_timeout' = FD_MOTOR_TIMEOUT /\ fdUnwound' = FALSE
             /\ fdWorked' = (fdWorked /\ fdReq.n = 1) /\ UNCHANGED curr_cyl
    <3>1. /\ fdReq' \in FdRequests /\ fdReq'.u = fdReq.u /\ fdReq'.n = fdReq.n - 1
          /\ fdReq'.op = fdReq.op /\ fdReq'.c = fdReq.c /\ fdReq'.err = FALSE
          /\ fdReq'.retries = 0
      BY <2>4, NextBlock
    <3>2. ASSUME fdPc' = "idle" PROVE fdWorked'
      <4>1. fdReq.n = 1
        BY <2>0, <2>4, <3>2
      <4>2. fdWorked
        BY <2>0, <2>4 DEF Good
      <4> QED
        BY <2>4, <4>1, <4>2
    <3> QED
      BY <2>0, <2>4, <3>1, <3>2, Commands
  <2> QED
    BY <1>9, <2>1, <2>2, <2>3, <2>4 DEF FdResult
<1>10. ASSUME NEW bad \in BOOLEAN, FdcDone(bad) PROVE FdInv'
  <2>1. /\ fdc.phase = "exec" /\ fdc' = [fdc EXCEPT !.phase = "result", !.bad = bad]
        /\ fd_irq' = 1 /\ fdWorked' = (fdWorked \/ (fdc.cmd = "xfer" /\ ~bad))
        /\ UNCHANGED <<fd_motor_timeout, need_reset, curr_cyl, fdMotor, fdReq, fdPc, fdUnwound>>
    BY <1>10 DEF FdcDone
  <2>2. /\ fdc' \in FdControls /\ fdc'.phase = "result" /\ fdc'.bad = bad /\ fdc'.cmd = fdc.cmd
        /\ fdc'.u = fdc.u /\ fdc'.c = fdc.c
    BY <2>1, ControlFields, ZenonT(60)
  <2>3. \/ fdHead' = fdHead /\ (bad \/ fdc.cmd \notin {"seek0", "seek"})
        \/ fdHead' = [fdHead EXCEPT ![fdc.u] = 0] /\ fdc.cmd = "seek0"
        \/ fdHead' = [fdHead EXCEPT ![fdc.u] = fdc.c] /\ fdc.cmd = "seek"
    BY <1>10 DEF FdcDone
  <2>4. fdHead' \in [PHYS_UNITS -> Int]
    BY <2>3
  <2>5. fdWorked => fdWorked'
    BY <2>1
  <2>6. fdc.cmd = "xfer" /\ ~bad => fdWorked'
    BY <2>1
  <2> QED
    BY <2>1, <2>2, <2>3, <2>4, <2>5, <2>6
<1>11. ASSUME NEW op \in FdOps, NEW u \in PHYS_UNITS, NEW c \in Cyls, NEW n \in 1 .. 2,
              FdStart(op, u, c, n)
       PROVE  FdInv'
  <2>1. /\ fdReq' = [op |-> op, u |-> u, c |-> c, n |-> n, retries |-> 0, err |-> FALSE]
        /\ fdPc = "idle" /\ fdPc' = "retry"
        /\ UNCHANGED <<fd_motor_timeout, fd_irq, need_reset, curr_cyl, fdMotor, fdc, fdHead,
                       fdUnwound>>
    BY <1>11 DEF FdStart
  <2>2. c \in Int /\ c >= 0 /\ n \in Int /\ n >= 1
    BY DEF Cyls
  <2>3. /\ fdReq' \in FdRequests /\ fdReq'.u = u /\ fdReq'.n = n /\ fdReq'.op = op
        /\ fdReq'.c = c /\ fdReq'.retries = 0
    BY <2>1, <2>2 DEF FdRequests
  <2> QED
    BY <2>1, <2>2, <2>3
<1>12. CASE FdStop
  BY <1>12 DEF FdStop
<1>13. ASSUME NEW c \in Cyls, FdStray(c) PROVE FdInv'
  <2>1. /\ fdc.phase = "exec" /\ fdc.cmd \in {"seek0", "seek"} /\ fd_irq' = 1
        /\ fdc' = [fdc EXCEPT !.phase = "result", !.bad = TRUE]
        /\ fdHead' = [fdHead EXCEPT ![fdc.u] = c]
        /\ UNCHANGED <<fd_motor_timeout, need_reset, curr_cyl, fdMotor, fdReq, fdPc, fdWorked,
                       fdUnwound>>
    BY <1>13 DEF FdStray
  <2>2. /\ fdc' \in FdControls /\ fdc'.phase = "result" /\ fdc'.bad = TRUE /\ fdc'.cmd = fdc.cmd
        /\ fdc'.u = fdc.u /\ fdc'.c = fdc.c
    BY <2>1, ControlFields
  <2>3. fdHead' \in [PHYS_UNITS -> Int]
    <3>1. c \in Int
      BY DEF Cyls
    <3> QED
      BY <2>1, <3>1
  <2> QED
    BY <2>1, <2>2, <2>3
<1>14. CASE UNCHANGED fdVars
  BY <1>14 DEF fdVars
<1> QED
  BY <1>1, <1>2, <1>3, <1>4, <1>5, <1>6, <1>7, <1>8, <1>9, <1>10, <1>11, <1>12, <1>13, <1>14
     DEF FdNext, FdDriver

\* When the driver reads, writes or formats the heads are where it believes,
\* a request that reports success was carried out, and a motor that runs on has
\* its timer, whatever the controller answers, late, wrongly or not at all
\* (fd.c), for any number of drives, cylinders and tries.
THEOREM FloppyCorrect == FdSpec => []FdKnown
<1>1. FdInv => FdKnown
  BY DEF FdInv
<1> QED
  BY <1>1, FdInitInv, FdNextInv, PTL DEF FdSpec

HIDE FloppyAssumption DEF FloppyAssumption

----------------------------------------------------------------------------
(* Rings.                                                                   *)

\* Where a position of a ring of n slots is, less than two turns on.
LEMMA Wrapped ==
  ASSUME NEW n \in Nat \ {0}, NEW x \in Nat, x < 2 * n
  PROVE  x % n \in 0 .. n - 1 /\ (x < n => x % n = x) /\ (n <= x => x % n = x - n)
<1>1. x < n => x % n = x
  OBVIOUS
<1>2. n <= x => x % n = x - n
  OBVIOUS
<1>3. x % n \in 0 .. n - 1
  OBVIOUS
<1> QED
  BY <1>1, <1>2, <1>3

Places  == 0 .. BUF_SIZE - 1
Slot(x) == x % BUF_SIZE
LEMMA SlotIs ==
  /\ BUF_SIZE \in Nat \ {0}
  /\ \A x \in Nat : x < BUF_SIZE + BUF_SIZE =>
       Slot(x) \in Places /\ (x < BUF_SIZE => Slot(x) = x) /\ (BUF_SIZE <= x => Slot(x) = x - BUF_SIZE)
<1>1. BUF_SIZE \in Nat \ {0} /\ \A x \in Nat : x < BUF_SIZE + BUF_SIZE => x < 2 * BUF_SIZE
  BY TtyAssumption DEF TtyAssumption
<1> QED
  BY <1>1, Wrapped DEF Slot, Places

\* The slots behind one another.
LEMMA SlotSum ==
  ASSUME NEW h \in Nat, h < BUF_SIZE, NEW i \in Nat, i < BUF_SIZE
  PROVE  /\ Slot(h + i) \in Places /\ Slot(h + (i + 1)) \in Places
         /\ Slot(Slot(h + i) + 1) = Slot(h + (i + 1))
         /\ Slot(Slot(h + 1) + i) = Slot(h + (i + 1))
<1> DEFINE B == BUF_SIZE
<1>1. B \in Nat /\ 1 <= B
  BY SlotIs
<1>2. /\ h + i < B => Slot(h + i) = h + i
      /\ B <= h + i => Slot(h + i) = h + i - B
      /\ Slot(h + i) \in Places
  <2>1. h + i \in Nat /\ h + i < B + B
    BY <1>1
  <2> QED
    BY <2>1, SlotIs
<1>3. /\ h + (i + 1) < B => Slot(h + (i + 1)) = h + (i + 1)
      /\ B <= h + (i + 1) => Slot(h + (i + 1)) = h + (i + 1) - B
      /\ Slot(h + (i + 1)) \in Places
  <2>1. h + (i + 1) \in Nat /\ h + (i + 1) < B + B
    BY <1>1
  <2> QED
    BY <2>1, SlotIs
<1>4. /\ h + 1 < B => Slot(h + 1) = h + 1
      /\ B <= h + 1 => Slot(h + 1) = h + 1 - B
      /\ Slot(h + 1) \in Nat /\ Slot(h + 1) < B
  <2>1. h + 1 \in Nat /\ h + 1 < B + B
    BY <1>1
  <2> QED
    BY <1>1, <2>1, SlotIs DEF Places
<1>5. Slot(h + i) \in Nat /\ Slot(h + i) < B
  BY <1>1, <1>2 DEF Places
<1>6. /\ Slot(h + i) + 1 < B => Slot(Slot(h + i) + 1) = Slot(h + i) + 1
      /\ B <= Slot(h + i) + 1 => Slot(Slot(h + i) + 1) = Slot(h + i) + 1 - B
  <2>1. Slot(h + i) + 1 \in Nat /\ Slot(h + i) + 1 < B + B
    BY <1>1, <1>5
  <2> QED
    BY <2>1, SlotIs
<1>7. /\ Slot(h + 1) + i < B => Slot(Slot(h + 1) + i) = Slot(h + 1) + i
      /\ B <= Slot(h + 1) + i => Slot(Slot(h + 1) + i) = Slot(h + 1) + i - B
  <2>1. Slot(h + 1) + i \in Nat /\ Slot(h + 1) + i < B + B
    BY <1>1, <1>4
  <2> QED
    BY <2>1, SlotIs
<1> HIDE DEF B
<1>8. Slot(Slot(h + i) + 1) = Slot(h + (i + 1))
  BY <1>1, <1>2, <1>3, <1>5, <1>6 DEF B
<1>9. Slot(Slot(h + 1) + i) = Slot(h + (i + 1))
  BY <1>1, <1>2, <1>3, <1>4, <1>7 DEF B
<1> QED
  BY <1>2, <1>3, <1>8, <1>9

\* Less than a turn apart they differ.
LEMMA SlotsDiffer ==
  ASSUME NEW h \in Nat, h < BUF_SIZE, NEW i \in Nat, NEW j \in Nat, i < j, j - i < BUF_SIZE,
         j <= BUF_SIZE
  PROVE  Slot(h + i) # Slot(h + j) /\ Slot(h) = h
<1>1. BUF_SIZE \in Nat /\ h + i \in Nat /\ h + i < BUF_SIZE + BUF_SIZE
      /\ h + j \in Nat /\ h + j < BUF_SIZE + BUF_SIZE
  BY SlotIs
<1>2. /\ h + i < BUF_SIZE => Slot(h + i) = h + i
      /\ BUF_SIZE <= h + i => Slot(h + i) = h + i - BUF_SIZE
  BY <1>1, SlotIs
<1>3. /\ h + j < BUF_SIZE => Slot(h + j) = h + j
      /\ BUF_SIZE <= h + j => Slot(h + j) = h + j - BUF_SIZE
  BY <1>1, SlotIs
<1>4. Slot(h) = h
  BY <1>1, SlotIs
<1> QED
  BY <1>1, <1>2, <1>3, <1>4

LEMMA SeqIs == ASSUME NEW S, NEW s \in Seq(S) PROVE s = [i \in 1 .. Len(s) |-> s[i]]
OBVIOUS

TtyBytes == {none, "a", "b", "nl", "erase", "kill", "eof", "intr", "hup", "x"}

\* A ring of the terminal with n characters in it.
RingTypes == [buf : [Places -> TtyBytes], head : Places, tail : Places, cnt : Int]
Ring(q, n) ==
  /\ q \in RingTypes /\ n \in 0 .. BUF_SIZE /\ q.tail = Slot(q.head + n)
  /\ \A i \in 0 .. n - 1 : q.buf[Slot(q.head + i)] # none

LEMMA RingFacts ==
  ASSUME NEW q, NEW n, Ring(q, n)
  PROVE  /\ q.head \in Places /\ q.tail \in Places /\ q.cnt \in Int /\ q.buf \in [Places -> TtyBytes]
         /\ q.head \in Nat /\ q.head < BUF_SIZE /\ n \in Nat /\ n <= BUF_SIZE
         /\ q.tail = Slot(q.head + n) /\ \A i \in 0 .. n - 1 : q.buf[Slot(q.head + i)] # none
BY SlotIs DEF Ring, RingTypes, Places

LEMMA ContentIs ==
  ASSUME NEW q, NEW n, Ring(q, n)
  PROVE  /\ Content(q, n) \in Seq(TtyBytes) /\ Len(Content(q, n)) = n
         /\ Content(q, n) = [i \in 1 .. n |-> Content(q, n)[i]]
         /\ \A i \in 1 .. n : Content(q, n)[i] = q.buf[Slot(q.head + (i - 1))]
<1>1. Content(q, n) = [i \in 1 .. n |-> q.buf[Slot(q.head + i - 1)]]
  BY DEF Content, Slot
<1>2. \A i \in 1 .. n : /\ q.head + i - 1 = q.head + (i - 1)
                        /\ Slot(q.head + (i - 1)) \in Places
  BY RingFacts, SlotIs
<1>3. \A i \in 1 .. n : q.buf[Slot(q.head + i - 1)] \in TtyBytes
  BY <1>2, RingFacts
<1> QED
  BY <1>1, <1>2, <1>3, RingFacts

\* A character goes behind the others.
LEMMA PutRing ==
  ASSUME NEW q, NEW n, Ring(q, n), n < BUF_SIZE, NEW c \in TtyBytes, c # none
  PROVE  /\ Ring(Put(q, c), n + 1) /\ Put(q, c).cnt = q.cnt + 1
         /\ Content(Put(q, c), n + 1) = Append(Content(q, n), c)
<1> DEFINE r == Put(q, c)
<1>1. /\ r.head = q.head /\ r.tail = Slot(q.tail + 1) /\ r.cnt = q.cnt + 1
      /\ r.buf = [q.buf EXCEPT ![q.tail] = c]
  BY DEF Ring, RingTypes, Put, Slot
<1>2. Slot(q.tail + 1) = Slot(q.head + (n + 1)) /\ Slot(q.tail + 1) \in Places
  BY RingFacts, SlotSum
<1>3. ASSUME NEW i \in 0 .. n - 1
      PROVE  Slot(q.head + i) \in Places /\ Slot(q.head + i) # q.tail
  <2>1. i \in Nat /\ i < n /\ i < BUF_SIZE /\ n - i < BUF_SIZE /\ BUF_SIZE \in Nat
    BY RingFacts, SlotIs
  <2> QED
    BY <2>1, RingFacts, SlotSum, SlotsDiffer
<1>4. \A i \in 0 .. n - 1 : r.buf[Slot(r.head + i)] = q.buf[Slot(q.head + i)]
  BY <1>1, <1>3, RingFacts
<1>5. r.buf[Slot(r.head + n)] = c
  BY <1>1, RingFacts
<1>6. Ring(r, n + 1)
  <2>1. r \in RingTypes
    <3>1. r.buf \in [Places -> TtyBytes] /\ r.head \in Places /\ r.tail \in Places /\ r.cnt \in Int
      BY <1>1, <1>2, RingFacts
    <3> QED
      BY <3>1 DEF Put, Ring, RingTypes
  <2>2. \A i \in 0 .. n : i = n \/ i \in 0 .. n - 1
    BY RingFacts
  <2>3. \A i \in 0 .. (n + 1) - 1 : r.buf[Slot(r.head + i)] # none
    <3>1. (n + 1) - 1 = n
      BY RingFacts
    <3> QED
      BY <1>4, <1>5, <2>2, <3>1, RingFacts
  <2>4. n + 1 \in 0 .. BUF_SIZE
    BY RingFacts, SlotIs
  <2> HIDE DEF r
  <2> QED
    BY <1>1, <1>2, <2>1, <2>3, <2>4 DEF Ring
<1> HIDE DEF r
<1>7. Content(r, n + 1) = [i \in 1 .. n + 1 |-> IF i = n + 1 THEN c ELSE Content(q, n)[i]]
  <2>1. \A i \in 1 .. n + 1 : Content(r, n + 1)[i] = IF i = n + 1 THEN c ELSE Content(q, n)[i]
    <3> SUFFICES ASSUME NEW i \in 1 .. n + 1
                 PROVE  Content(r, n + 1)[i] = IF i = n + 1 THEN c ELSE Content(q, n)[i]
      OBVIOUS
    <3>1. Content(r, n + 1)[i] = r.buf[Slot(r.head + (i - 1))]
      BY <1>6, ContentIs
    <3>2. CASE i = n + 1
      BY <1>5, <3>1, <3>2, RingFacts
    <3>3. CASE i # n + 1
      <4>1. i \in 1 .. n /\ i - 1 \in 0 .. n - 1
        BY <3>3, RingFacts
      <4> QED
        BY <1>4, <3>1, <3>3, <4>1, ContentIs
    <3> QED
      BY <3>2, <3>3
  <2> QED
    BY <1>6, <2>1, ContentIs
<1>8. Append(Content(q, n), c) = [i \in 1 .. n + 1 |-> IF i = n + 1 THEN c ELSE Content(q, n)[i]]
  <2>1. Content(q, n) \in Seq(TtyBytes) /\ Len(Content(q, n)) = n
    BY ContentIs
  <2>2. /\ Append(Content(q, n), c) \in Seq(TtyBytes) /\ Len(Append(Content(q, n), c)) = n + 1
        /\ \A i \in 1 .. n : Append(Content(q, n), c)[i] = Content(q, n)[i]
        /\ Append(Content(q, n), c)[n + 1] = c
    BY <2>1, AppendProperties
  <2>3. Append(Content(q, n), c) = [i \in 1 .. n + 1 |-> Append(Content(q, n), c)[i]]
    BY <2>2, SeqIs
  <2>4. \A i \in 1 .. n + 1 : i = n + 1 \/ i \in 1 .. n
    BY RingFacts
  <2>5. \A i \in 1 .. n + 1 : Append(Content(q, n), c)[i] = IF i = n + 1 THEN c ELSE Content(q, n)[i]
    BY <2>2, <2>4
  <2> QED
    BY <2>3, <2>5
<1> QED
  BY <1>1, <1>6, <1>7, <1>8 DEF r

\* The first one is taken.
LEMMA AdvanceRing ==
  ASSUME NEW q, NEW n, Ring(q, n), n > 0
  PROVE  /\ Ring(Advance(q), n - 1) /\ Advance(q).cnt = q.cnt
         /\ Content(Advance(q), n - 1) = Tail(Content(q, n))
         /\ Content(q, n) # <<>> /\ Content(q, n) \in Seq(TtyBytes)
         /\ Head(Content(q, n)) = q.buf[q.head] /\ q.buf[q.head] # none
<1> DEFINE r == Advance(q)
<1>1. /\ r.head = Slot(q.head + 1) /\ r.tail = q.tail /\ r.cnt = q.cnt
      /\ r.buf = [q.buf EXCEPT ![q.head] = none]
  BY DEF Ring, RingTypes, Advance, Slot
<1>2. Slot(q.head + 1) \in Places /\ r.head \in Nat
  <2>1. 0 \in Nat /\ 0 < BUF_SIZE /\ 0 + 1 = 1
    BY SlotIs
  <2>2. Slot(q.head + (0 + 1)) \in Places
    BY <2>1, RingFacts, SlotSum
  <2> QED
    BY <1>1, <2>1, <2>2 DEF Places
<1>3. \A i \in 0 .. n - 1 : Slot(r.head + i) = Slot(q.head + (i + 1))
  <2>1. \A i \in 0 .. n - 1 : i \in Nat /\ i < BUF_SIZE
    BY RingFacts, SlotIs
  <2> QED
    BY <1>1, <2>1, RingFacts, SlotSum
<1>4. ASSUME NEW i \in 0 .. n - 2
      PROVE  r.buf[Slot(r.head + i)] = q.buf[Slot(q.head + (i + 1))]
  <2>0. /\ i \in Nat /\ i < BUF_SIZE /\ 0 \in Nat /\ 0 < i + 1 /\ i + 1 \in Nat
        /\ (i + 1) - 0 < BUF_SIZE /\ i + 1 <= BUF_SIZE /\ q.head + 0 = q.head
    BY RingFacts, SlotIs
  <2>1. Slot(q.head + (i + 1)) \in Places /\ Slot(q.head + (i + 1)) # q.head
    <3>1. Slot(q.head + 0) # Slot(q.head + (i + 1)) /\ Slot(q.head) = q.head
      BY <2>0, RingFacts, SlotsDiffer
    <3> QED
      BY <2>0, <3>1, RingFacts, SlotSum
  <2> QED
    BY <1>1, <1>3, <2>1, RingFacts
<1>5. Ring(r, n - 1)
  <2>1. r \in RingTypes
    <3>0. none \in TtyBytes
      BY DEF none, TtyBytes
    <3>1. r.buf \in [Places -> TtyBytes] /\ r.head \in Places /\ r.tail \in Places /\ r.cnt \in Int
      BY <1>1, <1>2, <3>0, RingFacts
    <3> QED
      BY <3>1 DEF Advance, Ring, RingTypes
  <2>2. \A i \in 0 .. (n - 1) - 1 : r.buf[Slot(r.head + i)] # none
    <3>1. (n - 1) - 1 = n - 2 /\ \A i \in 0 .. n - 2 : i + 1 \in 0 .. n - 1
      BY RingFacts
    <3> QED
      BY <1>4, <3>1, RingFacts
  <2>3. r.tail = Slot(r.head + (n - 1))
    BY <1>1, <1>3, RingFacts
  <2>4. n - 1 \in 0 .. BUF_SIZE
    BY RingFacts, SlotIs
  <2> HIDE DEF r
  <2> QED
    BY <2>1, <2>2, <2>3, <2>4 DEF Ring
<1> HIDE DEF r
<1>6. Content(q, n) \in Seq(TtyBytes) /\ Len(Content(q, n)) = n
  BY ContentIs
<1>7. Content(r, n - 1) = [i \in 1 .. n - 1 |-> Content(q, n)[i + 1]]
  <2>1. ASSUME NEW i \in 1 .. n - 1
        PROVE  Content(r, n - 1)[i] = Content(q, n)[i + 1]
    <3>1. i - 1 \in 0 .. n - 2 /\ i + 1 \in 1 .. n /\ (i + 1) - 1 = (i - 1) + 1
      BY RingFacts
    <3>2. Content(r, n - 1)[i] = r.buf[Slot(r.head + (i - 1))]
      BY <1>5, ContentIs
    <3>3. Content(q, n)[i + 1] = q.buf[Slot(q.head + ((i + 1) - 1))]
      BY <3>1, ContentIs
    <3> QED
      BY <1>4, <3>1, <3>2, <3>3
  <2> QED
    BY <1>5, <2>1, ContentIs
<1>8. Tail(Content(q, n)) = [i \in 1 .. n - 1 |-> Content(q, n)[i + 1]]
  <2>1. Content(q, n) # <<>>
    BY <1>6, RingFacts
  <2>2. /\ Tail(Content(q, n)) \in Seq(TtyBytes) /\ Len(Tail(Content(q, n))) = n - 1
        /\ \A i \in 1 .. n - 1 : Tail(Content(q, n))[i] = Content(q, n)[i + 1]
    BY <1>6, <2>1, HeadTailProperties
  <2> QED
    BY <2>2, SeqIs
<1>9. Head(Content(q, n)) = q.buf[q.head] /\ Content(q, n) # <<>>
  <2>1. 1 \in 1 .. n /\ q.head + (1 - 1) = q.head /\ Slot(q.head) = q.head
    BY RingFacts, SlotIs
  <2>2. Content(q, n)[1] = q.buf[Slot(q.head + (1 - 1))]
    BY <2>1, ContentIs
  <2> QED
    BY <1>6, <2>1, <2>2, RingFacts
<1>10. q.buf[q.head] # none
  <2>1. 0 \in 0 .. n - 1 /\ q.head + 0 = q.head /\ Slot(q.head) = q.head
    BY RingFacts, SlotIs
  <2> QED
    BY <2>1, RingFacts
<1> QED
  BY <1>1, <1>5, <1>6, <1>7, <1>8, <1>9, <1>10 DEF r

----------------------------------------------------------------------------
(* The line.                                                                *)

Lines == [0 .. MAX_CANON - 1 -> TtyBytes]
\* The line of k characters from u on is what was typed and edited.
Holds(b, u, k, e) ==
  u + k <= MAX_CANON /\ e = [i \in 1 .. k |-> b[u + i - 1]]

LEMMA HeldLine ==
  ASSUME NEW b \in Lines, NEW u \in Nat, NEW k \in Nat, NEW e, Holds(b, u, k, e)
  PROVE  /\ e \in Seq(TtyBytes) /\ Len(e) = k
         /\ \A i \in 1 .. k : e[i] = b[u + i - 1] /\ u + i - 1 \in 0 .. MAX_CANON - 1
<1>1. MAX_CANON \in Nat
  BY TtyAssumption DEF TtyAssumption
<1>2. \A i \in 1 .. k : u + i - 1 \in 0 .. MAX_CANON - 1
  BY <1>1 DEF Holds
<1>3. \A i \in 1 .. k : b[u + i - 1] \in TtyBytes
  BY <1>2 DEF Lines
<1> QED
  BY <1>2, <1>3 DEF Holds

\* n characters go to the user.
LEMMA LineCut ==
  ASSUME NEW b \in Lines, NEW u \in Nat, NEW k \in Nat, NEW e, Holds(b, u, k, e), NEW n \in 0 .. k
  PROVE  Holds(b, u + n, k - n, SubSeq(e, n + 1, Len(e)))
<1>1. /\ e \in Seq(TtyBytes) /\ Len(e) = k /\ \A i \in 1 .. k : e[i] = b[u + i - 1]
  BY HeldLine
<1> DEFINE s == SubSeq(e, n + 1, Len(e))
<1>2. /\ s \in Seq(TtyBytes) /\ Len(s) = k - n /\ \A i \in 1 .. k - n : s[i] = e[i + n]
  <2>1. \A i \in n + 1 .. k : e[i] \in TtyBytes
    BY <1>1
  <2>2. /\ s \in Seq(TtyBytes) /\ Len(s) = IF n + 1 <= k THEN k - (n + 1) + 1 ELSE 0
        /\ \A i \in 1 .. k - (n + 1) + 1 : s[i] = e[n + 1 + i - 1]
    BY <1>1, <2>1, SubSeqProperties
  <2>3. k - (n + 1) + 1 = k - n /\ \A i \in Nat : n + 1 + i - 1 = i + n
    OBVIOUS
  <2> QED
    BY <2>2, <2>3
<1> HIDE DEF s
<1>3. \A i \in 1 .. k - n : s[i] = b[(u + n) + i - 1]
  <2>1. \A i \in 1 .. k - n : i + n \in 1 .. k /\ u + (i + n) - 1 = (u + n) + i - 1
    OBVIOUS
  <2> QED
    BY <1>1, <1>2, <2>1
<1>4. s = [i \in 1 .. k - n |-> b[(u + n) + i - 1]]
  BY <1>2, <1>3, SeqIs
<1>5. MAX_CANON \in Nat
  BY TtyAssumption DEF TtyAssumption
<1> QED
  BY <1>4, <1>5 DEF Holds, s

\* The last character is erased.
LEMMA LineErase ==
  ASSUME NEW b \in Lines, NEW k \in Nat, k > 0, NEW e, Holds(b, 0, k, e)
  PROVE  Holds(b, 0, k - 1, SubSeq(e, 1, Len(e) - 1))
<1>1. /\ e \in Seq(TtyBytes) /\ Len(e) = k /\ \A i \in 1 .. k : e[i] = b[0 + i - 1]
  BY HeldLine
<1> DEFINE s == SubSeq(e, 1, Len(e) - 1)
<1>2. /\ s \in Seq(TtyBytes) /\ Len(s) = k - 1 /\ \A i \in 1 .. k - 1 : s[i] = e[i]
  <2>1. \A i \in 1 .. k - 1 : e[i] \in TtyBytes
    BY <1>1
  <2>2. /\ s \in Seq(TtyBytes) /\ Len(s) = IF 1 <= k - 1 THEN (k - 1) - 1 + 1 ELSE 0
        /\ \A i \in 1 .. (k - 1) - 1 + 1 : s[i] = e[1 + i - 1]
    BY <1>1, <2>1, SubSeqProperties
  <2>3. (k - 1) - 1 + 1 = k - 1 /\ \A i \in Nat : 1 + i - 1 = i
    OBVIOUS
  <2> QED
    BY <2>2, <2>3
<1> HIDE DEF s
<1>3. s = [i \in 1 .. k - 1 |-> b[0 + i - 1]]
  BY <1>1, <1>2, SeqIs
<1>4. MAX_CANON \in Nat
  BY TtyAssumption DEF TtyAssumption
<1> QED
  BY <1>3, <1>4 DEF Holds, s

\* A character is typed.
LEMMA LineAdd ==
  ASSUME NEW b \in Lines, NEW k \in Nat, k < MAX_CANON, NEW e, Holds(b, 0, k, e),
         NEW c \in TtyBytes
  PROVE  /\ [b EXCEPT ![k] = c] \in Lines
         /\ Holds([b EXCEPT ![k] = c], 0, k + 1, Append(e, c))
<1>0. MAX_CANON \in Nat
  BY TtyAssumption DEF TtyAssumption
<1>1. /\ e \in Seq(TtyBytes) /\ Len(e) = k
      /\ \A i \in 1 .. k : e[i] = b[0 + i - 1] /\ 0 + i - 1 \in 0 .. MAX_CANON - 1
  BY HeldLine
<1> DEFINE d == [b EXCEPT ![k] = c]
           s == Append(e, c)
<1>2. d \in Lines /\ d[k] = c /\ \A i \in 0 .. MAX_CANON - 1 : i # k => d[i] = b[i]
  BY <1>0 DEF Lines
<1>3. /\ s \in Seq(TtyBytes) /\ Len(s) = k + 1 /\ s[k + 1] = c
      /\ \A i \in 1 .. k : s[i] = e[i]
  BY <1>1, AppendProperties
<1> HIDE DEF d, s
<1>4. \A i \in 1 .. k + 1 : s[i] = d[0 + i - 1]
  <2>1. \A i \in 1 .. k + 1 : i = k + 1 \/ (i \in 1 .. k /\ 0 + i - 1 # k)
    OBVIOUS
  <2>2. 0 + (k + 1) - 1 = k
    OBVIOUS
  <2> QED
    BY <1>1, <1>2, <1>3, <2>1, <2>2
<1>5. s = [i \in 1 .. k + 1 |-> d[0 + i - 1]]
  BY <1>3, <1>4, SeqIs
<1> QED
  BY <1>0, <1>2, <1>5 DEF Holds, d, s

LEMMA NoLine ==
  ASSUME NEW b \in Lines PROVE Holds(b, 0, 0, <<>>)
<1>1. MAX_CANON \in Nat
  BY TtyAssumption DEF TtyAssumption
<1>2. [i \in 1 .. 0 |-> b[0 + i - 1]] = <<>>
  OBVIOUS
<1> QED
  BY <1>1, <1>2 DEF Holds

\* Get takes the first one and counts it.
LEMMA GetRing ==
  ASSUME NEW q, NEW n, Ring(Advance(q), n)
  PROVE  /\ Ring(Get(q), n) /\ Get(q).cnt = Advance(q).cnt - 1
         /\ Content(Get(q), n) = Content(Advance(q), n)
<1> DEFINE a == Advance(q)
<1>1. Get(q) = [a EXCEPT !.cnt = a.cnt - 1]
  BY DEF Get
<1> HIDE DEF a
<1>2. /\ Get(q) \in RingTypes /\ Get(q).head = a.head /\ Get(q).tail = a.tail
      /\ Get(q).buf = a.buf /\ Get(q).cnt = a.cnt - 1
  BY <1>1 DEF Ring, RingTypes, a
<1> QED
  BY <1>2 DEF Ring, Content, a

----------------------------------------------------------------------------
(* The invariant.                                                           *)

ReadOps   == {"read", "input", "took", "echo"}
ReadCalls == [op : ReadOps, n : Nat, nd : BOOLEAN, c : TtyBytes, k : Nat, lf : BOOLEAN]
Calls     == {Idle} \cup [op : {"write"}, n : Nat \ {0}, nd : BOOLEAN] \cup ReadCalls
BusyAt(p) == call[p].op \in {"input", "took", "echo"}

\* The characters of the receive ring that nobody has taken.
Held  == IF Took THEN inq.cnt - 1 ELSE inq.cnt
InInv == inq.cnt \in 0 .. BUF_SIZE /\ Ring(inq, Held) /\ fed = Content(inq, Held)

\* A byte in the transmitter goes before those of the ring; its interrupt is
\* pending only when it has none.
OutInv ==
  /\ outq.cnt \in 0 .. BUF_SIZE /\ Ring(outq, outq.cnt)
  /\ thr = none => pend = Content(outq, outq.cnt)
  /\ thr # none => pend = <<thr>> \o Content(outq, outq.cnt)
  /\ thri \in BOOLEAN /\ (thri => thr = none) /\ OutputMoves

\* One reader collects a line, and there is none left over while it does.
LineInv ==
  /\ buf \in Lines /\ inplen \in Nat /\ unread \in Nat \cup {NULL}
  /\ \A p, q \in Readers : BusyAt(p) /\ BusyAt(q) => p = q
  /\ \A p \in Readers : BusyAt(p) => unread = NULL
  /\ \A p \in Readers : At(p, "echo") => inplen > 0
  /\ \A p \in Readers : BusyAt(p) => Holds(buf, 0, inplen, edited)
  /\ unread # NULL => Holds(buf, unread, inplen, edited)

TtInv == call \in [Users -> Calls] /\ InInv /\ OutInv /\ LineInv

LEMMA CallKinds ==
  ASSUME NEW x \in Calls
  PROVE  /\ x.op \in {"user", "write"} \cup ReadOps
         /\ x.op \in ReadOps => x \in ReadCalls
         /\ x.op = "write" => x \in [op : {"write"}, n : Nat \ {0}, nd : BOOLEAN]
BY DEF Calls, ReadCalls, ReadOps, Idle

\* A process goes on to another place.
LEMMA CallStep ==
  ASSUME call \in [Users -> Calls], NEW p \in Users, NEW x \in Calls,
         call' = [call EXCEPT ![p] = x]
  PROVE  /\ call' \in [Users -> Calls] /\ call'[p] = x
         /\ \A q \in Users : q # p => call'[q] = call[q]
OBVIOUS

\* The rings are those before, with as many characters taken.
LEMMA InSame ==
  ASSUME InInv, UNCHANGED <<inq, fed>>, Took' <=> Took PROVE InInv'
BY DEF InInv, Held
LEMMA OutSame == ASSUME OutInv, NoOutput PROVE OutInv'
BY DEF OutInv, NoOutput, OutputMoves

\* A character is written where there is room.
LEMMA OutPut ==
  ASSUME OutInv, HasSpace(outq), Cwrite("x") PROVE OutInv'
<1> DEFINE q == Put(outq, "x")
<1>1. "x" \in TtyBytes /\ "x" # none
  BY DEF TtyBytes, none
<1>2. outq.cnt < BUF_SIZE /\ outq.cnt \in Nat
  BY SlotIs DEF OutInv, HasSpace
<1>3. /\ Ring(q, outq.cnt + 1) /\ q.cnt = outq.cnt + 1
      /\ Content(q, outq.cnt + 1) = Append(Content(outq, outq.cnt), "x")
  BY <1>1, <1>2, PutRing DEF OutInv
<1>4. pend' = Append(pend, "x")
  BY DEF Cwrite
<1>5. Content(outq, outq.cnt) \in Seq(TtyBytes)
  BY ContentIs DEF OutInv
<1>6. CASE thr = none
  <2>1. thr' = q.buf[q.head] /\ thri' = FALSE /\ outq' = Get(q)
    BY <1>6 DEF Cwrite, Kick
  <2>2. /\ Ring(Advance(q), (outq.cnt + 1) - 1) /\ Advance(q).cnt = q.cnt
        /\ Content(Advance(q), (outq.cnt + 1) - 1) = Tail(Content(q, outq.cnt + 1))
        /\ Content(q, outq.cnt + 1) # <<>> /\ Content(q, outq.cnt + 1) \in Seq(TtyBytes)
        /\ Head(Content(q, outq.cnt + 1)) = q.buf[q.head] /\ q.buf[q.head] # none
    <3>1. outq.cnt + 1 > 0
      BY <1>2
    <3> HIDE DEF q
    <3> QED
      BY <1>3, <3>1, AdvanceRing
  <2> HIDE DEF q
  <2>3. (outq.cnt + 1) - 1 = outq.cnt
    BY <1>2
  <2>4. Ring(Get(q), outq.cnt) /\ Get(q).cnt = outq.cnt /\ Content(Get(q), outq.cnt) = Content(Advance(q), outq.cnt)
    BY <1>2, <1>3, <2>2, <2>3, GetRing
  <2>5. pend' = <<thr'>> \o Content(outq', outq'.cnt)
    <3>1. Content(q, outq.cnt + 1) = <<Head(Content(q, outq.cnt + 1))>> \o Tail(Content(q, outq.cnt + 1))
      BY <2>2
    <3>2. pend' = Content(q, outq.cnt + 1)
      BY <1>3, <1>4, <1>6 DEF OutInv
    <3> QED
      BY <2>1, <2>2, <2>3, <2>4, <3>1, <3>2
  <2> QED
    BY <1>2, <2>1, <2>2, <2>4, <2>5 DEF OutInv, OutputMoves
<1>7. CASE thr # none
  <2>1. outq' = q /\ UNCHANGED <<thr, thri>>
    BY <1>7 DEF Cwrite, Kick
  <2>2. pend' = <<thr'>> \o Content(outq', outq'.cnt)
    <3>1. Append(<<thr>> \o Content(outq, outq.cnt), "x") = <<thr>> \o Append(Content(outq, outq.cnt), "x")
      BY <1>5
    <3> QED
      BY <1>3, <1>4, <1>7, <2>1, <3>1 DEF OutInv
  <2> HIDE DEF q
  <2>3. outq.cnt + 1 \in 0 .. BUF_SIZE
    BY <1>2, SlotIs
  <2> QED
    BY <1>3, <1>7, <2>1, <2>2, <2>3 DEF OutInv, OutputMoves
<1> QED
  BY <1>6, <1>7

\* What does not touch the receive ring, the line and the calls.
LEMMA OtherSame ==
  ASSUME InInv, LineInv, UNCHANGED <<inq, fed, lineVars, call>> PROVE InInv' /\ LineInv'
BY DEF InInv, LineInv, Held, Took, At, BusyAt, lineVars

LEMMA EchoOut ==
  ASSUME OutInv, NEW p, EchoNow(p) PROVE OutInv'
BY OutPut, OutSame DEF EchoNow

\* A character is put back on the line by the transmitter.
LEMMA SentInv ==
  ASSUME TtInv, Sent PROVE TtInv'
<1>1. OutInv'
  <2>1. Content(outq, outq.cnt) \in Seq(TtyBytes)
    BY ContentIs DEF TtInv, OutInv
  <2>2. Tail(<<thr>> \o Content(outq, outq.cnt)) = Content(outq, outq.cnt)
    BY <2>1
  <2> QED
    BY <2>2 DEF Sent, TtInv, OutInv, OutputMoves
<1>2. InInv' /\ LineInv'
  BY OtherSame DEF Sent, TtInv
<1> QED
  BY <1>1, <1>2 DEF Sent, TtInv

LEMMA TransmitInv ==
  ASSUME TtInv, IrqTransmit PROVE TtInv'
<1>1. CASE outq.cnt > 0
  <2>1. thri /\ thri' = FALSE /\ thr' = outq.buf[outq.head] /\ outq' = Get(outq) /\ pend' = pend
    BY <1>1 DEF IrqTransmit
  <2>2. thr = none /\ pend = Content(outq, outq.cnt) /\ Ring(outq, outq.cnt) /\ outq.cnt \in 0 .. BUF_SIZE
    BY <2>1 DEF TtInv, OutInv
  <2>3. /\ Ring(Advance(outq), outq.cnt - 1) /\ Advance(outq).cnt = outq.cnt
        /\ Content(Advance(outq), outq.cnt - 1) = Tail(Content(outq, outq.cnt))
        /\ Content(outq, outq.cnt) # <<>> /\ Content(outq, outq.cnt) \in Seq(TtyBytes)
        /\ Head(Content(outq, outq.cnt)) = outq.buf[outq.head] /\ outq.buf[outq.head] # none
    BY <1>1, <2>2, AdvanceRing
  <2>4. Ring(Get(outq), outq.cnt - 1) /\ Get(outq).cnt = outq.cnt - 1
        /\ Content(Get(outq), outq.cnt - 1) = Content(Advance(outq), outq.cnt - 1)
    BY <2>3, GetRing
  <2>5. Content(outq, outq.cnt) = <<Head(Content(outq, outq.cnt))>> \o Tail(Content(outq, outq.cnt))
    BY <2>3
  <2>6. pend' = <<thr'>> \o Content(outq', outq'.cnt)
    BY <2>1, <2>2, <2>3, <2>4, <2>5
  <2>7. outq.cnt - 1 \in 0 .. BUF_SIZE
    BY <1>1, <2>2, SlotIs
  <2> QED
    BY <2>1, <2>3, <2>4, <2>6, <2>7, OtherSame DEF IrqTransmit, OutInv, OutputMoves, TtInv
<1>2. CASE ~(outq.cnt > 0)
  <2>1. UNCHANGED <<thr, outq, pend>> /\ thri' = FALSE
    BY <1>2 DEF IrqTransmit, TtInv, OutInv
  <2> QED
    BY <1>2, <2>1, OtherSame DEF IrqTransmit, TtInv, OutInv, OutputMoves
<1> QED
  BY <1>1, <1>2

\* No other reader is in the middle of a line.
Alone(p) == \A q \in Readers : BusyAt(q) => q = p

LEMMA LineQuiet ==
  ASSUME LineInv, call \in [Users -> Calls], NEW p \in Users, NEW x \in Calls,
         call' = [call EXCEPT ![p] = x], x.op \notin {"input", "took", "echo"}, UNCHANGED lineVars
  PROVE  LineInv'
<1>1. \A q \in Users : call'[q] = IF q = p THEN x ELSE call[q]
  OBVIOUS
<1>2. \A q \in Readers : q \in Users /\ (BusyAt(q)' => BusyAt(q)) /\ (At(q, "echo")' => At(q, "echo"))
  BY <1>1 DEF Users, BusyAt, At
<1>3. UNCHANGED <<buf, inplen, unread, edited>>
  BY DEF lineVars
<1> QED
  BY <1>2, <1>3 DEF LineInv

LEMMA LineGoesOn ==
  ASSUME LineInv, call \in [Users -> Calls], NEW p \in Readers, NEW x \in Calls, Alone(p),
         call' = [call EXCEPT ![p] = x], x.op = "echo" => inplen' > 0,
         unread' = NULL, buf' \in Lines, inplen' \in Nat, Holds(buf', 0, inplen', edited')
  PROVE  LineInv'
<1>1. \A q \in Readers : q # p => call'[q] = call[q] /\ ~BusyAt(q)
  BY DEF Users, Alone
<1>2. \A q \in Readers : BusyAt(q)' => q = p
  BY <1>1 DEF BusyAt
<1>3. \A q \in Readers : At(q, "echo")' => BusyAt(q)'
  BY DEF At, BusyAt
<1>4. call'[p] = x
  BY DEF Users
<1> QED
  BY <1>2, <1>3, <1>4 DEF LineInv, At, BusyAt

LEMMA LineEnds ==
  ASSUME LineInv, call \in [Users -> Calls], NEW p \in Readers, NEW x \in Calls, Alone(p),
         call' = [call EXCEPT ![p] = x], x.op \notin {"input", "took", "echo"},
         unread' \in Nat \cup {NULL}, buf' \in Lines, inplen' \in Nat,
         unread' # NULL => Holds(buf', unread', inplen', edited')
  PROVE  LineInv'
<1>1. \A q \in Readers : q # p => call'[q] = call[q] /\ ~BusyAt(q)
  BY DEF Users, Alone
<1>2. call'[p] = x
  BY DEF Users
<1>3. \A q \in Readers : ~BusyAt(q)' /\ ~At(q, "echo")'
  BY <1>1, <1>2 DEF BusyAt, At
<1> QED
  BY <1>3 DEF LineInv

LEMMA TookStep ==
  ASSUME LineInv, call \in [Users -> Calls], NEW p \in Users, NEW x \in Calls,
         call' = [call EXCEPT ![p] = x], ~Took \/ (p \in Readers /\ At(p, "took"))
  PROVE  Took' <=> (p \in Readers /\ x.op = "took")
<1>1. \A q \in Readers : q \in Users /\ (q # p => call'[q] = call[q])
  BY DEF Users
<1>2. \A q \in Readers : q # p => ~At(q, "took")
  BY DEF LineInv, BusyAt, At, Took
<1>3. call'[p] = x
  OBVIOUS
<1> QED
  BY <1>1, <1>2, <1>3 DEF Took, At

LEMMA UserCalls == Idle \in Calls /\ Idle.op = "user"
BY DEF Calls, Idle

----------------------------------------------------------------------------
(* The steps.                                                               *)

LEMMA ReceiveInv ==
  ASSUME TtInv, NEW c \in Keys, IrqReceive(c) PROVE TtInv'
<1>1. UNCHANGED <<outq, thr, thri, lineVars, call, pend>>
  BY DEF IrqReceive
<1>2. OutInv'
  BY <1>1, OutSame DEF NoOutput, TtInv
<1>3. LineInv'
  BY <1>1 DEF TtInv, LineInv, At, BusyAt, lineVars
<1>4. InInv'
  <2>1. CASE UNCHANGED <<inq, fed>>
    BY <1>1, <2>1 DEF TtInv, InInv, Held, Took, At
  <2>2. CASE HasSpace(inq) /\ inq' = Put(inq, c) /\ fed' = Append(fed, c)
    <3>1. c \in TtyBytes /\ c # none
      BY TtyAssumption DEF TtyAssumption, TtyBytes, none
    <3>2. inq.cnt \in Nat /\ inq.cnt < BUF_SIZE /\ Held < BUF_SIZE /\ Held \in Int
      BY <2>2, SlotIs DEF HasSpace, TtInv, InInv, Held
    <3>3. /\ Ring(Put(inq, c), Held + 1) /\ Put(inq, c).cnt = inq.cnt + 1
          /\ Content(Put(inq, c), Held + 1) = Append(Content(inq, Held), c)
      BY <3>1, <3>2, PutRing DEF TtInv, InInv
    <3>4. Held' = Held + 1
      BY <1>1, <2>2, <3>2, <3>3 DEF Held, Took, At
    <3>5. inq.cnt + 1 \in 0 .. BUF_SIZE
      BY <3>2, SlotIs
    <3> QED
      BY <2>2, <3>3, <3>4, <3>5 DEF TtInv, InInv
  <2> QED
    BY <2>1, <2>2 DEF IrqReceive
<1> QED
  BY <1>1, <1>2, <1>3, <1>4 DEF TtInv

\* Modes, signals and the carrier are not part of it.
LEMMA BesidesInv ==
  ASSUME TtInv, UNCHANGED <<inq, outq, thr, thri, lineVars, call, fed, pend>> PROVE TtInv'
BY OtherSame, OutSame DEF TtInv, NoOutput

\* A call begins, or ends before it has begun a line.
LEMMA QuietInv ==
  ASSUME TtInv, ~Took, NEW p \in Users, NEW x \in Calls, call' = [call EXCEPT ![p] = x],
         x.op \notin {"input", "took", "echo"}, UNCHANGED <<inq, fed, lineVars>>, OutInv'
  PROVE  TtInv'
<1>1. LineInv'
  BY LineQuiet DEF TtInv
<1>2. Took' <=> Took
  BY TookStep DEF TtInv
<1> QED
  BY <1>1, <1>2, InSame, CallStep DEF TtInv

LEMMA SysWriteInv ==
  ASSUME TtInv, ~Took, NEW p \in Users, NEW r \in Requests, SysWrite(p, r[1], r[2])
  PROVE  TtInv'
<1> DEFINE x == [op |-> "write", n |-> r[1], nd |-> r[2]]
<1>1. x \in Calls /\ x.op = "write"
  <2>1. r[1] \in Nat \ {0} /\ r[2] \in BOOLEAN
    BY TtyAssumption DEF TtyAssumption, SysWrite
  <2> QED
    BY <2>1 DEF Calls
<1>2. call' = [call EXCEPT ![p] = x] /\ UNCHANGED <<inq, fed, lineVars>> /\ NoOutput
  BY DEF SysWrite, NoOutput
<1> HIDE DEF x
<1> QED
  BY <1>1, <1>2, OutSame, QuietInv DEF TtInv

LEMMA WriteInv ==
  ASSUME TtInv, ~Took, NEW p \in Users, Write(p) PROVE TtInv'
<1>1. UNCHANGED <<inq, fed, lineVars>>
  BY DEF Write
<1>2. CASE call' = [call EXCEPT ![p] = Idle] /\ NoOutput
  BY <1>1, <1>2, OutSame, QuietInv, UserCalls DEF TtInv
<1>3. ASSUME HasSpace(outq), Cwrite("x"),
             call' = [call EXCEPT ![p] = IF call[p].n = 1 THEN Idle
                                         ELSE [call[p] EXCEPT !.n = call[p].n - 1]]
      PROVE  TtInv'
  <2>0. OutInv'
    BY <1>3, OutPut DEF TtInv
  <2>1. CASE call[p].n = 1
    BY <1>1, <1>3, <2>0, <2>1, QuietInv, UserCalls
  <2>2. CASE call[p].n # 1
    <3> DEFINE x == [call[p] EXCEPT !.n = call[p].n - 1]
    <3>1. call[p] \in [op : {"write"}, n : Nat \ {0}, nd : BOOLEAN]
      BY CallKinds DEF TtInv, Write, At
    <3>2. x \in Calls /\ x.op = "write"
      BY <2>2, <3>1 DEF Calls
    <3>3. call' = [call EXCEPT ![p] = x]
      BY <1>3, <2>2
    <3> HIDE DEF x
    <3> QED
      BY <1>1, <2>0, <3>2, <3>3, QuietInv
  <2> QED
    BY <2>1, <2>2
<1> QED
  BY <1>2, <1>3 DEF Write

LEMMA SysReadInv ==
  ASSUME TtInv, ~Took, NEW p \in Users, NEW r \in Requests, SysRead(p, r[1], r[2])
  PROVE  TtInv'
<1> DEFINE x == [op |-> "read", n |-> r[1], nd |-> r[2], c |-> none, k |-> 0, lf |-> FALSE]
<1>1. x \in Calls /\ x.op = "read"
  <2>1. r[1] \in Nat /\ r[2] \in BOOLEAN
    BY TtyAssumption DEF TtyAssumption
  <2> QED
    BY <2>1 DEF Calls, ReadCalls, ReadOps, TtyBytes
<1>2. call' = [call EXCEPT ![p] = x] /\ UNCHANGED <<inq, fed, lineVars>> /\ NoOutput
  BY DEF SysRead, NoOutput
<1> HIDE DEF x
<1> QED
  BY <1>1, <1>2, OutSame, QuietInv DEF TtInv

LEMMA ReadGivesUpInv ==
  ASSUME TtInv, ~Took, NEW p \in Readers, ReadGivesUp(p) PROVE TtInv'
<1>1. call' = [call EXCEPT ![p] = Idle] /\ UNCHANGED <<inq, fed, lineVars>> /\ NoOutput /\ p \in Users
  BY DEF ReadGivesUp, NoOutput, Users
<1> QED
  BY <1>1, OutSame, QuietInv, UserCalls DEF TtInv

\* What Deliver makes of a line of k characters from u on.
LEMMA DeliverLine ==
  ASSUME TtInv, NEW p \in Readers, call[p] \in ReadCalls, NEW u \in Nat, NEW k \in Nat,
         Holds(buf, u, k, edited), Deliver(p, u, k)
  PROVE  /\ inplen' \in Nat /\ unread' \in Nat \cup {NULL}
         /\ unread' # NULL => Holds(buf, unread', inplen', edited')
<1> DEFINE n == IF call[p].n > k THEN k ELSE call[p].n
<1>1. n \in 0 .. k
  BY DEF ReadCalls
<1>2. /\ inplen' = k - n /\ unread' = (IF k = n THEN NULL ELSE u + n)
      /\ edited' = SubSeq(edited, n + 1, Len(edited))
  BY DEF Deliver
<1> HIDE DEF n
<1>3. buf \in Lines
  BY DEF TtInv, LineInv
<1>4. Holds(buf, u + n, k - n, SubSeq(edited, n + 1, Len(edited)))
  BY <1>1, <1>3, LineCut
<1> QED
  BY <1>1, <1>2, <1>4

LEMMA ReadRestInv ==
  ASSUME TtInv, ~Took, NEW p \in Readers, ReadRest(p) PROVE TtInv'
<1>1. /\ unread \in Nat /\ inplen \in Nat /\ Holds(buf, unread, inplen, edited) /\ buf \in Lines
      /\ Alone(p) /\ p \in Users
  BY DEF ReadRest, TtInv, LineInv, Alone, Users
<1>2. call[p] \in ReadCalls
  BY <1>1, CallKinds DEF ReadRest, TtInv, At, ReadOps
<1>3. /\ inplen' \in Nat /\ unread' \in Nat \cup {NULL}
      /\ unread' # NULL => Holds(buf, unread', inplen', edited')
  BY <1>1, <1>2, DeliverLine DEF ReadRest
<1>4. call' = [call EXCEPT ![p] = Idle] /\ buf' = buf /\ UNCHANGED <<inq, fed>> /\ NoOutput
  BY DEF ReadRest, NoOutput
<1>5. LineInv'
  BY <1>1, <1>3, <1>4, LineEnds, UserCalls DEF TtInv
<1>6. Took' <=> Took
  BY <1>1, <1>4, TookStep, UserCalls DEF TtInv
<1> QED
  BY <1>1, <1>4, <1>5, <1>6, InSame, OutSame, CallStep, UserCalls DEF TtInv

LEMMA ReadStartInv ==
  ASSUME TtInv, ~Took, Sharing = FALSE, NEW p \in Readers, ReadStart(p) PROVE TtInv'
<1> DEFINE x == [call[p] EXCEPT !.op = "input", !.lf = "echo" \in lflag]
<1>1. Alone(p) /\ p \in Users /\ buf \in Lines
  BY DEF ReadStart, Busy, Alone, Users, BusyAt, TtInv, LineInv
<1>2. call[p] \in ReadCalls
  BY <1>1, CallKinds DEF ReadStart, TtInv, At, ReadOps
<1>3. x \in Calls /\ x.op = "input"
  <2>1. \A b \in BOOLEAN : [call[p] EXCEPT !.op = "input", !.lf = b] \in ReadCalls
    BY <1>2 DEF ReadCalls, ReadOps
  <2>2. ("echo" \in lflag) \in BOOLEAN
    OBVIOUS
  <2>3. x \in ReadCalls
    BY <2>1, <2>2
  <2>4. x.op = "input"
    BY <1>2 DEF ReadCalls
  <2> QED
    BY <2>3, <2>4 DEF Calls
<1>4. call' = [call EXCEPT ![p] = x]
  BY <1>1 DEF ReadStart, TtInv
<1>5. /\ unread' = NULL /\ inplen' = 0 /\ edited' = <<>> /\ buf' = buf
      /\ UNCHANGED <<inq, fed>> /\ NoOutput
  BY DEF ReadStart, First, NoOutput
<1> HIDE DEF x
<1>6. LineInv'
  BY <1>1, <1>3, <1>4, <1>5, NoLine, LineGoesOn DEF TtInv
<1>7. Took' <=> Took
  BY <1>1, <1>3, <1>4, TookStep DEF TtInv
<1> QED
  BY <1>1, <1>3, <1>4, <1>5, <1>6, <1>7, InSame, OutSame, CallStep DEF TtInv

\* A reader in the middle of a line, and the line it has.
LEMMA Collecting ==
  ASSUME TtInv, NEW p \in Readers, BusyAt(p)
  PROVE  /\ Alone(p) /\ p \in Users /\ call[p] \in ReadCalls /\ unread = NULL
         /\ buf \in Lines /\ inplen \in Nat /\ Holds(buf, 0, inplen, edited)
<1>1. p \in Users
  BY DEF Users
<1>2. call[p] \in ReadCalls
  BY <1>1, CallKinds DEF TtInv, BusyAt, ReadOps
<1> QED
  BY <1>1, <1>2 DEF TtInv, LineInv, Alone

LEMMA TakeInv ==
  ASSUME TtInv, ~Took, NEW p \in Readers, Take(p) PROVE TtInv'
<1> DEFINE x == [call[p] EXCEPT !.op = "took", !.c = inq.buf[inq.head]]
<1>1. BusyAt(p)
  BY DEF Take, At, BusyAt
<1>2. Held = inq.cnt /\ inq.cnt > 0 /\ Ring(inq, inq.cnt) /\ fed = Content(inq, inq.cnt)
      /\ inq.cnt \in 0 .. BUF_SIZE
  BY DEF Take, TtInv, InInv, Held
<1>3. /\ Ring(Advance(inq), inq.cnt - 1) /\ Advance(inq).cnt = inq.cnt
      /\ Content(Advance(inq), inq.cnt - 1) = Tail(Content(inq, inq.cnt))
  BY <1>2, AdvanceRing
<1>4. inq.buf[inq.head] \in TtyBytes
  BY <1>2, RingFacts
<1>5. x \in Calls /\ x.op = "took" /\ call' = [call EXCEPT ![p] = x]
  BY <1>1, <1>4, Collecting DEF Calls, ReadCalls, ReadOps, Take, TtInv
<1>6. /\ UNCHANGED <<buf, inplen, unread, edited>> /\ NoOutput
      /\ inq' = Advance(inq) /\ fed' = Tail(fed)
  BY DEF Take, lineVars, NoOutput
<1> HIDE DEF x
<1>7. LineInv'
  BY <1>1, <1>5, <1>6, Collecting, LineGoesOn DEF TtInv
<1>8. Took'
  BY <1>1, <1>5, TookStep, Collecting DEF TtInv
<1>9. InInv'
  BY <1>2, <1>3, <1>6, <1>8 DEF InInv, Held
<1> QED
  BY <1>1, <1>5, <1>6, <1>7, <1>9, Collecting, OutSame, CallStep DEF TtInv

\* What remains to be shown when a reader that was busy has gone on to x.
LEMMA ReaderStep ==
  ASSUME TtInv, NEW p \in Readers, BusyAt(p), ~Took \/ At(p, "took"),
         NEW x \in Calls, call' = [call EXCEPT ![p] = x], x.op # "took",
         inq' = IF Took THEN [inq EXCEPT !.cnt = inq.cnt - 1] ELSE inq, fed' = fed,
         LineInv', OutInv'
  PROVE  TtInv'
<1>1. ~Took'
  BY Collecting, TookStep DEF TtInv
<1>2. InInv'
  <2>1. CASE Took
    <3>1. /\ inq' \in RingTypes /\ inq'.head = inq.head /\ inq'.tail = inq.tail
          /\ inq'.buf = inq.buf /\ inq'.cnt = inq.cnt - 1 /\ Held = inq.cnt - 1 /\ inq.cnt \in Int
      BY <2>1 DEF Ring, RingTypes, TtInv, InInv, Held
    <3>2. Held' = Held /\ Held \in 0 .. BUF_SIZE
      BY <1>1, <2>1, <3>1 DEF Held, TtInv, InInv, Ring
    <3>3. Ring(inq', Held) /\ Content(inq', Held) = Content(inq, Held)
      BY <3>1 DEF TtInv, InInv, Ring, Content
    <3> QED
      BY <3>1, <3>2, <3>3 DEF TtInv, InInv, Held
  <2>2. CASE ~Took
    BY <1>1, <2>2, InSame DEF TtInv
  <2> QED
    BY <2>1, <2>2
<1> QED
  BY <1>2, Collecting, CallStep DEF TtInv

LEMMA Backward ==
  ASSUME TtInv, NEW p \in Readers, BusyAt(p)
  PROVE  LET x == [call[p] EXCEPT !.op = "input", !.c = none]
             y == [call[p] EXCEPT !.op = "input", !.c = none, !.k = 0]
         IN /\ x \in Calls /\ x.op = "input" /\ y \in Calls /\ y.op = "input"
            /\ [call EXCEPT ![p].op = "input", ![p].c = none] = [call EXCEPT ![p] = x]
            /\ [call EXCEPT ![p].op = "input", ![p].c = none, ![p].k = 0] = [call EXCEPT ![p] = y]
<1>1. call[p] \in ReadCalls /\ p \in Users /\ call \in [Users -> Calls]
  BY Collecting DEF TtInv
<1>2. none \in TtyBytes /\ "input" \in ReadOps
  BY DEF TtyBytes, ReadOps
<1> QED
  BY <1>1, <1>2 DEF Calls, ReadCalls

\* One turn of the loop for a line.
LEMMA EditInv ==
  ASSUME TtInv, NEW p \in Readers, At(p, "took"), NEW c \in TtyBytes, c = call[p].c, Edit(p, c),
         inq' = IF Took THEN [inq EXCEPT !.cnt = inq.cnt - 1] ELSE inq, fed' = fed
  PROVE  TtInv'
<1>0. BusyAt(p)
  BY DEF At, BusyAt
<1>1. /\ Alone(p) /\ p \in Users /\ call[p] \in ReadCalls /\ unread = NULL
      /\ buf \in Lines /\ inplen \in Nat /\ Holds(buf, 0, inplen, edited)
  BY <1>0, Collecting
<1> DEFINE x == [call[p] EXCEPT !.op = "input", !.c = none]
<1>2. /\ x \in Calls /\ x.op = "input" /\ Idle \in Calls /\ Idle.op = "user"
      /\ Back(p) => call' = [call EXCEPT ![p] = x]
      /\ Return(p) => call' = [call EXCEPT ![p] = Idle]
  BY <1>0, Backward, UserCalls DEF Back, Return
<1> HIDE DEF x
<1>3. NoOutput \/ EchoNow(p) => OutInv'
  BY OutSame, EchoOut DEF TtInv
<1>4. CASE /\ call' = [call EXCEPT ![p].op = "echo", ![p].k = IF c = "erase" THEN 1 ELSE inplen]
           /\ inplen > 0 /\ NoOutput /\ UNCHANGED lineVars
  <2> DEFINE k == IF c = "erase" THEN 1 ELSE inplen
             y == [call[p] EXCEPT !.op = "echo", !.k = k]
  <2>1. k \in Nat /\ "echo" \in ReadOps
    BY <1>1 DEF ReadOps
  <2> HIDE DEF k
  <2>2. y \in Calls /\ y.op = "echo"
    BY <1>1, <2>1 DEF Calls, ReadCalls
  <2>3. call' = [call EXCEPT ![p] = y]
    BY <1>1, <1>4 DEF TtInv, k
  <2> HIDE DEF y
  <2>4. LineInv'
    BY <1>1, <1>4, <2>2, <2>3, LineGoesOn DEF lineVars, TtInv
  <2> QED
    BY <1>0, <1>3, <1>4, <2>2, <2>3, <2>4, ReaderStep
<1>5. CASE /\ c \in {"erase", "kill"}
           /\ inplen' = IF c = "kill" \/ inplen = 0 THEN 0 ELSE inplen - 1
           /\ edited' = IF c = "kill" THEN <<>> ELSE SubSeq(edited, 1, Len(edited) - 1)
           /\ Back(p) /\ NoOutput /\ UNCHANGED <<buf, unread>>
  <2>1. inplen' \in Nat /\ Holds(buf', 0, inplen', edited')
    <3>1. CASE c = "kill"
      BY <1>1, <1>5, <3>1, NoLine
    <3>2. CASE c # "kill" /\ inplen > 0
      BY <1>1, <1>5, <3>2, LineErase
    <3>3. CASE c # "kill" /\ inplen = 0
      <4>1. edited \in Seq(TtyBytes) /\ Len(edited) = 0
        BY <1>1, <3>3, HeldLine
      <4>2. SubSeq(edited, 1, 0 - 1) = <<>>
        BY SubSeqEmpty
      <4> QED
        BY <1>1, <1>5, <3>3, <4>1, <4>2, NoLine
    <3> QED
      BY <1>1, <3>1, <3>2, <3>3
  <2>2. LineInv'
    BY <1>1, <1>2, <1>5, <2>1, LineGoesOn DEF TtInv
  <2> QED
    BY <1>0, <1>2, <1>3, <1>5, <2>2, ReaderStep
<1>6. CASE Deliver(p, 0, inplen) /\ Return(p) /\ NoOutput /\ UNCHANGED buf
  <2>1. /\ inplen' \in Nat /\ unread' \in Nat \cup {NULL}
        /\ unread' # NULL => Holds(buf, unread', inplen', edited')
    BY <1>1, <1>6, DeliverLine
  <2>2. LineInv'
    BY <1>1, <1>2, <1>6, <2>1, LineEnds DEF TtInv
  <2> QED
    BY <1>0, <1>2, <1>3, <1>6, <2>2, ReaderStep
<1>7. CASE Back(p) /\ NoOutput /\ UNCHANGED lineVars
  <2>1. LineInv'
    BY <1>1, <1>2, <1>7, LineGoesOn DEF TtInv, lineVars
  <2> QED
    BY <1>0, <1>2, <1>3, <1>7, <2>1, ReaderStep
<1>8. ASSUME inplen < MAX_CANON, EchoNow(p), buf' = [buf EXCEPT ![inplen] = c]
      PROVE  /\ OutInv' /\ buf' \in Lines /\ inplen + 1 \in Nat
             /\ Holds(buf', 0, inplen + 1, Append(edited, c))
  <2>1. [buf EXCEPT ![inplen] = c] \in Lines
        /\ Holds([buf EXCEPT ![inplen] = c], 0, inplen + 1, Append(edited, c))
    BY <1>1, <1>8, LineAdd
  <2>2. OutInv'
    BY <1>3, <1>8
  <2> QED
    BY <1>1, <1>8, <2>1, <2>2
<1>9. ASSUME inplen < MAX_CANON, EchoNow(p), buf' = [buf EXCEPT ![inplen] = c], c = "nl",
             LET n == IF call[p].n > inplen + 1 THEN inplen + 1 ELSE call[p].n
             IN /\ inplen' = inplen + 1 - n
                /\ unread' = IF inplen + 1 = n THEN NULL ELSE n
                /\ edited' = SubSeq(Append(edited, c), n + 1, Len(edited) + 1)
                /\ Return(p)
      PROVE  TtInv'
  <2> DEFINE n == IF call[p].n > inplen + 1 THEN inplen + 1 ELSE call[p].n
  <2>1. n \in 0 .. inplen + 1
    BY <1>1 DEF ReadCalls
  <2>2. /\ inplen' = inplen + 1 - n /\ unread' = (IF inplen + 1 = n THEN NULL ELSE n)
        /\ edited' = SubSeq(Append(edited, c), n + 1, Len(edited) + 1) /\ Return(p)
    BY <1>9
  <2> HIDE DEF n
  <2>3. Holds(buf', 0 + n, (inplen + 1) - n, SubSeq(Append(edited, c), n + 1, Len(Append(edited, c))))
    <3>1. 0 \in Nat
      OBVIOUS
    <3> QED
      BY <1>8, <1>9, <2>1, <3>1, LineCut
  <2>4. Len(Append(edited, c)) = Len(edited) + 1
    <3>1. edited \in Seq(TtyBytes)
      BY <1>1, HeldLine
    <3> QED
      BY <3>1, AppendProperties
  <2>5. inplen' \in Nat /\ unread' \in Nat \cup {NULL} /\ 0 + n = n
        /\ (unread' # NULL => unread' = n)
    BY <1>1, <2>1, <2>2
  <2>6. unread' # NULL => Holds(buf', unread', inplen', edited')
    <3>1. edited' = SubSeq(Append(edited, c), n + 1, Len(Append(edited, c)))
      BY <2>2, <2>4
    <3>2. Holds(buf', n, (inplen + 1) - n, edited') /\ inplen' = (inplen + 1) - n
      <4>1. inplen' = (inplen + 1) - n /\ 0 + n = n
        BY <1>1, <2>1, <2>2
      <4>2. Holds(buf', 0 + n, (inplen + 1) - n, edited')
        BY <2>3, <3>1
      <4> QED
        BY <4>1, <4>2
    <3> QED
      BY <2>5, <3>2
  <2>7. LineInv'
    BY <1>1, <1>2, <1>8, <1>9, <2>2, <2>5, <2>6, LineEnds DEF TtInv
  <2> QED
    BY <1>0, <1>2, <1>8, <1>9, <2>2, <2>7, ReaderStep
<1>10. ASSUME inplen < MAX_CANON, EchoNow(p), buf' = [buf EXCEPT ![inplen] = c],
              inplen' = inplen + 1, edited' = Append(edited, c), Back(p), UNCHANGED unread
       PROVE  TtInv'
  <2>1. LineInv'
    BY <1>1, <1>2, <1>8, <1>10, LineGoesOn DEF TtInv
  <2> QED
    BY <1>0, <1>2, <1>8, <1>10, <2>1, ReaderStep
<1>11. Shown(p, c) => inplen > 0
  BY DEF Shown
<1> QED
  <2>1. CASE c \in {"erase", "kill"} /\ Shown(p, c)
    BY <1>4, <1>11, <2>1 DEF Edit
  <2>2. CASE c \in {"erase", "kill"} /\ ~Shown(p, c)
    BY <1>5, <2>2 DEF Edit
  <2>3. CASE c = "eof"
    BY <1>6, <2>3 DEF Edit
  <2>4. CASE c \notin {"erase", "kill", "eof"} /\ inplen >= MAX_CANON
    <3>1. ~(inplen < MAX_CANON)
      BY <1>1, <2>4, TtyAssumption DEF TtyAssumption
    <3> QED
      BY <1>7, <2>4, <3>1 DEF Edit
  <2>5. CASE c \notin {"erase", "kill", "eof"} /\ ~(inplen >= MAX_CANON)
    <3>1. inplen < MAX_CANON
      BY <1>1, <2>5, TtyAssumption DEF TtyAssumption
    <3> QED
      BY <1>9, <1>10, <2>5, <3>1 DEF Edit
  <2> QED
    BY <2>1, <2>2, <2>3, <2>4, <2>5

LEMMA RawInv ==
  ASSUME TtInv, NEW p \in Readers, At(p, "took"), NEW c \in TtyBytes, Raw(p, c),
         inq' = IF Took THEN [inq EXCEPT !.cnt = inq.cnt - 1] ELSE inq, fed' = fed
  PROVE  TtInv'
<1>0. BusyAt(p)
  BY DEF At, BusyAt
<1>1. Alone(p) /\ p \in Users /\ buf \in Lines
  BY <1>0, Collecting
<1>2. buf' \in Lines /\ Holds(buf', 0, 1, <<c>>)
  <2>1. 0 \in Nat /\ 0 < MAX_CANON
    BY TtyAssumption DEF TtyAssumption
  <2>2. [buf EXCEPT ![0] = c] \in Lines /\ Holds([buf EXCEPT ![0] = c], 0, 0 + 1, Append(<<>>, c))
    BY <1>1, <2>1, NoLine, LineAdd
  <2> QED
    BY <2>2 DEF Raw
<1>3. /\ inplen' \in Nat /\ unread' \in Nat \cup {NULL}
      /\ unread' # NULL => Holds(buf', unread', inplen', edited')
  BY <1>2 DEF Raw
<1>4. call' = [call EXCEPT ![p] = Idle] /\ OutInv'
  BY EchoOut DEF Raw, Return, TtInv
<1>5. LineInv'
  BY <1>1, <1>2, <1>3, <1>4, LineEnds, UserCalls DEF TtInv
<1> QED
  BY <1>0, <1>4, <1>5, ReaderStep, UserCalls

LEMMA TurnInv ==
  ASSUME TtInv, NEW p \in Readers, Turn(p) PROVE TtInv'
<1>1. At(p, "took") /\ Took /\ fed' = fed
  BY DEF Turn, Took
<1>2. inq' = IF Took THEN [inq EXCEPT !.cnt = inq.cnt - 1] ELSE inq
  BY <1>1 DEF Turn
<1>3. call[p].c \in TtyBytes
  BY <1>1, Collecting DEF At, BusyAt, ReadCalls
<1> QED
  BY <1>1, <1>2, <1>3, EditInv, RawInv DEF Turn

LEMMA EchoInv ==
  ASSUME TtInv, ~Took, NEW p \in Readers, Echo(p) PROVE TtInv'
<1>0. BusyAt(p) /\ inplen > 0
  BY DEF Echo, At, BusyAt, TtInv, LineInv
<1>1. /\ Alone(p) /\ p \in Users /\ call[p] \in ReadCalls /\ unread = NULL
      /\ buf \in Lines /\ inplen \in Nat /\ Holds(buf, 0, inplen, edited)
  BY <1>0, Collecting
<1>2. inq' = (IF Took THEN [inq EXCEPT !.cnt = inq.cnt - 1] ELSE inq) /\ fed' = fed
  BY DEF Echo
<1>3. CASE /\ HasSpace(outq) /\ call[p].k > 0 /\ Cwrite("x")
           /\ call' = [call EXCEPT ![p].k = call[p].k - 1] /\ UNCHANGED lineVars
  <2> DEFINE y == [call[p] EXCEPT !.k = call[p].k - 1]
  <2>1. y \in Calls /\ y.op = "echo"
    BY <1>1, <1>3 DEF Calls, ReadCalls, Echo, At
  <2>2. call' = [call EXCEPT ![p] = y]
    BY <1>1, <1>3 DEF TtInv
  <2> HIDE DEF y
  <2>3. LineInv'
    BY <1>0, <1>1, <1>3, <2>1, <2>2, LineGoesOn DEF lineVars, TtInv
  <2>4. OutInv'
    BY <1>3, OutPut DEF TtInv
  <2> QED
    BY <1>0, <1>2, <2>1, <2>2, <2>3, <2>4, ReaderStep
<1>4. CASE /\ inplen' = IF call[p].c = "kill" THEN 0 ELSE inplen - 1
           /\ edited' = IF call[p].c = "kill" THEN <<>> ELSE SubSeq(edited, 1, Len(edited) - 1)
           /\ call' = [call EXCEPT ![p].op = "input", ![p].c = none, ![p].k = 0]
           /\ NoOutput /\ UNCHANGED <<buf, unread>>
  <2> DEFINE y == [call[p] EXCEPT !.op = "input", !.c = none, !.k = 0]
  <2>1. y \in Calls /\ y.op = "input" /\ call' = [call EXCEPT ![p] = y]
    BY <1>0, <1>4, Backward
  <2> HIDE DEF y
  <2>2. inplen' \in Nat /\ Holds(buf', 0, inplen', edited')
    <3>1. CASE call[p].c = "kill"
      BY <1>1, <1>4, <3>1, NoLine
    <3>2. CASE call[p].c # "kill"
      BY <1>0, <1>1, <1>4, <3>2, LineErase
    <3> QED
      BY <3>1, <3>2
  <2>3. LineInv'
    BY <1>1, <1>4, <2>1, <2>2, LineGoesOn DEF TtInv
  <2>4. OutInv'
    BY <1>4, OutSame DEF TtInv
  <2> QED
    BY <1>0, <1>2, <2>1, <2>3, <2>4, ReaderStep
<1> QED
  BY <1>3, <1>4 DEF Echo

LEMMA TtInitInv == TtyInit => TtInv
<1> SUFFICES ASSUME TtyInit PROVE TtInv
  OBVIOUS
<1>1. call \in [Users -> Calls] /\ \A p \in Users : call[p].op = "user"
  BY UserCalls DEF TtyInit
<1>2. \A p \in Readers : ~BusyAt(p) /\ ~At(p, "echo") /\ ~At(p, "took")
  BY <1>1 DEF BusyAt, At, Users
<1>3. ~Took
  BY <1>2 DEF Took
<1>4. NoBytes \in RingTypes /\ NoBytes.head = 0 /\ NoBytes.tail = 0 /\ NoBytes.cnt = 0
  <2>1. 0 \in Places /\ none \in TtyBytes
    BY SlotIs DEF Places, TtyBytes
  <2> QED
    BY <2>1 DEF NoBytes, RingTypes, Places
<1>5. Ring(NoBytes, 0) /\ Content(NoBytes, 0) = <<>>
  <2>1. Slot(0) = 0 /\ 0 \in 0 .. BUF_SIZE
    BY SlotIs
  <2>2. Ring(NoBytes, 0)
    BY <1>4, <2>1 DEF Ring
  <2>3. Content(NoBytes, 0) \in Seq(TtyBytes) /\ Len(Content(NoBytes, 0)) = 0
    BY <2>2, ContentIs
  <2> QED
    BY <2>2, <2>3
<1>6. InInv
  BY <1>3, <1>4, <1>5, SlotIs DEF InInv, Held, TtyInit
<1>7. OutInv
  <2>1. /\ outq = NoBytes /\ outq.cnt = 0 /\ thr = none /\ thri = FALSE /\ pend = <<>>
        /\ Content(outq, 0) = <<>> /\ Ring(outq, 0) /\ 0 \in 0 .. BUF_SIZE
    BY <1>4, <1>5, SlotIs DEF TtyInit
  <2>2. OutputMoves
    BY <2>1 DEF OutputMoves
  <2>3. Ring(outq, outq.cnt) /\ outq.cnt \in 0 .. BUF_SIZE /\ Content(outq, outq.cnt) = <<>>
    BY <2>1
  <2> QED
    BY <2>1, <2>2, <2>3, Zenon DEF OutInv
<1>8. LineInv
  <2>1. none \in TtyBytes
    BY DEF TtyBytes
  <2>2. buf \in Lines
    BY <2>1 DEF TtyInit, Lines
  <2> QED
    BY <1>2, <2>2 DEF LineInv, TtyInit
<1> QED
  BY <1>1, <1>6, <1>7, <1>8 DEF TtInv

LEMMA TtNextInv == TtInv /\ Sharing = FALSE /\ [TtyNext]_ttyVars => TtInv'
<1> SUFFICES ASSUME TtInv, Sharing = FALSE, [TtyNext]_ttyVars PROVE TtInv'
  OBVIOUS
<1>1. CASE UNCHANGED ttyVars
  BY <1>1, BesidesInv DEF ttyVars, lineVars
<1>2. ASSUME NEW c \in Keys, IrqReceive(c) PROVE TtInv'
  BY <1>2, ReceiveInv
<1>3. CASE Sent \/ IrqTransmit
  BY <1>3, SentInv, TransmitInv
<1>4. CASE IrqModem
  BY <1>4, BesidesInv DEF IrqModem
<1>5. ASSUME NEW p \in Readers, Turn(p) PROVE TtInv'
  BY <1>5, TurnInv
<1>6. ASSUME ~Took, NEW p \in Writers, Write(p) \/ \E r \in Requests : SysWrite(p, r[1], r[2])
      PROVE  TtInv'
  BY <1>6, WriteInv, SysWriteInv DEF Users
<1>7. ASSUME ~Took, NEW p \in Readers, Reading(p) \/ \E r \in Requests : SysRead(p, r[1], r[2])
      PROVE  TtInv'
  <2>1. CASE Reading(p)
    BY <1>7, <2>1, ReadRestInv, ReadStartInv, ReadGivesUpInv, TakeInv, EchoInv DEF Reading
  <2>2. CASE \E r \in Requests : SysRead(p, r[1], r[2])
    BY <1>7, <2>2, SysReadInv DEF Users
  <2> QED
    BY <1>7, <2>1, <2>2
<1>8. ASSUME NEW p \in Users, Signalled(p) \/ \E m \in Modes : Ioctl(p, m) PROVE TtInv'
  <2>1. UNCHANGED <<inq, outq, thr, thri, lineVars, call, fed, pend>>
    BY <1>8 DEF Signalled, Ioctl
  <2> QED
    BY <2>1, BesidesInv
<1> QED
  BY <1>1, <1>2, <1>3, <1>4, <1>5, <1>6, <1>7, <1>8 DEF TtyNext

LEMMA TtImplies == TtInv => TtyExact
<1> SUFFICES ASSUME TtInv PROVE TtyExact
  OBVIOUS
<1>1. RingsExact
  <2>1. /\ inq.cnt \in 0 .. BUF_SIZE /\ outq.cnt \in 0 .. BUF_SIZE
        /\ fed = Content(inq, IF Took THEN inq.cnt - 1 ELSE inq.cnt)
    BY DEF TtInv, InInv, OutInv, Held
  <2>2. Content(outq, outq.cnt) \in Seq(TtyBytes)
    BY ContentIs DEF TtInv, OutInv
  <2>3. thr = none => pend = <<>> \o Content(outq, outq.cnt)
    BY <2>2 DEF TtInv, OutInv
  <2>4. pend = (IF thr = none THEN <<>> ELSE <<thr>>) \o Content(outq, outq.cnt)
    BY <2>3 DEF TtInv, OutInv
  <2> QED
    BY <2>1, <2>4 DEF RingsExact
<1>2. LineWhole
  BY DEF LineWhole, TtInv, LineInv, Holds, Busy, BusyAt
<1>3. OutputMoves
  BY DEF TtInv, OutInv
<1> QED
  BY <1>1, <1>2, <1>3 DEF TtyExact

\* Of TtyExact: as long as a second reader waits until the line is finished, the
\* rings lose, repeat and reorder nothing between the interrupt handler and the
\* processes, a reader gets what was typed for it, edited, and a writer never
\* waits for a transmitter that stands still; for any size of the rings and of
\* the line and any number of processes.
THEOREM TtyCorrect == Sharing = FALSE => (TtySpec => []TtyExact)
<1> SUFFICES ASSUME Sharing = FALSE PROVE TtySpec => []TtyExact
  OBVIOUS
<1>1. TtInv /\ [TtyNext]_ttyVars => TtInv'
  BY TtNextInv
<1> QED
  BY TtInitInv, <1>1, TtImplies, PTL DEF TtySpec

----------------------------------------------------------------------------
(* Keyboard.                                                                *)

KeyVals == KeyCodes \X BOOLEAN
\* The slot j behind slot o.
KeyAt(o, j) == IF o + j < PCKBD_BUFSIZE THEN o + j ELSE o + j - PCKBD_BUFSIZE

\* What waits lies in the slots from pckbd_outp on, and there is room for one more.
KbInv ==
  /\ pckbd_inp \in 0 .. PCKBD_BUFSIZE - 1 /\ pckbd_outp \in 0 .. PCKBD_BUFSIZE - 1
  /\ pckbd_buf = [i \in 0 .. PCKBD_BUFSIZE - 1 |-> pckbd_buf[i]]
  /\ kbTyped \in Seq(KeyVals) /\ Len(kbTyped) < PCKBD_BUFSIZE
  /\ pckbd_inp = KeyAt(pckbd_outp, Len(kbTyped))
  /\ \A i \in 1 .. Len(kbTyped) : kbTyped[i] = pckbd_buf[KeyAt(pckbd_outp, i - 1)]
  /\ GetchFinds /\ NoStuckShift

LEMMA KeySlotIs ==
  /\ PCKBD_BUFSIZE \in Nat \ {0, 1}
  /\ \A i \in 0 .. PCKBD_BUFSIZE - 1 : KeySlot(i) = KeyAt(i, 1) /\ KeySlot(i) \in 0 .. PCKBD_BUFSIZE - 1
<1>1. PCKBD_BUFSIZE \in Nat \ {0, 1}
  BY KeyboardAssumption DEF KeyboardAssumption
<1>2. ASSUME NEW i \in 0 .. PCKBD_BUFSIZE - 1
      PROVE  KeySlot(i) = KeyAt(i, 1) /\ KeySlot(i) \in 0 .. PCKBD_BUFSIZE - 1
  <2> DEFINE n == PCKBD_BUFSIZE
             x == i + 1
  <2>1. n \in Nat \ {0} /\ x \in Nat /\ x < 2 * n
    BY <1>1
  <2>2. x % n \in 0 .. n - 1 /\ (x < n => x % n = x) /\ (n <= x => x % n = x - n)
    BY <2>1, Wrapped
  <2>3. KeySlot(i) = x % n
    BY DEF KeySlot
  <2>4. KeyAt(i, 1) = IF x < n THEN x ELSE x - n
    BY <1>1 DEF KeyAt
  <2> QED
    BY <2>1, <2>2, <2>3, <2>4
<1> QED
  BY <1>1, <1>2

LEMMA KbInitInv == KbInit => KbInv
<1> SUFFICES ASSUME KbInit PROVE KbInv
  OBVIOUS
<1>1. PCKBD_BUFSIZE \in Nat \ {0, 1}
  BY KeySlotIs
<1>2. kbTyped \in Seq(KeyVals) /\ Len(kbTyped) = 0 /\ kbTyped = <<>>
  BY EmptySeq DEF KbInit
<1>3. pckbd_inp = 0 /\ pckbd_outp = 0 /\ KeyAt(0, 0) = 0
  BY <1>1 DEF KbInit, KeyAt
<1>4. pckbd_buf = [i \in 0 .. PCKBD_BUFSIZE - 1 |-> pckbd_buf[i]]
  BY DEF KbInit
<1>5. GetchFinds /\ NoStuckShift
  BY DEF KbInit, GetchFinds, NoStuckShift
<1> QED
  BY <1>1, <1>2, <1>3, <1>4, <1>5 DEF KbInv

\* A character is put behind those that wait, or is one too many.
LEMMA PutKeeps ==
  ASSUME KbInv, NEW c \in KeyVals, PckbdPut(c), pckbd_outp' = pckbd_outp, kbReader' = kbReader, NoStuckShift'
  PROVE  KbInv'
<1> DEFINE B == PCKBD_BUFSIZE
           L == Len(kbTyped)
           o == pckbd_outp
           p == pckbd_inp
<1>1. B \in Nat \ {0, 1} /\ p \in 0 .. B - 1 /\ o \in 0 .. B - 1 /\ L \in Nat /\ L < B /\ kbTyped \in Seq(KeyVals)
  BY KeySlotIs, LenProperties DEF KbInv
<1>2. p = KeyAt(o, L) /\ p' = KeyAt(p, 1) /\ p' \in 0 .. B - 1 /\ o' = o
  BY <1>1, KeySlotIs DEF KbInv, PckbdPut
<1>3. pckbd_buf' = [pckbd_buf EXCEPT ![p] = c] /\ pckbd_buf = [i \in 0 .. B - 1 |-> pckbd_buf[i]]
  BY DEF KbInv, PckbdPut
<1>4. pckbd_buf' = [i \in 0 .. B - 1 |-> pckbd_buf'[i]] /\ pckbd_buf'[p] = c
      /\ \A i \in 0 .. B - 1 : i # p => pckbd_buf'[i] = pckbd_buf[i]
  <2> HIDE DEF B, p
  <2> QED
    BY <1>1, <1>3
<1>5. \A i \in 1 .. L : kbTyped[i] = pckbd_buf[KeyAt(o, i - 1)]
  BY DEF KbInv
<1>6. kbTyped' = (IF p' = o THEN <<>> ELSE Append(kbTyped, c)) /\ (kbLost' <=> kbLost \/ p' = o)
  BY DEF PckbdPut
<1>7. GetchFinds'
  <2>1. GetchFinds
    BY DEF KbInv
  <2> QED
    BY <1>2, <1>6, <2>1 DEF GetchFinds, con_kbhit
<1> HIDE DEF B, o, p
<1>8. CASE p' = o
  <2>1. kbTyped' = <<>> /\ kbTyped' \in Seq(KeyVals) /\ Len(kbTyped') = 0
    BY <1>6, <1>8, EmptySeq
  <2>2. p' = KeyAt(o', 0)
    BY <1>1, <1>2, <1>8 DEF KeyAt, B
  <2> QED
    BY <1>1, <1>2, <1>4, <1>7, <2>1, <2>2 DEF KbInv, B, o, p
<1>9. CASE p' # o
  <2>1. /\ kbTyped' \in Seq(KeyVals) /\ Len(kbTyped') = L + 1 /\ kbTyped'[L + 1] = c
        /\ \A i \in 1 .. L : kbTyped'[i] = kbTyped[i]
    BY <1>1, <1>6, <1>9, AppendProperties
  <2> HIDE DEF L
  <2>2. L + 1 < B /\ p' = KeyAt(o, L + 1)
    BY <1>1, <1>2, <1>9 DEF KeyAt, B
  <2>3. \A i \in 1 .. L : KeyAt(o, i - 1) \in 0 .. B - 1 /\ KeyAt(o, i - 1) # p
    BY <1>1, <1>2 DEF KeyAt, B
  <2>4. \A i \in 1 .. L + 1 : kbTyped'[i] = pckbd_buf'[KeyAt(o, i - 1)]
    <3> SUFFICES ASSUME NEW i \in 1 .. L + 1 PROVE kbTyped'[i] = pckbd_buf'[KeyAt(o, i - 1)]
      OBVIOUS
    <3>1. CASE i = L + 1
      <4>1. i - 1 = L
        BY <1>1, <3>1
      <4> QED
        BY <1>2, <1>4, <2>1, <3>1, <4>1
    <3>2. CASE i # L + 1
      <4>1. i \in 1 .. L
        BY <1>1, <3>2
      <4> QED
        BY <1>4, <1>5, <2>1, <2>3, <4>1
    <3> QED
      BY <3>1, <3>2
  <2> QED
    BY <1>1, <1>2, <1>4, <1>7, <2>1, <2>2, <2>4 DEF KbInv, B, o, p
<1> QED
  BY <1>8, <1>9

\* The reader takes the first.
LEMMA GetchKeeps == ASSUME KbInv, KbGetch PROVE KbInv'
<1> DEFINE B == PCKBD_BUFSIZE
           L == Len(kbTyped)
           o == pckbd_outp
           p == pckbd_inp
<1>1. B \in Nat \ {0, 1} /\ p \in 0 .. B - 1 /\ o \in 0 .. B - 1 /\ L \in Nat /\ L < B /\ kbTyped \in Seq(KeyVals)
  BY KeySlotIs, LenProperties DEF KbInv
<1>2. p = KeyAt(o, L) /\ p' = p /\ o' = KeyAt(o, 1) /\ o' \in 0 .. B - 1 /\ p # o
  BY <1>1, KeySlotIs DEF KbInv, KbGetch, con_kbhit
<1>3. pckbd_buf' = [pckbd_buf EXCEPT ![o] = <<>>] /\ pckbd_buf = [i \in 0 .. B - 1 |-> pckbd_buf[i]]
  BY DEF KbInv, KbGetch
<1>4. pckbd_buf' = [i \in 0 .. B - 1 |-> pckbd_buf'[i]]
      /\ \A i \in 0 .. B - 1 : i # o => pckbd_buf'[i] = pckbd_buf[i]
  <2> HIDE DEF B, o
  <2> QED
    BY <1>1, <1>3
<1>5. \A i \in 1 .. L : kbTyped[i] = pckbd_buf[KeyAt(o, i - 1)]
  BY DEF KbInv
<1>6. kbTyped' = Tail(kbTyped) /\ kbReader' = "user" /\ kbHeld' = kbHeld /\ pckbd_shift' = pckbd_shift
  BY DEF KbGetch
<1>7. GetchFinds' /\ NoStuckShift'
  BY <1>6 DEF GetchFinds, NoStuckShift, KbInv
<1> HIDE DEF B, o, p
<1>8. L # 0
  BY <1>1, <1>2 DEF KeyAt, B
<1>9. kbTyped # <<>>
  BY <1>8
<1>10. kbTyped' \in Seq(KeyVals) /\ Len(kbTyped') = L - 1 /\ \A i \in 1 .. L - 1 : kbTyped'[i] = kbTyped[i + 1]
  BY <1>1, <1>6, <1>9, HeadTailProperties
<1> HIDE DEF L
<1>11. \A i \in 1 .. L - 1 : KeyAt(o', i - 1) = KeyAt(o, i) /\ KeyAt(o, i) \in 0 .. B - 1 /\ KeyAt(o, i) # o
  BY <1>1, <1>2 DEF KeyAt, B
<1>12. p' = KeyAt(o', L - 1)
  BY <1>1, <1>2, <1>8 DEF KeyAt, B
<1>13. \A i \in 1 .. L - 1 : kbTyped'[i] = pckbd_buf'[KeyAt(o', i - 1)]
  <2> SUFFICES ASSUME NEW i \in 1 .. L - 1 PROVE kbTyped'[i] = pckbd_buf'[KeyAt(o', i - 1)]
    OBVIOUS
  <2>1. i + 1 \in 1 .. L /\ (i + 1) - 1 = i
    BY <1>1
  <2>2. kbTyped[i + 1] = pckbd_buf[KeyAt(o, i)]
    BY <1>5, <2>1
  <2> QED
    BY <1>4, <1>10, <1>11, <2>2
<1>14. L - 1 \in Nat /\ L - 1 < B
  BY <1>1, <1>8
<1> QED
  BY <1>1, <1>2, <1>4, <1>7, <1>10, <1>12, <1>13, <1>14 DEF KbInv, B, o, p

\* A key that goes down holds its bit; one that goes up takes the bit with it.
LEMMA ShiftDown ==
  ASSUME NoStuckShift, NEW k, kbHeld' = kbHeld \cup {k}, pckbd_shift' = pckbd_shift \cup ShiftBit(k)
  PROVE  NoStuckShift'
BY DEF NoStuckShift

LEMMA ShiftUp ==
  ASSUME NoStuckShift, NEW k, kbHeld' = kbHeld \ {k}, pckbd_shift' = Released(k)
  PROVE  NoStuckShift'
BY DEF NoStuckShift, Released

\* Steps that leave the queue alone.
LEMMA QueueSame ==
  ASSUME KbInv, UNCHANGED <<pckbd_buf, pckbd_inp, pckbd_outp, kbTyped>>, GetchFinds', NoStuckShift'
  PROVE  KbInv'
BY DEF KbInv

LEMMA KbNextInv == KbInv /\ [KbNext]_kbVars => KbInv'
<1> SUFFICES ASSUME KbInv, [KbNext]_kbVars PROVE KbInv'
  OBVIOUS
<1>0. GetchFinds /\ NoStuckShift
  BY DEF KbInv
<1>1. ASSUME NEW k \in KeyCodes, KeyDown(k) PROVE KbInv'
  <2>1. /\ kbHeld' = kbHeld \cup {k} /\ pckbd_shift' = pckbd_shift \cup ShiftBit(k)
        /\ pckbd_outp' = pckbd_outp /\ kbReader' = kbReader
    BY <1>1 DEF KeyDown
  <2>2. NoStuckShift'
    BY <1>0, <2>1, ShiftDown
  <2>3. CASE NoKey
    <3>1. GetchFinds'
      BY <1>0, <2>1, <2>3 DEF NoKey, GetchFinds, con_kbhit
    <3> QED
      BY <2>1, <2>2, <2>3, <3>1, QueueSame DEF NoKey
  <2>4. ASSUME NEW c, c = KeyChar(k, pckbd_shift'), c # <<>>, PckbdPut(c) PROVE KbInv'
    <3>1. c = <<k, "CTRL" \in pckbd_shift'>>
      BY <2>4, Zenon DEF KeyChar
    <3>2. c \in KeyVals
      <4>1. ("CTRL" \in pckbd_shift') \in BOOLEAN
        <5>1. CASE "CTRL" \in pckbd_shift'
          <6>1. ("CTRL" \in pckbd_shift') = TRUE
            BY <5>1, Zenon
          <6> QED
            BY <6>1, Zenon
        <5>2. CASE "CTRL" \notin pckbd_shift'
          <6>1. ("CTRL" \in pckbd_shift') = FALSE
            BY <5>2, SMT
          <6> QED
            BY <6>1, Zenon
        <5> QED
          BY <5>1, <5>2
      <4> QED
        BY <3>1, <4>1, Zenon DEF KeyVals
    <3> QED
      BY <2>1, <2>2, <2>4, <3>2, PutKeeps
  <2>5. NoKey \/ \E c : c = KeyChar(k, pckbd_shift') /\ c # <<>> /\ PckbdPut(c)
    BY <1>1, Zenon DEF KeyDown
  <2> QED
    BY <2>3, <2>4, <2>5
<1>2. ASSUME NEW k \in KeyCodes, KeyUp(k) PROVE KbInv'
  <2>1. NoStuckShift'
    BY <1>0, <1>2, ShiftUp DEF KeyUp
  <2>2. GetchFinds' /\ UNCHANGED <<pckbd_buf, pckbd_inp, pckbd_outp, kbTyped>>
    BY <1>0, <1>2 DEF KeyUp, GetchFinds, con_kbhit
  <2> QED
    BY <2>1, <2>2, QueueSame
<1>3. CASE KbReset
  <2>1. PCKBD_BUFSIZE \in Nat \ {0, 1}
    BY KeySlotIs
  <2>2. kbTyped' \in Seq(KeyVals) /\ Len(kbTyped') = 0
    BY <1>3, EmptySeq DEF KbReset
  <2>3. pckbd_inp' = 0 /\ pckbd_outp' = 0 /\ KeyAt(0, 0) = 0
    BY <1>3, <2>1 DEF KbReset, KeyAt
  <2>4. pckbd_buf' = [i \in 0 .. PCKBD_BUFSIZE - 1 |-> pckbd_buf'[i]]
    BY <1>3 DEF KbReset, KbInv
  <2>5. GetchFinds' /\ NoStuckShift'
    BY <1>3 DEF KbReset, GetchFinds, NoStuckShift
  <2> QED
    BY <2>1, <2>2, <2>3, <2>4, <2>5 DEF KbInv
<1>4. CASE KbCall \/ KbGivesUp \/ KbSeen \/ UNCHANGED kbVars
  <2>1. UNCHANGED <<kbHeld, pckbd_shift, pckbd_buf, pckbd_inp, pckbd_outp, kbTyped>>
    BY <1>4 DEF KbCall, KbGivesUp, KbSeen, kbVars
  <2>2. GetchFinds'
    BY <1>0, <1>4 DEF KbCall, KbGivesUp, KbSeen, kbVars, GetchFinds, con_kbhit
  <2> QED
    BY <1>0, <2>1, <2>2, QueueSame DEF NoStuckShift
<1>5. CASE KbGetch
  BY <1>5, GetchKeeps
<1> QED
  BY <1>1, <1>2, <1>3, <1>4, <1>5 DEF KbNext

LEMMA KbEnough == KbInv => KeysExact
<1> SUFFICES ASSUME KbInv PROVE KeysExact
  OBVIOUS
<1> DEFINE B == PCKBD_BUFSIZE
           L == Len(kbTyped)
           o == pckbd_outp
           p == pckbd_inp
<1>1. B \in Nat \ {0, 1} /\ p \in 0 .. B - 1 /\ o \in 0 .. B - 1 /\ L \in Nat /\ L < B /\ kbTyped \in Seq(KeyVals)
  BY KeySlotIs, LenProperties DEF KbInv
<1>2. p = KeyAt(o, L) /\ \A i \in 1 .. L : kbTyped[i] = pckbd_buf[KeyAt(o, i - 1)]
  BY DEF KbInv
<1> HIDE DEF B, L, o, p
<1>3. (p + B - o) % B = L
  <2> DEFINE x == p + B - o
  <2>1. x \in Nat /\ x < 2 * B
    BY <1>1
  <2>2. (x < B => x % B = x) /\ (B <= x => x % B = x - B)
    BY <1>1, <2>1, Wrapped
  <2>3. IF o + L < B THEN x = B + L ELSE x = L
    BY <1>1, <1>2 DEF KeyAt, B
  <2> HIDE DEF x
  <2>4. x % B = L
    BY <1>1, <2>2, <2>3
  <2> QED
    BY <2>4 DEF x
<1>4. ASSUME NEW i \in 1 .. L PROVE (o + i - 1) % B = KeyAt(o, i - 1)
  <2> DEFINE x == o + i - 1
  <2>1. x \in Nat /\ x < 2 * B
    BY <1>1
  <2>2. (x < B => x % B = x) /\ (B <= x => x % B = x - B)
    BY <1>1, <2>1, Wrapped
  <2>3. KeyAt(o, i - 1) = IF x < B THEN x ELSE x - B
    BY <1>1 DEF KeyAt, B
  <2> QED
    BY <1>1, <2>1, <2>2, <2>3
<1>5. kbTyped = [i \in 1 .. L |-> pckbd_buf[(o + i - 1) % B]]
  <2>1. kbTyped = [i \in 1 .. L |-> kbTyped[i]]
    BY <1>1, LenProperties DEF L
  <2>2. \A i \in 1 .. L : kbTyped[i] = pckbd_buf[(o + i - 1) % B]
    BY <1>2, <1>4
  <2> QED
    BY <2>1, <2>2, Zenon
<1>6. <<>> \notin Range(kbTyped)
  <2>1. Range(kbTyped) = {kbTyped[i] : i \in 1 .. L}
    BY <1>1, RangeEquality DEF L
  <2>2. \A i \in 1 .. L : kbTyped[i] \in KeyVals
    BY <1>1, ElementOfSeq DEF L
  <2>3. <<>> \notin KeyVals
    BY DEF KeyVals
  <2> QED
    BY <2>1, <2>2, <2>3
<1>7. KeysQueued
  BY <1>3, <1>5, <1>6 DEF KeysQueued, B, o, p
<1> QED
  BY <1>7 DEF KeysExact, KbInv

----------------------------------------------------------------------------
(* Screen.                                                                  *)

ScrChars == Plain \cup {" ", "tab"}
Frames   == [Cells -> ScrChars]
ScrRec   == [x : Nat, y : Nat, fb : Frames]
Rec(a, b, f) == [x |-> a, y |-> b, fb |-> f]
\* The character ch lies right before the cursor, on the screen.
Before1(s, ch) ==
  /\ s.x \in 1 .. PCCON_NCOL /\ s.y \in 0 .. PCCON_NLIN - 1
  /\ s.fb[s.x - 1 + s.y * PCCON_NCOL] = ch

LEMMA ScrConsts ==
  /\ PCCON_NCOL \in Nat \ {0} /\ PCCON_NLIN \in Nat \ {0} /\ TabStop \in Nat \ {0}
  /\ DmesgSize \in Nat \ {0, 1} /\ Coords \subseteq Nat
BY ScreenAssumption DEF ScreenAssumption

LEMMA ScrParts ==
  ASSUME NEW s \in ScrRec
  PROVE  s.x \in Nat /\ s.y \in Nat /\ s.fb \in Frames
BY DEF ScrRec

LEMMA RecIs ==
  ASSUME NEW a \in Nat, NEW b \in Nat, NEW f \in Frames
  PROVE  Rec(a, b, f) \in ScrRec /\ Rec(a, b, f).x = a /\ Rec(a, b, f).y = b /\ Rec(a, b, f).fb = f
BY DEF ScrRec, Rec

LEMMA ScrSet ==
  ASSUME NEW s \in ScrRec, NEW a, NEW b, NEW f
  PROVE  /\ [s EXCEPT !.x = a] = Rec(a, s.y, s.fb)
         /\ [s EXCEPT !.y = b] = Rec(s.x, b, s.fb)
         /\ [s EXCEPT !.fb = f] = Rec(s.x, s.y, f)
BY DEF ScrRec, Rec

LEMMA ScrSet2 ==
  ASSUME NEW s \in ScrRec, NEW a \in Nat, NEW b \in Nat, NEW f \in Frames
  PROVE  /\ [s EXCEPT !.x = a, !.y = b] = Rec(a, b, s.fb)
         /\ [s EXCEPT !.x = a, !.fb = f] = Rec(a, s.y, f)
         /\ [s EXCEPT !.y = b, !.fb = f] = Rec(s.x, b, f)
<1>0. s.x \in Nat /\ s.y \in Nat /\ s.fb \in Frames
  BY ScrParts
<1> DEFINE t == [s EXCEPT !.x = a]
           u == [s EXCEPT !.y = b]
<1>1. t = Rec(a, s.y, s.fb) /\ u = Rec(s.x, b, s.fb)
  BY ScrSet, Zenon
<1>2. /\ [s EXCEPT !.x = a, !.y = b] = [t EXCEPT !.y = b]
      /\ [s EXCEPT !.x = a, !.fb = f] = [t EXCEPT !.fb = f]
      /\ [s EXCEPT !.y = b, !.fb = f] = [u EXCEPT !.fb = f]
  OBVIOUS
<1> HIDE DEF t, u
<1>3. t \in ScrRec /\ t.x = a /\ t.y = s.y /\ t.fb = s.fb
  BY <1>0, <1>1, RecIs
<1>4. u \in ScrRec /\ u.x = s.x /\ u.y = b /\ u.fb = s.fb
  BY <1>0, <1>1, RecIs
<1>5. [t EXCEPT !.y = b] = Rec(t.x, b, t.fb) /\ [t EXCEPT !.fb = f] = Rec(t.x, t.y, f)
  BY <1>3, ScrSet, Zenon
<1>6. [u EXCEPT !.fb = f] = Rec(u.x, u.y, f)
  BY <1>4, ScrSet, Zenon
<1> QED
  BY <1>2, <1>3, <1>4, <1>5, <1>6, Zenon

\* A place on the screen has a cell.
LEMMA CellOf ==
  ASSUME NEW x \in Nat, NEW y \in Nat, x < PCCON_NCOL, y < PCCON_NLIN
  PROVE  x + y * PCCON_NCOL \in Cells
<1> DEFINE c == PCCON_NCOL
           l == PCCON_NLIN
<1>1. c \in Nat \ {0} /\ l \in Nat \ {0}
  BY ScrConsts
<1> HIDE DEF c, l
<1>2. y \in Nat /\ l - 1 \in Nat /\ y <= l - 1
  BY <1>1 DEF l
<1>3. y * c <= (l - 1) * c
  BY <1>1, <1>2, MulLeq
<1>4. (l - 1) * c = c * l - c /\ y * c \in Nat /\ c * l \in Nat
  BY <1>1
<1>5. x + y * c \in 0 .. c * l - 1
  <2> DEFINE a == y * c
             b == c * l
             d == (l - 1) * c
  <2>1. a \in Nat /\ b \in Nat /\ a <= d /\ d = b - c /\ x \in Nat /\ x < c
    BY <1>3, <1>4 DEF c
  <2> HIDE DEF a, b, d
  <2>2. x + a \in 0 .. b - 1
    BY <1>1, <2>1
  <2> QED
    BY <2>2 DEF a, b
<1> QED
  BY <1>5 DEF Cells, c, l

LEMMA ScrolledIs ==
  ASSUME NEW s \in ScrRec
  PROVE  ConCscroll(s) \in ScrRec /\ ConCscroll(s).x = s.x /\ ConCscroll(s).y \in 0 .. PCCON_NLIN - 1
<1> DEFINE n == IF s.y >= PCCON_NLIN THEN s.y - PCCON_NLIN + 1 ELSE 0
           g == [i \in Cells |-> IF i + n * PCCON_NCOL \in Cells THEN s.fb[i + n * PCCON_NCOL] ELSE " "]
<1>0. s.x \in Nat /\ s.y \in Nat /\ s.fb \in Frames
  BY ScrParts
<1>1. ConCscroll(s) = Rec(s.x, s.y - n, g)
  <2>1. ConCscroll(s) = [s EXCEPT !.y = @ - n, !.fb = g]
    BY DEF ConCscroll
  <2> HIDE DEF n, g
  <2> QED
    BY <2>1 DEF ScrRec, Rec
<1>2. s.y - n \in 0 .. PCCON_NLIN - 1 /\ s.y - n \in Nat
  BY <1>0, ScrConsts
<1>3. g \in Frames
  <2>1. \A i \in Cells : s.fb[i] \in ScrChars
    BY <1>0 DEF Frames
  <2> HIDE DEF n
  <2>2. " " \in ScrChars
    BY DEF ScrChars
  <2> QED
    BY <2>1, <2>2, Zenon DEF Frames
<1> HIDE DEF n, g
<1>4. /\ Rec(s.x, s.y - n, g) \in ScrRec /\ Rec(s.x, s.y - n, g).x = s.x
      /\ Rec(s.x, s.y - n, g).y = s.y - n
  BY <1>0, <1>2, <1>3, RecIs
<1> QED
  BY <1>1, <1>2, <1>4

LEMMA GraphicIs ==
  ASSUME NEW s \in ScrRec, NEW ch \in ScrChars
  PROVE  Graphic(s, ch) \in ScrRec /\ Before1(Graphic(s, ch), ch)
<1> DEFINE v == IF s.x >= PCCON_NCOL THEN [s EXCEPT !.x = 0, !.y = @ + 1] ELSE s
           w == ConCscroll(v)
           i == w.x + w.y * PCCON_NCOL
           g == [w.fb EXCEPT ![i] = ch]
           u == con_chrxy(w, ch)
           t == [u EXCEPT !.x = @ + 1]
<1>1. v \in ScrRec /\ v.x < PCCON_NCOL
  <2>1. s.x \in Nat /\ s.y \in Nat /\ s.fb \in Frames /\ 0 \in Nat /\ s.y + 1 \in Nat
    BY ScrParts
  <2>2. [s EXCEPT !.x = 0, !.y = @ + 1] = Rec(0, s.y + 1, s.fb)
    BY <2>1, ScrSet2, Zenon
  <2>3. Rec(0, s.y + 1, s.fb) \in ScrRec /\ Rec(0, s.y + 1, s.fb).x = 0
    BY <2>1, RecIs
  <2>4. v = IF s.x >= PCCON_NCOL THEN Rec(0, s.y + 1, s.fb) ELSE s
    BY <2>2
  <2> HIDE DEF v
  <2> QED
    BY <2>1, <2>3, <2>4, ScrConsts
<1>6. Graphic(s, ch) = t
  BY Zenon DEF Graphic
<1> HIDE DEF v
<1>2. w \in ScrRec /\ w.x = v.x /\ w.y \in 0 .. PCCON_NLIN - 1
  BY <1>1, ScrolledIs
<1> HIDE DEF w
<1>3. w.x \in Nat /\ w.y \in Nat /\ w.x < PCCON_NCOL /\ w.y < PCCON_NLIN /\ w.fb \in Frames
  BY <1>1, <1>2, ScrConsts, ScrParts
<1>4. i \in Cells
  BY <1>3, CellOf
<1>5. u = [w EXCEPT !.fb[i] = ch]
  BY <1>4, Zenon DEF con_chrxy
<1> HIDE DEF i
<1>7. u = Rec(w.x, w.y, g)
  <2>1. u = [w EXCEPT !.fb = g]
    BY <1>5
  <2> HIDE DEF u, g
  <2> QED
    BY <1>2, <2>1, ScrSet, Zenon
<1>8. g \in Frames /\ g[i] = ch
  BY <1>3, <1>4 DEF Frames
<1> HIDE DEF g, u
<1>9. u \in ScrRec /\ u.x = w.x /\ u.y = w.y /\ u.fb = g
  BY <1>3, <1>7, <1>8, RecIs
<1>10. t = Rec(u.x + 1, u.y, u.fb)
  BY <1>9, ScrSet, Zenon
<1>11. t \in ScrRec /\ t.x = w.x + 1 /\ t.y = w.y /\ t.fb = g
  <2>1. w.x + 1 \in Nat /\ w.y \in Nat
    BY <1>3
  <2>2. t = Rec(w.x + 1, w.y, g)
    BY <1>9, <1>10
  <2> HIDE DEF t
  <2> QED
    BY <1>8, <2>1, <2>2, RecIs
<1> HIDE DEF t
<1>12. t.x - 1 + t.y * PCCON_NCOL = i
  <2>1. t.x - 1 = w.x
    BY <1>3, <1>11
  <2> QED
    BY <1>11, <2>1 DEF i
<1>13. t.x \in 1 .. PCCON_NCOL /\ t.y \in 0 .. PCCON_NLIN - 1
  BY <1>2, <1>3, <1>11, ScrConsts
<1> QED
  BY <1>6, <1>8, <1>11, <1>12, <1>13 DEF Before1

LEMMA TabbedIs == ASSUME NEW s \in ScrRec PROVE Tabbed(s) \in ScrRec
<1> DEFINE t == Graphic(s, " ")
           q == (t.x + TabStop - 1) \div TabStop
           stop == q * TabStop
           at == t.y * PCCON_NCOL
           g == [i \in Cells |-> IF i \in at + t.x .. at + stop - 1 THEN " " ELSE t.fb[i]]
<1>1. t \in ScrRec /\ t.x \in Nat /\ t.y \in Nat /\ t.x >= 1 /\ t.fb \in Frames /\ " " \in ScrChars
  <2>1. " " \in ScrChars
    BY DEF ScrChars
  <2>2. t \in ScrRec /\ Before1(t, " ")
    BY <2>1, GraphicIs
  <2> HIDE DEF t
  <2>3. t.x \in 1 .. PCCON_NCOL /\ PCCON_NCOL \in Nat
    BY <2>2, ScrConsts DEF Before1
  <2>4. t.x \in Nat /\ t.x >= 1
    BY <2>3
  <2> QED
    BY <2>1, <2>2, <2>4, ScrParts
<1>2. Tabbed(s) = [t EXCEPT !.x = stop, !.fb = g]
  BY DEF Tabbed
<1> HIDE DEF t
<1>3. q \in Nat
  <2> DEFINE a == t.x + TabStop - 1
  <2>1. a \in Nat /\ TabStop \in Nat \ {0}
    <3>1. t.x \in Nat /\ TabStop \in Nat \ {0}
      BY <1>1, ScrConsts
    <3> QED
      BY <3>1
  <2> HIDE DEF a
  <2>2. a \div TabStop \in Nat
    BY <2>1, DivIs
  <2> QED
    BY <2>2 DEF a
<1> HIDE DEF q
<1>4. stop \in Nat
  BY <1>3, ScrConsts
<1>5. g \in Frames
  <2>1. \A i \in Cells : t.fb[i] \in ScrChars
    BY <1>1 DEF Frames
  <2> HIDE DEF stop, at
  <2> QED
    BY <1>1, <2>1, Zenon DEF Frames
<1> HIDE DEF stop, g
<1>6. [t EXCEPT !.x = stop, !.fb = g] = Rec(stop, t.y, g)
  <2> DEFINE u == [t EXCEPT !.x = stop]
  <2>1. [t EXCEPT !.x = stop, !.fb = g] = [u EXCEPT !.fb = g]
    OBVIOUS
  <2>2. u = Rec(stop, t.y, t.fb)
    BY <1>1, ScrSet, Zenon
  <2> HIDE DEF u
  <2>3. u \in ScrRec /\ u.x = stop /\ u.y = t.y
    <3>1. stop \in Nat /\ t.y \in Nat /\ t.fb \in Frames
      BY <1>1, <1>4
    <3>2. /\ Rec(stop, t.y, t.fb) \in ScrRec /\ Rec(stop, t.y, t.fb).x = stop
          /\ Rec(stop, t.y, t.fb).y = t.y
      BY ONLY <3>1, RecIs
    <3> QED
      BY <2>2, <3>2, Zenon
  <2>4. [u EXCEPT !.fb = g] = Rec(u.x, u.y, g)
    BY <2>3, ScrSet, Zenon
  <2> QED
    BY <2>1, <2>3, <2>4, Zenon
<1>7. Rec(stop, t.y, g) \in ScrRec
  BY <1>1, <1>4, <1>5, RecIs
<1> QED
  BY <1>2, <1>6, <1>7

LEMMA ClearIs == con_clear \in ScrRec
<1>1. Blank \in Frames
  BY DEF Blank, ScrChars, Frames
<1>2. con_clear = Rec(0, 0, Blank)
  BY DEF con_clear, Rec
<1> QED
  BY <1>1, <1>2, RecIs

\* What shows lands before the cursor.
LEMMA PutcaIs ==
  ASSUME NEW s \in ScrRec, NEW ch \in Plain \cup {"tab"}
  PROVE  con_putca(s, ch) \in ScrRec /\ (Shows(ch) => Before1(con_putca(s, ch), ch))
<1>0. s.x \in Nat /\ s.y \in Nat /\ s.fb \in Frames /\ 0 \in Nat /\ s.y + 1 \in Nat /\ (s.x > 0 => s.x - 1 \in Nat)
  BY ScrParts
<1>1. CASE ch = "x"
  <2>1. con_putca(s, ch) = Graphic(s, ch)
    BY <1>1 DEF con_putca
  <2>2. ch \in ScrChars
    BY DEF ScrChars
  <2> QED
    BY <2>1, <2>2, GraphicIs
<1>2. CASE ch = "ff"
  BY <1>2, ClearIs DEF con_putca, Shows
<1>3. CASE ch = "tab"
  BY <1>3, TabbedIs DEF con_putca, Shows
<1>4. CASE ch = "nl"
  <2> DEFINE v == Rec(0, s.y + 1, s.fb)
  <2>1. v \in ScrRec
    BY <1>0, RecIs
  <2>2. con_putca(s, ch) = ConCscroll(v)
    <3>1. [s EXCEPT !.x = 0, !.y = @ + 1] = v
      BY <1>0, ScrSet2, Zenon
    <3>2. con_putca(s, ch) = ConCscroll([s EXCEPT !.x = 0, !.y = @ + 1])
      BY <1>4 DEF con_putca
    <3> QED
      BY <3>1, <3>2, Zenon
  <2> HIDE DEF v
  <2> QED
    BY <1>4, <2>1, <2>2, ScrolledIs DEF Shows
<1>5. CASE ch = "cr"
  <2>1. con_putca(s, ch) = [s EXCEPT !.x = 0]
    BY <1>5 DEF con_putca
  <2>2. [s EXCEPT !.x = 0] = Rec(0, s.y, s.fb)
    BY ScrSet, Zenon
  <2>3. Rec(0, s.y, s.fb) \in ScrRec
    BY <1>0, RecIs
  <2> QED
    BY <1>5, <2>1, <2>2, <2>3 DEF Shows
<1>6. CASE ch = "bs"
  <2>1. con_putca(s, ch) = IF s.x > 0 THEN [s EXCEPT !.x = @ - 1] ELSE s
    BY <1>6 DEF con_putca
  <2>2. [s EXCEPT !.x = @ - 1] = Rec(s.x - 1, s.y, s.fb)
    BY ScrSet, Zenon
  <2>3. s.x > 0 => Rec(s.x - 1, s.y, s.fb) \in ScrRec
    BY <1>0, RecIs
  <2> QED
    BY <1>6, <2>1, <2>2, <2>3 DEF Shows
<1>7. CASE ch = "bel"
  <2>1. con_putca(s, ch) = s
    BY <1>7 DEF con_putca
  <2> QED
    BY <1>7, <2>1 DEF Shows
<1> QED
  BY <1>1, <1>2, <1>3, <1>4, <1>5, <1>6, <1>7 DEF Plain

LEMMA PrintedIs ==
  ASSUME NEW s \in ScrRec, NEW ch \in Plain \cup {"tab"}, Printed(s, ch)
  PROVE  scr' \in ScrRec /\ PrintLands'
<1>1. scr' = con_putca(s, ch) /\ landed' = IF Shows(ch) THEN <<scr'.x, scr'.y, ch>> ELSE <<>>
  BY DEF Printed
<1>2. scr' \in ScrRec /\ (Shows(ch) => Before1(scr', ch))
  BY <1>1, PutcaIs
<1> QED
  BY <1>1, <1>2 DEF PrintLands, Before1

LEMMA EscIs ==
  ASSUME scr \in ScrRec, NEW ch, EscCommand(ch)
  PROVE  scr' \in ScrRec /\ landed' = <<>>
<1> DEFINE up   == [i \in Cells |-> IF i + PCCON_NCOL \in Cells THEN scr.fb[i + PCCON_NCOL] ELSE scr.fb[i]]
           down == [i \in Cells |-> IF i >= PCCON_NCOL THEN scr.fb[i - PCCON_NCOL] ELSE scr.fb[i]]
           clr  == [i \in Cells |-> IF i \in scr.y * PCCON_NCOL + scr.x .. scr.y * PCCON_NCOL + PCCON_NCOL - 1
                                    THEN " " ELSE scr.fb[i]]
<1>0. /\ scr.x \in Nat /\ scr.y \in Nat /\ scr.fb \in Frames /\ 0 \in Nat
      /\ scr.y > 0 => scr.y - 1 \in Nat
  BY ScrParts
<1>1. \A i \in Cells : scr.fb[i] \in ScrChars
  BY <1>0 DEF Frames
<1>2. up \in Frames
  BY <1>1, Zenon DEF Frames
<1>3. down \in Frames
  <2>1. \A i \in Cells : i >= PCCON_NCOL => i - PCCON_NCOL \in Cells
    BY ScrConsts DEF Cells
  <2> QED
    BY <1>1, <2>1, Zenon DEF Frames
<1>4. clr \in Frames
  <2>1. " " \in ScrChars
    BY DEF ScrChars
  <2> QED
    BY <1>1, <2>1, Zenon DEF Frames
<1>5. /\ ch = "u" => scr' = [scr EXCEPT !.fb = up]
      /\ ch = "d" => scr' = [scr EXCEPT !.fb = down]
      /\ ch = "h" => scr' = [scr EXCEPT !.x = 0, !.y = 0]
      /\ ch = "U" => scr' = IF scr.y > 0 THEN [scr EXCEPT !.y = @ - 1] ELSE scr
      /\ ch = "C" => scr' = [scr EXCEPT !.fb = clr]
      /\ ch \notin {"u", "d", "h", "U", "C"} => scr' = scr
  BY DEF EscCommand, ClrEol
<1> HIDE DEF up, down, clr
<1>6. /\ [scr EXCEPT !.fb = up] = Rec(scr.x, scr.y, up) /\ [scr EXCEPT !.fb = down] = Rec(scr.x, scr.y, down)
      /\ [scr EXCEPT !.fb = clr] = Rec(scr.x, scr.y, clr)
      /\ [scr EXCEPT !.y = @ - 1] = Rec(scr.x, scr.y - 1, scr.fb)
  BY ScrSet, Zenon
<1>9. [scr EXCEPT !.x = 0, !.y = 0] = Rec(0, 0, scr.fb)
  BY <1>0, ScrSet2, Zenon
<1>7. /\ Rec(scr.x, scr.y, up) \in ScrRec /\ Rec(scr.x, scr.y, down) \in ScrRec
      /\ Rec(scr.x, scr.y, clr) \in ScrRec /\ Rec(0, 0, scr.fb) \in ScrRec
      /\ scr.y > 0 => Rec(scr.x, scr.y - 1, scr.fb) \in ScrRec
  BY <1>0, <1>2, <1>3, <1>4, RecIs
<1>8. scr' \in ScrRec
  BY <1>5, <1>6, <1>7, <1>9
<1> QED
  BY <1>8 DEF EscCommand

----------------------------------------------------------------------------
(* The kernel's log.                                                        *)

LogChars == {"x", "nl"}
\* The slot j before slot i.
LogAt(i, j) == IF j <= i THEN i - j ELSE i - j + DmesgSize

\* The last messages lie before dmesgi, and what was never written is empty.
LogInv ==
  /\ dmesg = [i \in 0 .. DmesgSize - 1 |-> dmesg[i]] /\ dmesgi \in 0 .. DmesgSize - 1
  /\ logged \in Seq(LogChars)
  /\ Len(logged) < DmesgSize => dmesgi = Len(logged) /\ \A i \in Len(logged) .. DmesgSize - 1 : dmesg[i] = ""
  /\ \A j \in 1 .. DmesgSize : j <= Len(logged) => dmesg[LogAt(dmesgi, j)] = logged[Len(logged) - j + 1]
\* What sys__dmesg gave was the tail of what had been logged by then.
DmesgInv == dmesgOut[2] \in 0 .. Len(logged) /\ DmesgTail

ScrInv == scr \in ScrRec /\ PrintLands /\ LogInv /\ DmesgInv

\* One message more.
LEMMA LogPut ==
  ASSUME LogInv, NEW ch \in LogChars, dmesg' = [dmesg EXCEPT ![dmesgi] = ch],
         dmesgi' = (dmesgi + 1) % DmesgSize, logged' = Append(logged, ch)
  PROVE  LogInv' /\ Len(logged') = Len(logged) + 1 /\ \A i \in 1 .. Len(logged) : logged'[i] = logged[i]
<1> DEFINE D == DmesgSize
           L == Len(logged)
           p == dmesgi
<1>1. D \in Nat \ {0, 1} /\ p \in 0 .. D - 1 /\ logged \in Seq(LogChars) /\ L \in Nat
  BY ScrConsts, LenProperties DEF LogInv
<1>2. /\ logged' \in Seq(LogChars) /\ Len(logged') = L + 1 /\ logged'[L + 1] = ch
      /\ \A i \in 1 .. L : logged'[i] = logged[i]
  BY <1>1, AppendProperties
<1>3. /\ dmesg' = [i \in 0 .. D - 1 |-> dmesg'[i]] /\ dmesg'[p] = ch
      /\ \A i \in 0 .. D - 1 : i # p => dmesg'[i] = dmesg[i]
  <2>1. dmesg = [i \in 0 .. D - 1 |-> dmesg[i]]
    BY DEF LogInv
  <2> HIDE DEF D, p
  <2> QED
    BY <1>1, <2>1 DEF p
<1>4. p' = IF p + 1 < D THEN p + 1 ELSE 0
  <2> DEFINE x == p + 1
  <2>1. x \in Nat /\ x < 2 * D
    BY <1>1
  <2>2. (x < D => x % D = x) /\ (D <= x => x % D = x - D)
    BY <1>1, <2>1, Wrapped
  <2>3. p' = x % D
    OBVIOUS
  <2> HIDE DEF D, p
  <2> QED
    BY <1>1, <2>2, <2>3
<1>5. L < D => p = L /\ \A i \in L .. D - 1 : dmesg[i] = ""
  BY DEF LogInv
<1>6. \A j \in 1 .. D : j <= L => dmesg[LogAt(p, j)] = logged[L - j + 1]
  BY DEF LogInv
<1> HIDE DEF D, L, p
<1>7. L + 1 < D => p' = L + 1 /\ \A i \in L + 1 .. D - 1 : dmesg'[i] = ""
  <2> SUFFICES ASSUME L + 1 < D PROVE p' = L + 1 /\ \A i \in L + 1 .. D - 1 : dmesg'[i] = ""
    OBVIOUS
  <2>1. L < D
    BY <1>1
  <2>2. p = L /\ \A i \in L .. D - 1 : dmesg[i] = ""
    BY <1>5, <2>1
  <2>3. ASSUME NEW i \in L + 1 .. D - 1 PROVE dmesg'[i] = ""
    <3>0. L \in Nat /\ D \in Nat /\ p = L
      BY <1>1, <2>2
    <3>1. i \in L .. D - 1 /\ i # p /\ i \in 0 .. D - 1
      <4>1. i \in L .. D - 1 /\ i # L /\ i \in 0 .. D - 1
        BY ONLY <3>0, i \in L + 1 .. D - 1
      <4> QED
        BY <3>0, <4>1
    <3> QED
      BY <1>3, <2>2, <3>1
  <2> QED
    BY <1>1, <1>4, <2>2, <2>3
<1>8. \A j \in 1 .. D : j <= L + 1 => dmesg'[LogAt(p', j)] = logged'[L + 1 - j + 1]
  <2> SUFFICES ASSUME NEW j \in 1 .. D, j <= L + 1 PROVE dmesg'[LogAt(p', j)] = logged'[L + 1 - j + 1]
    OBVIOUS
  <2>1. CASE j = 1
    <3>1. LogAt(p', j) = p
      BY <1>1, <1>4, <2>1 DEF LogAt, D
    <3>2. L + 1 - j + 1 = L + 1
      BY <1>1, <2>1
    <3> QED
      BY <1>2, <1>3, <3>1, <3>2
  <2>2. CASE j # 1
    <3>1. LogAt(p', j) = LogAt(p, j - 1) /\ LogAt(p, j - 1) # p /\ LogAt(p, j - 1) \in 0 .. D - 1
      BY <1>1, <1>4, <2>2 DEF LogAt, D
    <3>2. j - 1 \in 1 .. D /\ j - 1 <= L /\ L - (j - 1) + 1 = L + 1 - j + 1 /\ L + 1 - j + 1 \in 1 .. L
      BY <1>1, <2>2
    <3>3. dmesg[LogAt(p, j - 1)] = logged[L + 1 - j + 1]
      BY <1>6, <3>2
    <3> QED
      BY <1>2, <1>3, <3>1, <3>2, <3>3
  <2> QED
    BY <2>1, <2>2
<1>9. p' \in 0 .. D - 1
  BY <1>1, <1>4
<1>10. LogInv'
  <2>1. Len(logged') < DmesgSize => dmesgi' = Len(logged') /\ \A i \in Len(logged') .. DmesgSize - 1 : dmesg'[i] = ""
    BY <1>2, <1>7 DEF D, p
  <2>2. \A j \in 1 .. DmesgSize : j <= Len(logged') => dmesg'[LogAt(dmesgi', j)] = logged'[Len(logged') - j + 1]
    <3>1. Len(logged') = L + 1 /\ D = DmesgSize /\ p = dmesgi /\ p' = dmesgi'
      BY <1>2 DEF D, p
    <3> SUFFICES ASSUME NEW j \in 1 .. DmesgSize, j <= Len(logged')
                 PROVE  dmesg'[LogAt(dmesgi', j)] = logged'[Len(logged') - j + 1]
      OBVIOUS
    <3>2. j \in 1 .. D /\ j <= L + 1 /\ Len(logged') - j + 1 = L + 1 - j + 1
      <4>1. Len(logged') - j + 1 = L + 1 - j + 1
        BY <1>1, <3>1
      <4>2. j <= L + 1
        BY <3>1, j <= Len(logged'), Zenon
      <4>3. j \in 1 .. D
        BY <3>1, Zenon
      <4> QED
        BY <4>1, <4>2, <4>3
    <3>3. dmesg'[LogAt(p', j)] = logged'[L + 1 - j + 1]
      BY <1>8, <3>2, Zenon
    <3> QED
      BY <3>1, <3>2, <3>3, Zenon
  <2> QED
    BY <1>2, <1>3, <1>9, <2>1, <2>2 DEF LogInv, D, p
<1> QED
  BY <1>2, <1>10 DEF L

\* Sequences that begin alike have the same beginnings.
LEMMA SubSeqSame ==
  ASSUME NEW S, NEW s \in Seq(S), NEW t \in Seq(S), NEW n \in Nat, n <= Len(s), n <= Len(t),
         \A i \in 1 .. n : s[i] = t[i]
  PROVE  SubSeq(s, 1, n) = SubSeq(t, 1, n)
<1>1. Len(s) \in Nat /\ Len(t) \in Nat
  BY LenProperties
<1>2. \A i \in 1 .. n : s[i] \in S /\ t[i] \in S
  <2>1. \A i \in 1 .. n : i \in 1 .. Len(s) /\ i \in 1 .. Len(t)
    BY <1>1
  <2> QED
    BY <2>1, ElementOfSeq
<1>3. 1 \in Int /\ n \in Int
  OBVIOUS
<1>4. /\ SubSeq(s, 1, n) \in Seq(S) /\ Len(SubSeq(s, 1, n)) = (IF 1 <= n THEN n - 1 + 1 ELSE 0)
      /\ \A i \in 1 .. n - 1 + 1 : SubSeq(s, 1, n)[i] = s[1 + i - 1]
  BY <1>2, <1>3, SubSeqProperties
<1>5. /\ SubSeq(t, 1, n) \in Seq(S) /\ Len(SubSeq(t, 1, n)) = (IF 1 <= n THEN n - 1 + 1 ELSE 0)
      /\ \A i \in 1 .. n - 1 + 1 : SubSeq(t, 1, n)[i] = t[1 + i - 1]
  BY <1>2, <1>3, SubSeqProperties
<1>6. Len(SubSeq(s, 1, n)) = n /\ Len(SubSeq(t, 1, n)) = n
  BY <1>4, <1>5
<1>7. \A i \in 1 .. n : SubSeq(s, 1, n)[i] = SubSeq(t, 1, n)[i]
  <2> SUFFICES ASSUME NEW i \in 1 .. n PROVE SubSeq(s, 1, n)[i] = SubSeq(t, 1, n)[i]
    OBVIOUS
  <2>1. i \in 1 .. n - 1 + 1 /\ 1 + i - 1 = i
    OBVIOUS
  <2>2. SubSeq(s, 1, n)[i] = s[i] /\ SubSeq(t, 1, n)[i] = t[i]
    BY <1>4, <1>5, <2>1
  <2> QED
    BY <2>2
<1> QED
  BY <1>4, <1>5, <1>6, <1>7, SeqEqual

\* What sys__dmesg finds in its turn i, and what it has copied out by then.
TurnAt(i) == dmesg[(DmesgFrom + i - 1) % DmesgSize]
TailFrom  == IF Len(logged) < DmesgSize THEN 1 ELSE Len(logged) - DmesgSize + 2
Given(t)  == SubSeq(logged, TailFrom, Len(logged) - DmesgSize + 1 + t)
Turns     == LET n == (dmesgi + DmesgSize - DmesgFrom) % DmesgSize IN IF n = 0 THEN DmesgSize ELSE n

LEMMA TurnsIs ==
  ASSUME LogInv
  PROVE  /\ Turns = DmesgSize - 1 /\ DmesgFrom \in 0 .. DmesgSize - 1
         /\ DmesgFrom = IF dmesgi + 1 < DmesgSize THEN dmesgi + 1 ELSE 0
<1> DEFINE D == DmesgSize
           p == dmesgi
           F == DmesgFrom
           x == p + 1
           y == p + D - F
<1>1. D \in Nat \ {0, 1} /\ p \in 0 .. D - 1
  BY ScrConsts DEF LogInv
<1>2. F = x % D
  BY DEF DmesgFrom
<1>3. Turns = IF y % D = 0 THEN D ELSE y % D
  BY DEF Turns
<1> HIDE DEF D, p, F
<1>4. (x < D => x % D = x) /\ (D <= x => x % D = x - D)
  <2>1. x \in Nat /\ x < 2 * D
    BY <1>1
  <2> HIDE DEF x
  <2> QED
    BY <1>1, <2>1, Wrapped
<1>5. F = IF p + 1 < D THEN p + 1 ELSE 0
  BY <1>1, <1>2, <1>4
<1>6. y = IF p + 1 < D THEN D - 1 ELSE D + D - 1
  BY <1>1, <1>5
<1>7. (y < D => y % D = y) /\ (D <= y => y % D = y - D)
  <2>1. y \in Nat /\ y < 2 * D
    BY <1>1, <1>6
  <2> HIDE DEF y
  <2> QED
    BY <1>1, <2>1, Wrapped
<1>8. y % D = D - 1
  <2> HIDE DEF y
  <2> QED
    BY <1>1, <1>6, <1>7
<1>9. Turns = D - 1
  <2> HIDE DEF y
  <2> QED
    BY <1>1, <1>3, <1>8
<1> QED
  BY <1>1, <1>5, <1>9 DEF D, F, p

\* A turn adds the next message, or nothing where nothing was written yet.
LEMMA TurnIs ==
  ASSUME LogInv, NEW t \in 1 .. DmesgSize - 1
  PROVE  Given(t) = IF TurnAt(t) = "" THEN Given(t - 1) ELSE Append(Given(t - 1), TurnAt(t))
<1> DEFINE D == DmesgSize
           L == Len(logged)
           p == dmesgi
           F == DmesgFrom
           m == L - D + 1 + t
           lo == TailFrom
           x == F + t - 1
<1>1. D \in Nat \ {0, 1} /\ p \in 0 .. D - 1 /\ logged \in Seq(LogChars) /\ L \in Nat /\ t \in 1 .. D - 1
  BY ScrConsts, LenProperties DEF LogInv
<1>2. F = IF p + 1 < D THEN p + 1 ELSE 0
  BY TurnsIs
<1>3. L < D => p = L /\ \A i \in L .. D - 1 : dmesg[i] = ""
  BY DEF LogInv
<1>4. \A j \in 1 .. D : j <= L => dmesg[LogAt(p, j)] = logged[L - j + 1]
  BY DEF LogInv
<1>5. lo = IF L < D THEN 1 ELSE L - D + 2
  BY DEF TailFrom
<1>6. TurnAt(t) = dmesg[x % D]
  BY DEF TurnAt
<1>7. Given(t) = SubSeq(logged, lo, m) /\ Given(t - 1) = SubSeq(logged, lo, m - 1)
  <2>1. L - D + 1 + (t - 1) = m - 1
    BY <1>1
  <2> QED
    BY <2>1 DEF Given
<1> HIDE DEF D, L, p, F, lo
<1>8. x % D = IF p + t < D THEN p + t ELSE p + t - D
  <2>1. x \in Nat /\ x < 2 * D /\ x = IF p + 1 < D THEN p + t ELSE t - 1
    BY <1>1, <1>2
  <2> HIDE DEF x
  <2>2. (x < D => x % D = x) /\ (D <= x => x % D = x - D)
    BY <1>1, <2>1, Wrapped
  <2> QED
    BY <1>1, <2>1, <2>2
<1> HIDE DEF x
<1>9. lo \in Int /\ m \in Int /\ m - 1 \in Int
  BY <1>1, <1>5
<1>10. CASE D - t <= L
  <2>1. LogAt(p, D - t) = x % D
    BY <1>1, <1>8 DEF LogAt, D
  <2>2. D - t \in 1 .. D /\ L - (D - t) + 1 = m /\ m \in 1 .. L /\ lo \in 1 .. L /\ lo <= m /\ m \in lo .. L
    BY <1>1, <1>5, <1>10
  <2> HIDE DEF m
  <2>3. TurnAt(t) = logged[m] /\ logged[m] \in LogChars
    <3>1. dmesg[LogAt(p, D - t)] = logged[L - (D - t) + 1]
      BY <1>4, <1>10, <2>2
    <3>2. logged[m] \in LogChars
      BY <1>1, <2>2, ElementOfSeq DEF L
    <3> QED
      BY <1>6, <2>1, <2>2, <3>1, <3>2
  <2>4. SubSeq(logged, lo, m) = SubSeq(logged, lo, m - 1) \o <<logged[m]>>
    BY <1>1, <2>2, SubSeqRecursiveSecond DEF L
  <2>5. SubSeq(logged, lo, m - 1) \in Seq(LogChars)
    <3>1. \A i \in lo .. m - 1 : i \in 1 .. Len(logged)
      BY <1>1, <2>2 DEF L
    <3>2. \A i \in lo .. m - 1 : logged[i] \in LogChars
      BY <1>1, <3>1, ElementOfSeq
    <3> QED
      BY <1>9, <3>2, SubSeqProperties
  <2>6. SubSeq(logged, lo, m - 1) \o <<logged[m]>> = Append(SubSeq(logged, lo, m - 1), logged[m])
    BY <2>3, <2>5, AppendIsConcat
  <2>7. TurnAt(t) # ""
    BY <2>3 DEF LogChars
  <2> QED
    BY <1>7, <2>3, <2>4, <2>6, <2>7
<1>11. CASE ~(D - t <= L)
  <2>1. L < D /\ m < lo /\ m - 1 < lo
    BY <1>1, <1>5, <1>11
  <2>2. x % D \in L .. D - 1
    <3>1. p = L /\ L + t < D
      <4>1. p = L
        BY <1>3, <2>1
      <4>2. L + t < D
        BY <1>1, <1>11
      <4> QED
        BY <4>1, <4>2
    <3>2. x % D = L + t
      BY <1>8, <3>1
    <3> QED
      BY <1>1, <3>1, <3>2
  <2>3. TurnAt(t) = ""
    BY <1>3, <1>6, <2>1, <2>2
  <2>4. SubSeq(logged, lo, m) = <<>> /\ SubSeq(logged, lo, m - 1) = <<>>
    BY <1>9, <2>1, SubSeqEmpty
  <2> QED
    BY <1>7, <2>3, <2>4
<1> QED
  BY <1>10, <1>11

\* All turns together give the tail of the log.
LEMMA OutIs ==
  ASSUME LogInv, SysDmesg
  PROVE  dmesgOut' = <<SubSeq(logged, TailFrom, Len(logged)), Len(logged)>>
<1> DEFINE K == CHOOSE out : out = [i \in 0 .. Turns |->
                  IF i = 0 THEN <<>>
                  ELSE IF TurnAt(i) = "" THEN out[i - 1] ELSE Append(out[i - 1], TurnAt(i))]
           N == Turns
           g == [i \in 0 .. N |-> Given(i)]
<1>1. dmesgOut' = <<K[N], Len(logged)>>
  BY DEF SysDmesg, Turns, TurnAt
<1>2. N = DmesgSize - 1 /\ N \in Nat \ {0}
  BY TurnsIs, ScrConsts
<1>3. Given(0) = <<>>
  <2>1. TailFrom \in Int /\ Len(logged) - DmesgSize + 1 + 0 \in Int /\ Len(logged) - DmesgSize + 1 + 0 < TailFrom
    <3>1. Len(logged) \in Nat
      BY LenProperties DEF LogInv
    <3> QED
      BY <3>1, ScrConsts DEF TailFrom
  <2> QED
    BY <2>1, SubSeqEmpty DEF Given
<1>4. \A i \in 1 .. N : Given(i) = IF TurnAt(i) = "" THEN Given(i - 1) ELSE Append(Given(i - 1), TurnAt(i))
  BY <1>2, TurnIs
<1>5. K = [i \in 0 .. N |-> IF i = 0 THEN <<>>
             ELSE IF TurnAt(i) = "" THEN K[i - 1] ELSE Append(K[i - 1], TurnAt(i))]
  <2>1. g = [i \in 0 .. N |-> IF i = 0 THEN <<>>
             ELSE IF TurnAt(i) = "" THEN g[i - 1] ELSE Append(g[i - 1], TurnAt(i))]
    <3>1. ASSUME NEW i \in 0 .. N
          PROVE  g[i] = IF i = 0 THEN <<>>
                        ELSE IF TurnAt(i) = "" THEN g[i - 1] ELSE Append(g[i - 1], TurnAt(i))
      <4> HIDE DEF N
      <4>1. CASE i = 0
        BY <1>3, <4>1
      <4>2. CASE i # 0
        <5>1. i \in 1 .. N /\ i - 1 \in 0 .. N
          BY <1>2, <4>2
        <5>2. g[i] = Given(i) /\ g[i - 1] = Given(i - 1)
          BY <5>1
        <5> HIDE DEF g
        <5> QED
          BY <1>4, <4>2, <5>1, <5>2
      <4> QED
        BY <4>1, <4>2
    <3>2. g = [i \in 0 .. N |-> g[i]]
      OBVIOUS
    <3> HIDE DEF g, N
    <3> QED
      BY <3>1, <3>2, Zenon
  <2>2. \E h : h = [i \in 0 .. N |-> IF i = 0 THEN <<>>
             ELSE IF TurnAt(i) = "" THEN h[i - 1] ELSE Append(h[i - 1], TurnAt(i))]
    <3> HIDE DEF g, N
    <3> QED
      BY <2>1, Zenon
  <2> QED
    BY <2>2 DEF K
<1> HIDE DEF K, N, g
<1>6. \A i \in 0 .. N : K[i] = Given(i)
  <2> DEFINE T == {i \in 0 .. N : K[i] # Given(i)}
  <2>1. SUFFICES ASSUME T # {} PROVE FALSE
    OBVIOUS
  <2>2. T \subseteq Nat
    BY <1>2
  <2>3. PICK n \in T : \A i \in T : n <= i
    BY <2>1, <2>2, HasLeast
  <2>4. n \in 0 .. N /\ n # 0
    BY <1>2, <1>3, <1>5, <2>3
  <2>5. n \in 1 .. N /\ n - 1 \in 0 .. N /\ n - 1 \notin T
    <3> HIDE DEF T
    <3>1. ASSUME n - 1 \in T PROVE n <= n - 1
      BY <2>3, <3>1
    <3> QED
      BY <1>2, <2>4, <3>1
  <2>6. K[n - 1] = Given(n - 1)
    BY <2>5
  <2>7. K[n] = IF TurnAt(n) = "" THEN K[n - 1] ELSE Append(K[n - 1], TurnAt(n))
    BY <1>5, <2>4, Zenon
  <2>8. K[n] = Given(n)
    BY <1>4, <2>5, <2>6, <2>7
  <2> QED
    BY <2>3, <2>8
<1>7. Given(N) = SubSeq(logged, TailFrom, Len(logged))
  <2>1. Len(logged) - DmesgSize + 1 + N = Len(logged)
    <3>1. Len(logged) \in Nat
      BY LenProperties DEF LogInv
    <3> QED
      BY <1>2, <3>1, ScrConsts
  <2> QED
    BY <2>1 DEF Given
<1>8. K[N] = Given(N)
  BY <1>2, <1>6
<1> QED
  BY <1>1, <1>7, <1>8

LEMMA ScrInitInv == ScrInit => ScrInv
<1> SUFFICES ASSUME ScrInit PROVE ScrInv
  OBVIOUS
<1>1. scr \in ScrRec /\ PrintLands
  BY ClearIs DEF ScrInit, PrintLands
<1>2. Len(logged) = 0 /\ dmesgi = 0 /\ dmesg = [i \in 0 .. DmesgSize - 1 |-> ""]
  BY DEF ScrInit
<1>3. LogInv
  <2>1. logged \in Seq(LogChars)
    BY EmptySeq DEF ScrInit
  <2>2. 0 \in 0 .. DmesgSize - 1 /\ \A i \in 0 .. DmesgSize - 1 : dmesg[i] = ""
    <3>1. 0 \in 0 .. DmesgSize - 1
      BY ScrConsts
    <3>2. \A i \in 0 .. DmesgSize - 1 : dmesg[i] = ""
      BY <1>2, Zenon
    <3> QED
      BY <3>1, <3>2
  <2>3. dmesg = [i \in 0 .. DmesgSize - 1 |-> dmesg[i]]
    BY <1>2
  <2>4. \A j \in 1 .. DmesgSize : ~(j <= Len(logged))
    <3>1. Len(logged) = 0
      BY <1>2, Zenon
    <3> QED
      BY <3>1, ScrConsts
  <2> QED
    BY <1>2, <2>1, <2>2, <2>3, <2>4 DEF LogInv
<1>4. DmesgInv
  <2>1. dmesgOut[1] = <<>> /\ dmesgOut[2] = 0
    BY DEF ScrInit
  <2>2. SubSeq(logged, 1, 0) = <<>> /\ SubSeq(<<>>, 1, 0) = <<>>
    BY SubSeqEmpty
  <2>3. Len(<<>>) = 0 /\ 0 < DmesgSize /\ 0 \in 0 .. 0
    BY ScrConsts, EmptySeq
  <2> QED
    BY <1>2, <2>1, <2>2, <2>3 DEF DmesgInv, DmesgTail
<1> QED
  BY <1>1, <1>3, <1>4 DEF ScrInv

LEMMA QuietSame ==
  ASSUME LogInv, DmesgInv, UNCHANGED <<dmesg, dmesgi, logged, dmesgOut>>
  PROVE  LogInv' /\ DmesgInv'
BY DEF LogInv, DmesgInv, DmesgTail, LogAt

\* What sys__dmesg gave before stays a beginning of the log.
LEMMA OutKept ==
  ASSUME LogInv, DmesgInv, NEW ch \in LogChars, ConPutk(ch)
  PROVE  LogInv' /\ DmesgInv'
<1> DEFINE n == dmesgOut[2]
<1>1. LogInv' /\ Len(logged') = Len(logged) + 1 /\ \A i \in 1 .. Len(logged) : logged'[i] = logged[i]
  BY LogPut DEF ConPutk
<1>2. logged \in Seq(LogChars) /\ logged' \in Seq(LogChars) /\ Len(logged) \in Nat
  BY <1>1, LenProperties DEF LogInv
<1>3. n \in 0 .. Len(logged) /\ dmesgOut' = dmesgOut
  BY DEF DmesgInv, ConPutk
<1> HIDE DEF n
<1>4. n \in Nat /\ n <= Len(logged) /\ n <= Len(logged') /\ \A i \in 1 .. n : logged'[i] = logged[i]
  BY <1>1, <1>2, <1>3
<1>5. SubSeq(logged', 1, n) = SubSeq(logged, 1, n)
  BY <1>2, <1>4, SubSeqSame
<1>6. DmesgTail'
  <2>1. DmesgTail /\ n = dmesgOut[2] /\ n = dmesgOut'[2]
    BY <1>3 DEF DmesgInv, n
  <2> QED
    BY <1>3, <1>5, <2>1 DEF DmesgTail
<1>7. dmesgOut'[2] \in 0 .. Len(logged')
  BY <1>1, <1>2, <1>3 DEF n
<1> QED
  BY <1>1, <1>6, <1>7 DEF DmesgInv

LEMMA OutNew == ASSUME LogInv, SysDmesg PROVE DmesgInv'
<1>1. dmesgOut'[1] = SubSeq(logged, TailFrom, Len(logged)) /\ dmesgOut'[2] = Len(logged)
  BY OutIs
<1>2. logged' = logged /\ logged \in Seq(LogChars) /\ Len(logged) \in Nat
  BY LenProperties DEF SysDmesg, LogInv
<1>3. SubSeq(logged, 1, Len(logged)) = logged
  BY <1>2, SubSeqFull
<1>4. DmesgTail'
  BY <1>1, <1>2, <1>3 DEF DmesgTail, TailFrom
<1> QED
  BY <1>1, <1>2, <1>4 DEF DmesgInv

LEMMA ScrNextInv == ScrInv /\ [ScrNext]_scrVars => ScrInv'
<1> SUFFICES ASSUME ScrInv, [ScrNext]_scrVars PROVE ScrInv'
  OBVIOUS
<1>0. scr \in ScrRec /\ PrintLands /\ LogInv /\ DmesgInv
  BY DEF ScrInv
<1>1. ASSUME NEW ch \in Plain, ScrChar(ch) PROVE ScrInv'
  <2>1. Printed(scr, ch) /\ UNCHANGED <<dmesg, dmesgi, logged, dmesgOut>>
    BY <1>1 DEF ScrChar, quiet
  <2> QED
    BY <1>0, <2>1, PrintedIs, QuietSame DEF ScrInv
<1>2. ASSUME NEW ch \in Plain, EscUnknown(ch) PROVE ScrInv'
  <2>1. Printed(con_putca(scr, "x"), ch) /\ UNCHANGED <<dmesg, dmesgi, logged, dmesgOut>>
    BY <1>2 DEF EscUnknown, quiet
  <2>2. con_putca(scr, "x") \in ScrRec
    BY <1>0, PutcaIs DEF Plain
  <2> QED
    BY <1>0, <2>1, <2>2, PrintedIs, QuietSame DEF ScrInv
<1>3. CASE Escape
  <2>1. scr' = scr /\ landed' = <<>> /\ UNCHANGED <<dmesg, dmesgi, logged, dmesgOut>>
    BY <1>3 DEF Escape, quiet
  <2> QED
    BY <1>0, <2>1, QuietSame DEF ScrInv, PrintLands
<1>4. ASSUME NEW ch, EscCommand(ch) PROVE ScrInv'
  <2>1. scr' \in ScrRec /\ landed' = <<>>
    BY <1>0, <1>4, EscIs
  <2>2. UNCHANGED <<dmesg, dmesgi, logged, dmesgOut>>
    BY <1>4 DEF EscCommand
  <2> QED
    BY <1>0, <2>1, <2>2, QuietSame DEF ScrInv, PrintLands
<1>5. ASSUME NEW f, NEW on, EscStyle(f, on) PROVE ScrInv'
  <2>1. scr' = scr /\ landed' = <<>> /\ UNCHANGED <<dmesg, dmesgi, logged, dmesgOut>>
    BY <1>5 DEF EscStyle
  <2> QED
    BY <1>0, <2>1, QuietSame DEF ScrInv, PrintLands
<1>6. ASSUME NEW v \in Coords, EscCoord(v) PROVE ScrInv'
  <2>1. landed' = <<>> /\ UNCHANGED <<dmesg, dmesgi, logged, dmesgOut>>
    BY <1>6 DEF EscCoord, quiet
  <2>2. scr' = Rec(v, scr.y, scr.fb) \/ scr' = Rec(scr.x, v, scr.fb)
    <3>1. scr' = [scr EXCEPT !.x = v] \/ scr' = [scr EXCEPT !.y = v]
      BY <1>6 DEF EscCoord
    <3> QED
      BY <1>0, <3>1, ScrSet, Zenon
  <2>3. v \in Nat /\ scr.x \in Nat /\ scr.y \in Nat /\ scr.fb \in Frames
    BY <1>0, ScrConsts, ScrParts
  <2>4. scr' \in ScrRec
    BY <2>2, <2>3, RecIs
  <2> QED
    BY <1>0, <2>1, <2>4, QuietSame DEF ScrInv, PrintLands
<1>7. ASSUME NEW ch \in {"x", "nl"}, ConPutk(ch) PROVE ScrInv'
  <2>1. ch \in LogChars /\ ch \in Plain
    BY DEF LogChars, Plain
  <2>2. Printed(scr, ch)
    BY <1>7 DEF ConPutk
  <2>3. scr' \in ScrRec /\ PrintLands'
    BY <1>0, <2>1, <2>2, PrintedIs
  <2>4. LogInv' /\ DmesgInv'
    BY <1>0, <1>7, <2>1, OutKept
  <2> QED
    BY <2>3, <2>4 DEF ScrInv
<1>8. CASE SysDmesg
  <2>1. scr' = scr /\ landed' = <<>> /\ UNCHANGED <<dmesg, dmesgi, logged>>
    BY <1>8 DEF SysDmesg
  <2>2. LogInv'
    BY <1>0, <2>1 DEF LogInv, LogAt
  <2>3. DmesgInv'
    BY <1>0, <1>8, OutNew
  <2> QED
    BY <1>0, <2>1, <2>2, <2>3 DEF ScrInv, PrintLands
<1>9. CASE UNCHANGED scrVars
  <2>1. UNCHANGED <<scr, landed>> /\ UNCHANGED <<dmesg, dmesgi, logged, dmesgOut>>
    BY <1>9 DEF scrVars
  <2> QED
    BY <1>0, <2>1, QuietSame DEF ScrInv, PrintLands
<1> QED
  BY <1>1, <1>2, <1>3, <1>4, <1>5, <1>6, <1>7, <1>8, <1>9 DEF ScrNext

\* The key queue gives its reader the keys typed since it last overflowed, in
\* order (pckbd.c); every character that shows lands on the screen right before
\* the cursor, wherever a program sent it, and sys__dmesg gives the end of the
\* log (console.c, condev.c): for any sizes of the queue, the screen and the log.
THEOREM ConsoleCorrect ==
  KbInit /\ [][KbNext]_kbVars /\ ScrInit /\ [][ScrNext]_scrVars => []ConsoleExact
<1>1. KbInv /\ ScrInv => ConsoleExact
  BY KbEnough DEF ScrInv, DmesgInv, ScreenExact, ConsoleExact
<1> QED
  BY <1>1, KbInitInv, KbNextInv, ScrInitInv, ScrNextInv, PTL
=============================================================================
